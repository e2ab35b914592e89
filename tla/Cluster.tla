------------------------------- MODULE Cluster -------------------------------
(***************************************************************************)
(* Several gateways over one database: each has a cache of avatars of its  *)
(* own (ChatAvatarService), the tables `avatar` and `friend` are shared,   *)
(* and nothing passes between gateways.  A gateway handles one request at  *)
(* a time, but the statements of requests to different gateways            *)
(* interleave, so the login of a new avatar is a step for each.            *)
(*                                                                         *)
(* A player may log in to any gateway, and to a second one without having  *)
(* logged out of the first.  Left out: presence, which each gateway has    *)
(* for itself, rooms, mail and the website, and statements that fail,      *)
(* which the modules of one gateway have.  Loading is one step.            *)
(***************************************************************************)
EXTENDS Naturals, FiniteSetsExt

CONSTANTS
    Gateway,
    Avatar         \* the avatars there can be, by name and address

VARIABLES
    avatarTable,   \* avatarTable[a]: the id of the row of a, or NoRow
    friendTable,   \* the rows <<a, b>> of `friend`
    nextId,        \* the next AUTO_INCREMENT of `avatar`
    cache,         \* cache[g][a]: the object of a in gateway g, or NotCached
    handler,       \* handler[g]: the login in progress, or Idle
    writers        \* history: writers[a] are the gateways that changed the friends of a

vars == <<avatarTable, friendTable, nextId, cache, handler, writers>>

NoRow == 0
NotCached == [id |-> 0, friends |-> {}]
Idle == [at |-> "idle", avatar |-> 0, id |-> 0]

Init ==
    /\ avatarTable = [a \in Avatar |-> NoRow]
    /\ friendTable = {}
    /\ nextId = 1
    /\ cache = [g \in Gateway |-> [a \in Avatar |-> NotCached]]
    /\ handler = [g \in Gateway |-> Idle]
    /\ writers = [a \in Avatar |-> {}]

Cached(g, a) == cache[g][a] # NotCached

FriendsStored(a) == {b \in Avatar : <<a, b>> \in friendTable}

\* What LoadStoredAvatar and LoadFriendList make of the rows of a.
LoadStoredAvatar(a) ==
    [id |-> avatarTable[a], friends |-> FriendsStored(a)]

\* The cache of g after GetAvatar(a), for which there is an object or a row: with a
\* those of its friends are loaded that have no object, and their friends.
GetAvatar(g, a) ==
    LET Closed(S) == \A b \in S : FriendsStored(b) \subseteq {c \in Avatar : c \in S \/ Cached(g, c)}
        loaded == {b \in Avatar : \A S \in SUBSET Avatar : a \in S /\ Closed(S) => b \in S}
    IN  IF Cached(g, a) THEN cache[g]
        ELSE [b \in Avatar |-> IF b \in loaded /\ ~Cached(g, b) THEN LoadStoredAvatar(b)
                               ELSE cache[g][b]]

-----------------------------------------------------------------------------
\* LoginAvatar of an avatar that has an object or a row.
LoginAvatar(g, a) ==
    /\ handler[g] = Idle /\ (Cached(g, a) \/ avatarTable[a] # NoRow)
    /\ cache' = [cache EXCEPT ![g] = GetAvatar(g, a)]
    /\ UNCHANGED <<avatarTable, friendTable, nextId, handler, writers>>

\* LoginAvatar of one that has neither: CreateAvatar comes next.
LoginNew(g, a) ==
    /\ handler[g] = Idle /\ ~Cached(g, a) /\ avatarTable[a] = NoRow
    /\ handler' = [handler EXCEPT ![g] = [at |-> "insert", avatar |-> a, id |-> 0]]
    /\ UNCHANGED <<avatarTable, friendTable, nextId, cache, writers>>

\* Mutant: the avatar is cached before it is inserted.
InsertAvatarCachedFirst(g) ==
    LET a == handler[g].avatar
    IN  /\ handler[g].at = "insert"
        /\ cache' = [cache EXCEPT ![g][a] = [id |-> nextId, friends |-> {}]]
        /\ \/ /\ avatarTable[a] = NoRow
              /\ avatarTable' = [avatarTable EXCEPT ![a] = nextId]
              /\ handler' = [handler EXCEPT ![g] = [at |-> "rowid", avatar |-> a, id |-> nextId]]
           \/ /\ avatarTable[a] # NoRow
              /\ handler' = [handler EXCEPT ![g] = Idle]
              /\ UNCHANGED avatarTable
        /\ nextId' = nextId + 1
        /\ UNCHANGED <<friendTable, writers>>

\* InsertAvatar: the name and address are a unique key, so one whose row another
\* gateway has inserted meanwhile is refused; an id is used up nonetheless.
InsertAvatar(g) ==
    LET a == handler[g].avatar
    IN  /\ handler[g].at = "insert"
        /\ \/ /\ avatarTable[a] = NoRow
              /\ avatarTable' = [avatarTable EXCEPT ![a] = nextId]
              /\ handler' = [handler EXCEPT ![g] = [at |-> "rowid", avatar |-> a, id |-> nextId]]
           \/ /\ avatarTable[a] # NoRow
              /\ handler' = [handler EXCEPT ![g] = Idle]
              /\ UNCHANGED avatarTable
        /\ nextId' = nextId + 1
        /\ UNCHANGED <<friendTable, cache, writers>>

\* Mutant: the id is the largest of the table.
InsertedIdOfTable(g) == Max({avatarTable[a] : a \in Avatar})

\* mariadb_last_insert_rowid: the last id that this connection inserted.
InsertedId(g) == handler[g].id

\* The rest of the login of a new avatar.
LoginCreated(g) ==
    LET a == handler[g].avatar
    IN  /\ handler[g].at = "rowid"
        /\ cache' = [cache EXCEPT ![g][a] =
                        [id |-> InsertedId(g), friends |-> {}]]
        /\ handler' = [handler EXCEPT ![g] = Idle]
        /\ UNCHANGED <<avatarTable, friendTable, nextId, writers>>

\* AddFriend and RemoveFriend of ChatAvatar look at the object alone: a friend in
\* its list is not inserted, one that is not there is not deleted.  The INSERT
\* of a row that is there already fails, with the friend in the list.
AddFriend(g, a, b) ==
    /\ handler[g] = Idle /\ a # b /\ Cached(g, a) /\ avatarTable[b] # NoRow
    /\ LET loaded == GetAvatar(g, b)
       IN  \/ /\ b \in loaded[a].friends
              /\ cache' = [cache EXCEPT ![g] = loaded]
              /\ UNCHANGED <<friendTable, writers>>
           \/ /\ b \notin loaded[a].friends
              /\ cache' = [cache EXCEPT ![g] = [loaded EXCEPT ![a].friends = @ \cup {b}]]
              /\ friendTable' = friendTable \cup {<<a, b>>}
              /\ writers' = [writers EXCEPT ![a] = @ \cup {g}]
    /\ UNCHANGED <<avatarTable, nextId, handler>>

\* Mutant: the row is not deleted.
RemoveFriendInMemory(g, a, b) ==
    /\ handler[g] = Idle /\ Cached(g, a) /\ b \in cache[g][a].friends
    /\ cache' = [cache EXCEPT ![g][a].friends = @ \ {b}]
    /\ writers' = [writers EXCEPT ![a] = @ \cup {g}]
    /\ UNCHANGED <<avatarTable, friendTable, nextId, handler>>

RemoveFriend(g, a, b) ==
    /\ handler[g] = Idle /\ Cached(g, a) /\ b \in cache[g][a].friends
    /\ cache' = [cache EXCEPT ![g][a].friends = @ \ {b}]
    /\ friendTable' = friendTable \ {<<a, b>>}
    /\ writers' = [writers EXCEPT ![a] = @ \cup {g}]
    /\ UNCHANGED <<avatarTable, nextId, handler>>

\* A gateway dies, perhaps between two statements, and is started again.
Restart(g) ==
    /\ cache' = [cache EXCEPT ![g] = [a \in Avatar |-> NotCached]]
    /\ handler' = [handler EXCEPT ![g] = Idle]
    /\ UNCHANGED <<avatarTable, friendTable, nextId, writers>>

Next ==
    \E g \in Gateway :
        \/ InsertAvatar(g)
        \/ LoginCreated(g)
        \/ Restart(g)
        \/ \E a \in Avatar :
              \/ LoginAvatar(g, a)
              \/ LoginNew(g, a)
              \/ \E b \in Avatar : AddFriend(g, a, b) \/ RemoveFriend(g, a, b)

Spec == Init /\ [][Next]_vars

-----------------------------------------------------------------------------
Objects == [id : Nat \ {0}, friends : SUBSET Avatar] \cup {NotCached}

\* The state has its type; an avatar that is being created is not cached yet.
TypeOK ==
    /\ avatarTable \in [Avatar -> Nat]
    /\ friendTable \subseteq Avatar \X Avatar
    /\ nextId \in Nat \ {0}
    /\ cache \in [Gateway -> [Avatar -> Objects]]
    /\ \A g \in Gateway :
          handler[g] # Idle => handler[g].at \in {"insert", "rowid"} /\ ~Cached(g, handler[g].avatar)
    /\ writers \in [Avatar -> SUBSET Gateway]

\* All gateways know an avatar by one id, that of its row, even if two have created
\* it at once or others were created between the INSERT and its id: friends,
\* mail and the answers to clients have nothing else (CreateAvatar).
OneIdPerAvatar ==
    \A g \in Gateway, a \in Avatar :
        Cached(g, a) => avatarTable[a] # NoRow /\ cache[g][a].id = avatarTable[a]

\* The friends of an avatar are in memory as they are in the database on the one
\* gateway that has ever changed them, restarts included (AddFriend,
\* RemoveFriend, LoadFriendList).
InSyncWhereChanged ==
    \A g \in Gateway, a \in Avatar :
        Cached(g, a) /\ writers[a] = {g} => cache[g][a].friends = FriendsStored(a)

\* The friends of an avatar are in memory as they are in the database, on every
\* gateway: README.md:302 has all nodes in sync through the database.  A cache is
\* never refreshed, so a change made on another gateway stays unknown.
NodesInSync ==
    \A g \in Gateway, a \in Avatar :
        Cached(g, a) => cache[g][a].friends = FriendsStored(a)
=============================================================================
