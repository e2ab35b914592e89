-------------------------- MODULE SharedTables_proofs --------------------------
(***************************************************************************)
(* Proofs about what gateways share, in the parts of MCSharedTables, for   *)
(* any gateways, avatars, integers and schemas.                            *)
(*                                                                         *)
(* Cluster: the inductive invariant adds to the properties what makes them *)
(* last: keys that refer to rows, and that a gateway that is creating an   *)
(* avatar neither has it cached nor has ever changed its friends.          *)
(*                                                                         *)
(* AvatarAttributes is inductive as it stands.  WebsiteStatus needs what   *)
(* holds between the two statements of a login, and of rows not yet        *)
(* written.                                                                *)
(***************************************************************************)
EXTENDS SharedTables, TLAPS

-----------------------------------------------------------------------------
(***************************************************************************)
(* Cluster                                                                 *)
(***************************************************************************)

HandlerOK ==
    handler \in [Gateway -> {Idle} \cup [at : {"insert", "rowid"}, avatar : Avatar, id : Nat]]

ForeignKeys ==
    \A a, b \in Avatar :
        <<a, b>> \in friendTable => avatarTable[a] # NoRow /\ avatarTable[b] # NoRow

Creating ==
    \A g \in Gateway :
        handler[g] # Idle =>
            /\ handler[g].at \in {"insert", "rowid"} /\ ~Cached(g, handler[g].avatar)
            /\ g \notin writers[handler[g].avatar]
            /\ handler[g].at = "rowid" =>
                  avatarTable[handler[g].avatar] # NoRow
                  /\ handler[g].id = avatarTable[handler[g].avatar]

WritersHaveRows == \A a \in Avatar : writers[a] # {} => avatarTable[a] # NoRow

UnchangedIsEmpty == \A a \in Avatar : writers[a] = {} => FriendsStored(a) = {}

InSync ==
    \A g \in Gateway, a \in Avatar :
        Cached(g, a) /\ writers[a] \subseteq {g} => cache[g][a].friends = FriendsStored(a)

IInv ==
    TypeOK /\ HandlerOK /\ ForeignKeys /\ OneIdPerAvatar /\ Creating
    /\ WritersHaveRows /\ UnchangedIsEmpty /\ InSync

-----------------------------------------------------------------------------
\* The initial states satisfy the inductive invariant.
LEMMA InitInv == Init => IInv
  BY DEF Init, IInv, TypeOK, HandlerOK, ForeignKeys, OneIdPerAvatar, Creating, WritersHaveRows,
         UnchangedIsEmpty, InSync, NoRow, NotCached, Idle, Objects, Cached, FriendsStored

\* What GetAvatar leaves in the cache: what was there, or what the rows say.
LEMMA GetAvatarLoads ==
    ASSUME IInv, NEW g \in Gateway, NEW a \in Avatar, Cached(g, a) \/ avatarTable[a] # NoRow
    PROVE  /\ GetAvatar(g, a) \in [Avatar -> Objects]
           /\ \A b \in Avatar :
                 \/ GetAvatar(g, a)[b] = cache[g][b]
                 \/ /\ avatarTable[b] # NoRow
                    /\ GetAvatar(g, a)[b] = LoadStoredAvatar(b)
<1> DEFINE Closed(S) ==
              \A b \in S : FriendsStored(b) \subseteq {c \in Avatar : c \in S \/ Cached(g, c)}
           loaded == {b \in Avatar : \A S \in SUBSET Avatar : a \in S /\ Closed(S) => b \in S}
           stored == {b \in Avatar : avatarTable[b] # NoRow}
<1>1. avatarTable[a] # NoRow
  BY DEF IInv, OneIdPerAvatar
<1>2. Closed(stored)
  BY DEF IInv, ForeignKeys, FriendsStored
<1>3. \A b \in loaded : avatarTable[b] # NoRow
  <2>1. stored \in SUBSET Avatar /\ a \in stored
    BY <1>1
  <2> QED
    BY <1>2, <2>1
<1>4. GetAvatar(g, a) = IF Cached(g, a) THEN cache[g]
                        ELSE [b \in Avatar |-> IF b \in loaded /\ ~Cached(g, b)
                                               THEN LoadStoredAvatar(b) ELSE cache[g][b]]
  BY DEF GetAvatar
<1> HIDE DEF loaded
<1>5. cache[g] \in [Avatar -> Objects]
  BY DEF IInv, TypeOK
<1>6. \A b \in Avatar : avatarTable[b] # NoRow => LoadStoredAvatar(b) \in Objects
  BY DEF IInv, TypeOK, LoadStoredAvatar, FriendsStored, Objects, NoRow
<1> QED
  BY <1>3, <1>4, <1>5, <1>6

\* A step of gateway g, not creating, that changes its cache alone, to what was there
\* or what the rows say.
LEMMA CacheStep ==
    ASSUME IInv, NEW g \in Gateway, NEW c \in [Avatar -> Objects], handler[g] = Idle,
           \A b \in Avatar :
              \/ c[b] = cache[g][b]
              \/ c[b] = NotCached
              \/ avatarTable[b] # NoRow /\ c[b] = LoadStoredAvatar(b),
           cache' = [cache EXCEPT ![g] = c],
           UNCHANGED <<avatarTable, friendTable, nextId, handler, writers>>
    PROVE  IInv'
<1>1. /\ cache' \in [Gateway -> [Avatar -> Objects]]
      /\ \A h \in Gateway, b \in Avatar : h # g => cache'[h][b] = cache[h][b]
      /\ \A b \in Avatar : cache'[g][b] = c[b]
  BY DEF IInv, TypeOK
<1>2. TypeOK'
  BY <1>1 DEF IInv, TypeOK, Creating, HandlerOK, Cached, Idle
<1>3. HandlerOK' /\ ForeignKeys' /\ WritersHaveRows' /\ UnchangedIsEmpty'
  BY DEF IInv, HandlerOK, ForeignKeys, WritersHaveRows, UnchangedIsEmpty, FriendsStored
<1>4. OneIdPerAvatar'
  BY <1>1 DEF IInv, OneIdPerAvatar, Cached, LoadStoredAvatar
<1>5. Creating'
  BY <1>1 DEF IInv, Creating, HandlerOK, Cached, Idle
<1>6. InSync'
  BY <1>1 DEF IInv, InSync, Cached, LoadStoredAvatar, FriendsStored
<1> QED
  BY <1>2, <1>3, <1>4, <1>5, <1>6 DEF IInv

\* An avatar that is in the cache or has a row logs in.
LEMMA LoginAvatarStep ==
    ASSUME IInv, NEW g \in Gateway, NEW a \in Avatar, LoginAvatar(g, a)
    PROVE  IInv'
<1>1. handler[g] = Idle /\ (Cached(g, a) \/ avatarTable[a] # NoRow)
  BY DEF LoginAvatar
<1>2. /\ GetAvatar(g, a) \in [Avatar -> Objects]
      /\ \A b \in Avatar :
            \/ GetAvatar(g, a)[b] = cache[g][b]
            \/ avatarTable[b] # NoRow /\ GetAvatar(g, a)[b] = LoadStoredAvatar(b)
  BY <1>1, GetAvatarLoads
<1> DEFINE c == GetAvatar(g, a)
<1>3. /\ cache' = [cache EXCEPT ![g] = c]
      /\ UNCHANGED <<avatarTable, friendTable, nextId, handler, writers>>
  BY DEF LoginAvatar
<1> HIDE DEF c
<1>4. /\ c \in [Avatar -> Objects]
      /\ \A b \in Avatar :
            \/ c[b] = cache[g][b]
            \/ c[b] = NotCached
            \/ avatarTable[b] # NoRow /\ c[b] = LoadStoredAvatar(b)
  BY <1>2 DEF c
<1> QED
  BY <1>1, <1>3, <1>4, CacheStep

\* An avatar without a row logs in: it is going to be inserted.
LEMMA LoginNewStep ==
    ASSUME IInv, NEW g \in Gateway, NEW a \in Avatar, LoginNew(g, a)
    PROVE  IInv'
<1> DEFINE new == [at |-> "insert", avatar |-> a, id |-> 0]
<1>1. /\ ~Cached(g, a) /\ avatarTable[a] = NoRow /\ handler' = [handler EXCEPT ![g] = new]
      /\ UNCHANGED <<avatarTable, friendTable, nextId, cache, writers>>
  BY DEF LoginNew
<1>2. HandlerOK'
  BY <1>1 DEF IInv, HandlerOK
<1>3. /\ handler'[g] = new
      /\ \A h \in Gateway : h # g => handler'[h] = handler[h]
  BY <1>1 DEF IInv, HandlerOK
<1>4. writers[a] = {}
  BY <1>1 DEF IInv, WritersHaveRows
<1>5. Creating'
  BY <1>1, <1>3, <1>4 DEF IInv, Creating, Cached
<1>6. TypeOK'
  BY <1>1, <1>3 DEF IInv, TypeOK, Cached
<1>7. ForeignKeys' /\ OneIdPerAvatar' /\ WritersHaveRows' /\ UnchangedIsEmpty' /\ InSync'
  BY <1>1 DEF IInv, ForeignKeys, OneIdPerAvatar, WritersHaveRows, UnchangedIsEmpty, InSync,
              FriendsStored, Cached
<1> QED
  BY <1>2, <1>5, <1>6, <1>7 DEF IInv

\* The row of an avatar that is inserted was nobody's, so no id in use changes.
LEMMA InsertAvatarStep ==
    ASSUME IInv, NEW g \in Gateway, InsertAvatar(g)
    PROVE  IInv'
<1> DEFINE a == handler[g].avatar
           new == [at |-> "rowid", avatar |-> a, id |-> nextId]
<1>1. /\ handler[g].at = "insert" /\ handler[g] # Idle /\ a \in Avatar
      /\ nextId \in Nat \ {0}
      /\ nextId' = nextId + 1 /\ UNCHANGED <<friendTable, cache, writers>>
  BY DEF IInv, TypeOK, HandlerOK, InsertAvatar, Idle
<1>2. CASE avatarTable[a] = NoRow /\ avatarTable' = [avatarTable EXCEPT ![a] = nextId]
           /\ handler' = [handler EXCEPT ![g] = new]
  <2>1. /\ handler'[g] = new
        /\ \A h \in Gateway : h # g => handler'[h] = handler[h]
        /\ HandlerOK'
    BY <1>1, <1>2 DEF IInv, HandlerOK
  <2>2. /\ avatarTable' \in [Avatar -> Nat]
        /\ avatarTable'[a] = nextId
        /\ \A b \in Avatar : avatarTable[b] # NoRow => avatarTable'[b] = avatarTable[b]
        /\ \A b \in Avatar : avatarTable[b] # NoRow => avatarTable'[b] # NoRow
    BY <1>1, <1>2 DEF IInv, TypeOK, NoRow
  <2>3. TypeOK'
    BY <1>1, <2>1, <2>2 DEF IInv, TypeOK, Creating, Cached
  <2>4. Creating'
    <3>1. ~Cached(g, a) /\ g \notin writers[a] /\ nextId # NoRow
      BY <1>1 DEF IInv, Creating, NoRow
    <3> QED
      BY <1>1, <2>1, <2>2, <3>1 DEF IInv, Creating, HandlerOK, Cached, Idle
  <2>5. ForeignKeys' /\ OneIdPerAvatar' /\ WritersHaveRows'
    BY <1>1, <2>2 DEF IInv, ForeignKeys, OneIdPerAvatar, WritersHaveRows, Cached
  <2>6. UnchangedIsEmpty' /\ InSync'
    BY <1>1 DEF IInv, UnchangedIsEmpty, InSync, FriendsStored, Cached
  <2> QED
    BY <2>1, <2>3, <2>4, <2>5, <2>6 DEF IInv
<1>3. CASE handler' = [handler EXCEPT ![g] = Idle] /\ UNCHANGED avatarTable
  <2>1. /\ handler'[g] = Idle
        /\ \A h \in Gateway : h # g => handler'[h] = handler[h]
        /\ HandlerOK'
    BY <1>3 DEF IInv, HandlerOK
  <2>2. TypeOK' /\ Creating'
    BY <1>1, <1>3, <2>1 DEF IInv, TypeOK, Creating, Cached
  <2>3. ForeignKeys' /\ OneIdPerAvatar' /\ WritersHaveRows' /\ UnchangedIsEmpty' /\ InSync'
    BY <1>1, <1>3 DEF IInv, ForeignKeys, OneIdPerAvatar, WritersHaveRows, UnchangedIsEmpty,
                      InSync, FriendsStored, Cached
  <2> QED
    BY <2>1, <2>2, <2>3 DEF IInv
<1> QED
  BY <1>2, <1>3 DEF InsertAvatar

\* The id is that of the row, and nobody on this gateway has made friends of a since
\* the row was inserted; whoever did on another is among the writers.
LEMMA LoginCreatedStep ==
    ASSUME IInv, NEW g \in Gateway, LoginCreated(g)
    PROVE  IInv'
<1> DEFINE a == handler[g].avatar
           new == [id |-> InsertedId(g), friends |-> {}]
<1>1. /\ handler[g].at = "rowid" /\ handler[g] # Idle /\ a \in Avatar
      /\ cache' = [cache EXCEPT ![g][a] = new]
      /\ handler' = [handler EXCEPT ![g] = Idle]
      /\ UNCHANGED <<avatarTable, friendTable, nextId, writers>>
  BY DEF IInv, HandlerOK, LoginCreated, Idle
<1>2. /\ g \notin writers[a] /\ avatarTable[a] # NoRow
      /\ new.id = avatarTable[a] /\ new.friends = {}
  BY <1>1 DEF IInv, Creating, InsertedId
<1>3. new \in Objects /\ new # NotCached
  BY <1>1, <1>2 DEF IInv, TypeOK, Objects, NotCached, NoRow
<1> HIDE DEF new
<1>4. /\ cache' \in [Gateway -> [Avatar -> Objects]]
      /\ cache'[g][a] = new
      /\ \A h \in Gateway, b \in Avatar : h # g \/ b # a => cache'[h][b] = cache[h][b]
  BY <1>1, <1>3 DEF IInv, TypeOK
<1>5. /\ handler'[g] = Idle
      /\ \A h \in Gateway : h # g => handler'[h] = handler[h]
      /\ HandlerOK'
  BY <1>1 DEF IInv, HandlerOK
<1>6. \A h \in Gateway : h # g /\ handler[h] # Idle => handler[h].avatar \in Avatar
  BY DEF IInv, HandlerOK
<1>7. TypeOK' /\ Creating'
  BY <1>1, <1>4, <1>5, <1>6 DEF IInv, TypeOK, Creating, Cached
<1>8. OneIdPerAvatar'
  BY <1>1, <1>2, <1>4 DEF IInv, OneIdPerAvatar, Cached
<1>9. ForeignKeys' /\ WritersHaveRows' /\ UnchangedIsEmpty'
  BY <1>1 DEF IInv, ForeignKeys, WritersHaveRows, UnchangedIsEmpty, FriendsStored
<1>10. InSync'
  BY <1>1, <1>2, <1>4 DEF IInv, InSync, UnchangedIsEmpty, FriendsStored, Cached
<1> QED
  BY <1>5, <1>7, <1>8, <1>9, <1>10 DEF IInv

\* Gateway g, not creating, leaves the friends of a the same in memory and in the table
\* where they were the same if no other gateway had changed them.
LEMMA FriendsStep ==
    ASSUME IInv, NEW g \in Gateway, NEW a \in Avatar, handler[g] = Idle, Cached(g, a),
           cache' \in [Gateway -> [Avatar -> Objects]],
           cache'[g][a] # NotCached, cache'[g][a].id = avatarTable[a],
           \A b \in Avatar : b # a =>
              \/ cache'[g][b] = cache[g][b]
              \/ avatarTable[b] # NoRow /\ cache'[g][b] = LoadStoredAvatar(b),
           \A h \in Gateway, b \in Avatar : h # g => cache'[h][b] = cache[h][b],
           writers' = [writers EXCEPT ![a] = @ \cup {g}],
           friendTable' \subseteq Avatar \X Avatar,
           \A b, d \in Avatar : b # a => (<<b, d>> \in friendTable' <=> <<b, d>> \in friendTable),
           \A d \in Avatar : <<a, d>> \in friendTable' => avatarTable[d] # NoRow,
           writers[a] \subseteq {g} =>
              \A d \in Avatar : d \in cache'[g][a].friends <=> <<a, d>> \in friendTable',
           UNCHANGED <<avatarTable, nextId, handler>>
    PROVE  IInv'
<1>1. /\ writers' \in [Avatar -> SUBSET Gateway]
      /\ writers'[a] = writers[a] \cup {g}
      /\ \A b \in Avatar : b # a => writers'[b] = writers[b]
  BY DEF IInv, TypeOK
<1>2. \A h \in Gateway : handler[h] # Idle => h # g /\ handler[h].avatar \in Avatar
  BY DEF IInv, HandlerOK
<1>3. \A b \in Avatar : b # a => FriendsStored(b)' = FriendsStored(b)
  BY DEF FriendsStored
<1>4. avatarTable[a] # NoRow
  BY DEF IInv, OneIdPerAvatar
<1>5. TypeOK' /\ Creating'
  BY <1>1, <1>2 DEF IInv, TypeOK, Creating, Cached
<1>6. HandlerOK' /\ ForeignKeys' /\ WritersHaveRows'
  BY <1>1, <1>4 DEF IInv, HandlerOK, ForeignKeys, WritersHaveRows
<1>7. \A b \in Avatar :
         /\ LoadStoredAvatar(b).id = avatarTable[b]
         /\ LoadStoredAvatar(b).friends = FriendsStored(b)
  BY DEF LoadStoredAvatar
<1>8. OneIdPerAvatar'
  <2> SUFFICES ASSUME NEW h \in Gateway, NEW b \in Avatar, cache'[h][b] # NotCached
               PROVE  avatarTable[b] # NoRow /\ cache'[h][b].id = avatarTable[b]
    BY DEF OneIdPerAvatar, Cached
  <2>1. CASE b = a /\ h = g
    BY <1>4, <2>1
  <2>2. CASE ~(b = a /\ h = g)
    BY <1>7, <2>2 DEF IInv, OneIdPerAvatar, Cached
  <2> QED
    BY <2>1, <2>2
<1>9. UnchangedIsEmpty'
  BY <1>1, <1>3 DEF IInv, UnchangedIsEmpty
<1>10. InSync'
  <2> SUFFICES ASSUME NEW h \in Gateway, NEW b \in Avatar,
                      Cached(h, b)', writers'[b] \subseteq {h}
               PROVE  cache'[h][b].friends = FriendsStored(b)'
    BY DEF InSync
  <2>1. CASE b = a
    <3>1. h = g /\ writers[a] \subseteq {g}
      BY <1>1, <2>1
    <3>2. cache'[g][a].friends \subseteq Avatar
      BY DEF Objects, NotCached
    <3> QED
      BY <2>1, <3>1, <3>2 DEF FriendsStored
  <2>2. CASE b # a /\ h = g
    <3>1. cache'[g][b] # NotCached /\ writers[b] \subseteq {g}
      BY <1>1, <2>2 DEF Cached
    <3>2. cache'[g][b].friends = FriendsStored(b)
      BY <1>7, <2>2, <3>1 DEF IInv, InSync, Cached
    <3> QED
      BY <1>3, <2>2, <3>2
  <2>3. CASE b # a /\ h # g
    BY <1>1, <1>3, <2>3 DEF IInv, InSync, Cached
  <2> QED
    BY <2>1, <2>2, <2>3
<1> QED
  BY <1>5, <1>6, <1>8, <1>9, <1>10 DEF IInv

\* A friend is added on one gateway.
LEMMA AddFriendStep ==
    ASSUME IInv, NEW g \in Gateway, NEW a \in Avatar, NEW b \in Avatar, AddFriend(g, a, b)
    PROVE  IInv'
<1> DEFINE c == GetAvatar(g, b)
           new == [c[a] EXCEPT !.friends = @ \cup {b}]
<1>1. /\ handler[g] = Idle /\ Cached(g, a) /\ avatarTable[b] # NoRow
      /\ UNCHANGED <<avatarTable, nextId, handler>>
  BY DEF AddFriend
<1>2. /\ c \in [Avatar -> Objects]
      /\ \A d \in Avatar :
            \/ c[d] = cache[g][d]
            \/ avatarTable[d] # NoRow /\ c[d] = LoadStoredAvatar(d)
  BY <1>1, GetAvatarLoads
<1>3. c[a] = cache[g][a]
  BY <1>1 DEF GetAvatar
<1>4. /\ cache[g][a] \in Objects /\ cache[g][a] # NotCached
      /\ cache[g][a].id = avatarTable[a]
  BY <1>1 DEF IInv, TypeOK, OneIdPerAvatar, Cached
<1>5. CASE cache' = [cache EXCEPT ![g] = c] /\ UNCHANGED <<friendTable, writers>>
  <2> HIDE DEF c
  <2>1. \A d \in Avatar :
            \/ c[d] = cache[g][d]
            \/ c[d] = NotCached
            \/ avatarTable[d] # NoRow /\ c[d] = LoadStoredAvatar(d)
    BY <1>2
  <2> QED
    BY <1>1, <1>2, <1>5, <2>1, CacheStep
<1>6. CASE /\ cache' = [cache EXCEPT ![g] = [c EXCEPT ![a].friends = @ \cup {b}]]
           /\ friendTable' = friendTable \cup {<<a, b>>}
           /\ writers' = [writers EXCEPT ![a] = @ \cup {g}]
  <2> HIDE DEF c
  <2>1. /\ new \in Objects /\ new # NotCached
        /\ new.id = avatarTable[a] /\ new.friends = cache[g][a].friends \cup {b}
    BY <1>3, <1>4 DEF Objects, NotCached
  <2>2. cache' = [cache EXCEPT ![g] = [c EXCEPT ![a] = new]]
    BY <1>2, <1>6
  <2>3. writers[a] \subseteq {g} =>
            \A d \in Avatar : d \in new.friends <=> <<a, d>> \in friendTable'
    <3>1. writers[a] \subseteq {g} => cache[g][a].friends = FriendsStored(a)
      BY <1>1 DEF IInv, InSync
    <3> QED
      BY <1>6, <2>1, <3>1 DEF FriendsStored
  <2>4. /\ friendTable' \subseteq Avatar \X Avatar
        /\ \A d, e \in Avatar : d # a => (<<d, e>> \in friendTable' <=> <<d, e>> \in friendTable)
        /\ \A d \in Avatar : <<a, d>> \in friendTable' => avatarTable[d] # NoRow
    BY <1>1, <1>6 DEF IInv, TypeOK, ForeignKeys
  <2> HIDE DEF new
  <2>5. /\ cache' \in [Gateway -> [Avatar -> Objects]]
        /\ cache'[g][a] = new
        /\ \A d \in Avatar : d # a =>
              \/ cache'[g][d] = cache[g][d]
              \/ avatarTable[d] # NoRow /\ cache'[g][d] = LoadStoredAvatar(d)
        /\ \A h \in Gateway, d \in Avatar : h # g => cache'[h][d] = cache[h][d]
    BY <1>2, <2>1, <2>2 DEF IInv, TypeOK
  <2>6. writers' = [writers EXCEPT ![a] = @ \cup {g}]
    BY <1>6
  <2> QED
    BY <1>1, <2>1, <2>3, <2>4, <2>5, <2>6, FriendsStep
<1> QED
  BY <1>5, <1>6 DEF AddFriend

\* A friend is removed on one gateway.
LEMMA RemoveFriendStep ==
    ASSUME IInv, NEW g \in Gateway, NEW a \in Avatar, NEW b \in Avatar, RemoveFriend(g, a, b)
    PROVE  IInv'
<1> DEFINE c == cache[g]
           new == [c[a] EXCEPT !.friends = @ \ {b}]
<1>1. /\ handler[g] = Idle /\ Cached(g, a)
      /\ cache' = [cache EXCEPT ![g][a].friends = @ \ {b}]
      /\ friendTable' = friendTable \ {<<a, b>>}
      /\ writers' = [writers EXCEPT ![a] = @ \cup {g}]
      /\ UNCHANGED <<avatarTable, nextId, handler>>
  BY DEF RemoveFriend
<1>2. /\ c \in [Avatar -> Objects] /\ c[a] # NotCached /\ c[a].id = avatarTable[a]
  BY <1>1 DEF IInv, TypeOK, OneIdPerAvatar, Cached
<1>3. /\ new \in Objects /\ new # NotCached
      /\ new.id = avatarTable[a] /\ new.friends = cache[g][a].friends \ {b}
  BY <1>2 DEF Objects, NotCached, IInv, OneIdPerAvatar, NoRow
<1>4. cache' = [cache EXCEPT ![g] = [c EXCEPT ![a] = new]]
  BY <1>1, <1>2 DEF IInv, TypeOK
<1>5. writers[a] \subseteq {g} =>
          \A d \in Avatar : d \in new.friends <=> <<a, d>> \in friendTable'
  <2>1. writers[a] \subseteq {g} => cache[g][a].friends = FriendsStored(a)
    BY <1>1 DEF IInv, InSync
  <2> QED
    BY <1>1, <1>3, <2>1 DEF FriendsStored
<1>6. /\ friendTable' \subseteq Avatar \X Avatar
      /\ \A d, e \in Avatar : d # a => (<<d, e>> \in friendTable' <=> <<d, e>> \in friendTable)
      /\ \A d \in Avatar : <<a, d>> \in friendTable' => avatarTable[d] # NoRow
  BY <1>1 DEF IInv, TypeOK, ForeignKeys
<1> HIDE DEF new
<1>7. /\ cache' \in [Gateway -> [Avatar -> Objects]]
      /\ cache'[g][a] = new
      /\ \A d \in Avatar : d # a => cache'[g][d] = cache[g][d]
      /\ \A h \in Gateway, d \in Avatar : h # g => cache'[h][d] = cache[h][d]
  BY <1>2, <1>3, <1>4 DEF IInv, TypeOK
<1> QED
  BY <1>1, <1>3, <1>5, <1>6, <1>7, FriendsStep

\* A gateway dies and is started again.
LEMMA RestartStep ==
    ASSUME IInv, NEW g \in Gateway, Restart(g)
    PROVE  IInv'
<1>1. /\ handler'[g] = Idle
      /\ \A h \in Gateway : h # g => handler'[h] = handler[h]
      /\ HandlerOK'
  BY DEF IInv, HandlerOK, Restart
<1>2. /\ cache' \in [Gateway -> [Avatar -> Objects]]
      /\ \A b \in Avatar : cache'[g][b] = NotCached
      /\ \A h \in Gateway, b \in Avatar : h # g => cache'[h][b] = cache[h][b]
      /\ UNCHANGED <<avatarTable, friendTable, nextId, writers>>
  BY DEF IInv, TypeOK, Restart, Objects
<1>3. \A h \in Gateway :
        handler'[h] # Idle =>
            h # g /\ handler'[h] = handler[h] /\ handler[h] # Idle /\ handler[h].avatar \in Avatar
  BY <1>1 DEF IInv, HandlerOK
<1>4. Creating'
  BY <1>2, <1>3 DEF IInv, Creating, Cached
<1>5. TypeOK'
  BY <1>2, <1>4 DEF IInv, TypeOK, Creating
<1>6. ForeignKeys' /\ OneIdPerAvatar' /\ WritersHaveRows' /\ UnchangedIsEmpty' /\ InSync'
  BY <1>2 DEF IInv, ForeignKeys, OneIdPerAvatar, WritersHaveRows, UnchangedIsEmpty, InSync,
              FriendsStored, Cached
<1> QED
  BY <1>1, <1>4, <1>5, <1>6 DEF IInv

-----------------------------------------------------------------------------
\* No step of any gateway breaks the inductive invariant.
LEMMA NextInv == IInv /\ [Next]_vars => IInv'
<1>1. ASSUME IInv, Next
      PROVE  IInv'
  BY <1>1, LoginAvatarStep, LoginNewStep, InsertAvatarStep, LoginCreatedStep, AddFriendStep,
     RemoveFriendStep, RestartStep DEF Next
<1>2. ASSUME IInv, UNCHANGED vars
      PROVE  IInv'
  <2>1. /\ cache' = cache /\ avatarTable' = avatarTable /\ friendTable' = friendTable
        /\ handler' = handler /\ writers' = writers /\ nextId' = nextId
    BY <1>2 DEF vars
  <2>2. TypeOK'
    BY <1>2, <2>1 DEF IInv, TypeOK, Cached
  <2>3. HandlerOK' /\ ForeignKeys' /\ OneIdPerAvatar' /\ WritersHaveRows'
    BY <1>2, <2>1 DEF IInv, HandlerOK, ForeignKeys, OneIdPerAvatar, WritersHaveRows, Cached
  <2>4. Creating'
    BY <1>2, <2>1 DEF IInv, Creating, Cached
  <2>5. UnchangedIsEmpty' /\ InSync'
    BY <1>2, <2>1 DEF IInv, UnchangedIsEmpty, InSync, FriendsStored, Cached
  <2> QED
    BY <2>2, <2>3, <2>4, <2>5 DEF IInv
<1> QED
  BY <1>1, <1>2

\* The invariant holds always.
LEMMA Inductive == Spec => []IInv
  BY InitInv, NextInv, PTL DEF Spec

\* The state of a cluster has its type, and an avatar that is being created on a
\* gateway is not in its cache (CreateAvatar).
THEOREM TypeCorrect == Spec => []TypeOK
  BY Inductive, PTL DEF IInv

\* However many gateways create an avatar at once, all that know it know it by the id
\* of its row (CreateAvatar, GetAvatar).
THEOREM OneId == Spec => []OneIdPerAvatar
  BY Inductive, PTL DEF IInv

\* On the one gateway that has changed the friends of an avatar, memory and database
\* agree about them, through restarts and whatever others load (AddFriend,
\* RemoveFriend, LoadFriendList).
THEOREM InSyncThere == Spec => []InSyncWhereChanged
<1>1. InSync => InSyncWhereChanged
  BY DEF InSync, InSyncWhereChanged
<1> QED
  BY <1>1, Inductive, PTL DEF IInv

-----------------------------------------------------------------------------
(***************************************************************************)
(* AvatarAttributes                                                        *)
(***************************************************************************)
\* What the server takes is stored as a number that fits in an int: the same, or 0.
LEMMA StoredFits ==
    ASSUME Attribute!AttributesConstants, NEW v \in Attribute!Attributes, Attribute!Taken(v)
    PROVE  /\ Attribute!Stored(v) \in Attribute!Attributes /\ Attribute!Stored(v) <= IntMax
           /\ Attribute!Stored(v) # NoAttributes
           /\ Attribute!Stored(v) = v \/ (~strict /\ v > IntMax /\ Attribute!Stored(v) = 0)
  BY DEF Attribute!AttributesConstants, Attribute!Attributes, Attribute!Taken, Attribute!Stored,
         Attribute!AsInt

\* Every step of a gateway keeps the attributes readable and, where promised, the same.
LEMMA AttributesInductive ==
    ASSUME Attribute!AttributesConstants, Attribute!AttributesSound,
           [Attribute!Next]_Attribute!vars
    PROVE  Attribute!AttributesSound'
<1> USE DEF Attribute!AttributesSound, Attribute!TypeOK, Attribute!RowsReadable,
            Attribute!MemoryIsStored
<1>1. CASE UNCHANGED Attribute!vars
  BY <1>1 DEF Attribute!vars
<1>2. CASE Attribute!Next
  <2>1. PICK g \in Gateway :
            \/ Attribute!LoadStoredAvatar(g)
            \/ Attribute!Restart(g)
            \/ \E v \in Attribute!Attributes :
                  \/ Attribute!CreateAvatar(g, v)
                  \/ Attribute!CreateAvatarLost(g, v)
                  \/ \E persistent \in BOOLEAN : Attribute!SetAvatarAttributes(g, v, persistent)
                  \/ Attribute!SetAvatarAttributesFails(g, v)
    BY <1>2 DEF Attribute!Next
  <2>2. CASE Attribute!LoadStoredAvatar(g)
    BY <2>2 DEF Attribute!LoadStoredAvatar
  <2>3. CASE Attribute!Restart(g)
    BY <2>3 DEF Attribute!Restart
  <2>4. ASSUME NEW v \in Attribute!Attributes,
               Attribute!CreateAvatar(g, v) \/ Attribute!CreateAvatarLost(g, v)
        PROVE  Attribute!AttributesSound'
    <3> DEFINE stored == Attribute!Stored(v)
    <3>1. /\ row = NoAttributes /\ row' = stored /\ UNCHANGED <<strict, apart>>
          /\ memory' = [memory EXCEPT ![g] = v] \/ memory' = memory
      BY <2>4 DEF Attribute!CreateAvatar, Attribute!CreateAvatarLost
    <3>2. /\ stored \in Attribute!Attributes /\ stored <= IntMax
          /\ stored = v \/ (~strict /\ v > IntMax /\ stored = 0)
      BY <2>4, StoredFits DEF Attribute!CreateAvatar, Attribute!CreateAvatarLost
    <3> HIDE DEF stored
    <3>3. NoAttributes \notin Attribute!Attributes /\ 0 \in Attribute!Attributes
      BY DEF Attribute!AttributesConstants, Attribute!Attributes
    <3>4. \A h \in Gateway : memory[h] # NoObject => h \in apart
      BY <3>1, <3>3
    <3>5. Attribute!TypeOK' /\ Attribute!RowsReadable'
      BY <3>1, <3>2
    <3>6. Attribute!MemoryIsStored'
      BY <3>1, <3>2, <3>4
    <3> QED BY <3>5, <3>6
  <2>5. ASSUME NEW v \in Attribute!Attributes, NEW persistent \in BOOLEAN,
               Attribute!SetAvatarAttributes(g, v, persistent)
        PROVE  Attribute!AttributesSound'
    <3>1. CASE persistent
      <4>1. memory' = [memory EXCEPT ![g] = v] /\ row' = Attribute!Stored(v)
            /\ apart' = (apart \cup Gateway) \ {g} /\ UNCHANGED strict /\ Attribute!Taken(v)
        BY <2>5, <3>1 DEF Attribute!SetAvatarAttributes
      <4> DEFINE stored == Attribute!Stored(v)
      <4>2. /\ stored \in Attribute!Attributes /\ stored <= IntMax
            /\ stored = v \/ (~strict /\ v > IntMax /\ stored = 0)
        BY <4>1, StoredFits
      <4>3. row' = stored
        BY <4>1
      <4> HIDE DEF stored
      <4>4. Attribute!TypeOK' /\ Attribute!RowsReadable'
        BY <4>1, <4>2, <4>3
      <4>5. Attribute!MemoryIsStored'
        BY <4>1, <4>2, <4>3
      <4> QED BY <4>4, <4>5
    <3>2. CASE ~persistent
      BY <2>5, <3>2 DEF Attribute!SetAvatarAttributes
    <3> QED BY <3>1, <3>2
  <2>6. ASSUME NEW v \in Attribute!Attributes, Attribute!SetAvatarAttributesFails(g, v)
        PROVE  Attribute!AttributesSound'
    <3>1. CASE UNCHANGED row /\ apart' = apart \cup {g}
      BY <2>6, <3>1 DEF Attribute!SetAvatarAttributesFails
    <3>2. CASE Attribute!Taken(v) /\ row' = Attribute!Stored(v) /\ apart' = apart \cup Gateway
      <4>1. memory' = [memory EXCEPT ![g] = v] /\ UNCHANGED strict
        BY <2>6 DEF Attribute!SetAvatarAttributesFails
      <4>2. row' \in Attribute!Attributes /\ row' <= IntMax
        BY <3>2, StoredFits
      <4>3. apart' = Gateway
        BY <3>2
      <4> QED BY <4>1, <4>2, <4>3
    <3> QED BY <2>6, <3>1, <3>2 DEF Attribute!SetAvatarAttributesFails
  <2> QED BY <2>1, <2>2, <2>3, <2>4, <2>5, <2>5, <2>6
<1> QED BY <1>1, <1>2

\* The stored attributes of an avatar can always be read, whatever words a game server
\* sends and however strict the database is, and every gateway has them that
\* nobody has changed behind its back.
THEOREM AttributesAreSound == Attribute!Spec => []AttributesSound
<1>1. Attribute!Init => Attribute!AttributesSound
  BY DEF Attribute!Init, Attribute!AttributesSound, Attribute!TypeOK, Attribute!RowsReadable,
         Attribute!MemoryIsStored
<1>2. Attribute!AttributesSound /\ [Attribute!Next]_Attribute!vars => Attribute!AttributesSound'
  BY AttributesInductive, SharedTablesAssumption
<1> QED BY <1>1, <1>2, PTL DEF Attribute!Spec, AttributesSound

-----------------------------------------------------------------------------
(***************************************************************************)
(* WebsiteStatus                                                           *)
(***************************************************************************)
\* Statements are sent while the gateway runs; when the status of somebody who comes is
\* next, the link has been made; rows that are not there say nothing.
Pending ==
    /\ at # "idle" => info # Stopped
    /\ at = "status" /\ online /\ userId # 0 => rows["link"] # NoWebRow
    /\ rows["status"] = NoWebRow => lastIn = 0 /\ lastOut = 0
    /\ DOMAIN rows = {"link", "status"}

WebsiteInv ==
    /\ Website!TypeOK /\ Website!TimesKept /\ Website!LinkedWhenShown
    /\ Website!RefusalsExplained /\ Pending

\* What the constants say of numbers.
LEMMA Numbers ==
    ASSUME Website!WebsiteConstants
    PROVE  /\ IntMax \in Nat /\ MaxClock \in Nat /\ 1 <= MaxClock /\ MaxClock <= 2 * IntMax + 1
           /\ Null \notin Int /\ Stopped \notin Schemas
  BY DEF Website!WebsiteConstants

\* A value that is bound is not NULL.
LEMMA ValuesAreValues ==
    ASSUME Website!WebsiteConstants, NEW v \in Int
    PROVE  /\ [as |-> "datetime", value |-> v] # Null
           /\ [as |-> "int", value |-> v] # Null
<1>1. /\ [as |-> "datetime", value |-> v] \in [as : {"datetime", "int"}, value : Int]
      /\ [as |-> "int", value |-> v] \in [as : {"datetime", "int"}, value : Int]
  OBVIOUS
<1>2. Null \notin [as : {"datetime", "int"}, value : Int]
  BY DEF Website!WebsiteConstants
<1> QED BY <1>1, <1>2

\* What the types say of the columns, as they are and as they were seen.
LEMMA ColumnsTyped ==
    ASSUME Website!WebsiteConstants, Website!TypeOK,
           NEW t \in Website!Table, NEW c \in Website!Column
    PROVE  /\ columns[t][c] \in Website!Type
           /\ info # Stopped => info[t][c] \in Website!Type
<1>1. Schemas \subseteq [Website!Table -> [Website!Column -> Website!Type]]
  BY DEF Website!WebsiteConstants
<1>2. columns \in Schemas /\ info \in Schemas \cup {Stopped}
  BY DEF Website!TypeOK
<1>3. ASSUME NEW s \in Schemas PROVE s[t][c] \in Website!Type
  BY <1>1
<1> QED BY <1>2, <1>3

\* What is bound for a column that the server takes is a time the column can hold: the
\* time it is meant for, or none.
LEMMA TakenFits ==
    ASSUME Website!WebsiteConstants, Website!TypeOK, info # Stopped,
           NEW t \in Website!Table, NEW c \in Website!Column,
           Website!Takes(columns[t][c], Website!Bound(t, c))
    PROVE  /\ Website!Holds(columns[t][c], Website!Stored(Website!Bound(t, c)))
           /\ columns[t][c] # "absent"
           /\ Website!Stored(Website!Bound(t, c)) \in
                 (IF info[t][c] = "absent" \/ Website!TimeFor(c) = 0 THEN {0, Null}
                  ELSE {Website!TimeFor(c)})
<1> DEFINE time == Website!TimeFor(c)
           type == info[t][c]
           column == columns[t][c]
           value == Website!Bound(t, c)
<1>1. time \in Int /\ 0 <= time /\ time <= MaxClock
  <2>1. clock \in 1..MaxClock
    BY DEF Website!TypeOK
  <2> QED BY <2>1, Numbers DEF Website!TimeFor
<1>2. type \in {"absent", "int", "datetime"} /\ column \in {"absent", "int", "datetime"}
  BY ColumnsTyped DEF Website!Type
<1>3. value = Website!BindTimestampParameter(type, time)
  BY DEF Website!Bound
<1>4. Website!Takes(column, value)
  OBVIOUS
<1> SUFFICES /\ Website!Holds(column, Website!Stored(value)) /\ column # "absent"
             /\ Website!Stored(value) \in (IF type = "absent" \/ time = 0 THEN {0, Null} ELSE {time})
  OBVIOUS
<1> HIDE DEF time, type, column, value
<1>5. CASE type = "absent" \/ (type = "datetime" /\ time = 0)
  <2>1. value = Null
    BY <1>3, <1>5 DEF Website!BindTimestampParameter
  <2> QED BY <1>2, <1>4, <1>5, <2>1 DEF Website!Takes, Website!Stored, Website!Holds
<1>6. CASE type = "datetime" /\ time # 0
  <2>1. value = [as |-> "datetime", value |-> time]
    BY <1>3, <1>6 DEF Website!BindTimestampParameter
  <2>2. value # Null
    BY <2>1, <1>1, ValuesAreValues
  <2>3. column = "datetime"
    BY <1>2, <1>4, <2>1 DEF Website!Takes
  <2>4. Website!Stored(value) = time
    BY <2>1, <2>2 DEF Website!Stored
  <2>5. time \in 1..MaxClock
    BY <1>1, <1>6, Numbers
  <2> QED BY <1>6, <2>3, <2>4, <2>5 DEF Website!Holds
<1>7. CASE type = "int"
  <2>1. value = [as |-> "int", value |-> Website!AsInt(time)]
    BY <1>3, <1>7 DEF Website!BindTimestampParameter
  <2>2. /\ Website!AsInt(time) \in Int
        /\ Website!AsInt(time) >= 0 => Website!AsInt(time) = time /\ time <= IntMax
    BY <1>1, Numbers DEF Website!AsInt
  <2>3. value # Null
    BY <2>1, <2>2, ValuesAreValues
  <2>4. column = "int" /\ value.value >= 0
    BY <1>2, <1>4, <2>1, <2>3 DEF Website!Takes
  <2>5. Website!Stored(value) = time
    BY <2>1, <2>2, <2>3, <2>4 DEF Website!Stored
  <2>6. time \in 0..IntMax
    BY <1>1, <2>1, <2>2, <2>4, Numbers
  <2> QED BY <1>7, <2>4, <2>5, <2>6 DEF Website!Holds
<1> QED BY <1>2, <1>5, <1>6, <1>7

\* What a column can hold is a number or NULL.
LEMMA HeldIsValue ==
    ASSUME Website!WebsiteConstants, NEW type \in Website!Type, NEW v, Website!Holds(type, v)
    PROVE  v \in Int \cup {Null}
<1>1. type \in {"absent", "int", "datetime"}
  BY DEF Website!Type
<1>2. v = Null \/ v \in 0..IntMax \/ v \in 1..MaxClock
  BY <1>1 DEF Website!Holds
<1> QED BY <1>2

\* What a new row has in a column that the statement does not name.
LEMMA DefaultFits ==
    ASSUME Website!WebsiteConstants, NEW type \in Website!Type
    PROVE  Website!Holds(type, Website!Default(type))
<1>1. type \in {"absent", "int", "datetime"} /\ 0 \in 0..IntMax
  BY Numbers DEF Website!Type
<1> QED BY <1>1 DEF Website!Holds, Website!Default

\* A statement that the server takes leaves a row that the columns can hold.
LEMMA UpsertedFits ==
    ASSUME Website!WebsiteConstants, Website!TypeOK, info # Stopped,
           NEW t \in {"link", "status"}, Website!Accepted(t)
    PROVE  /\ \A c \in Website!Column : Website!Holds(columns[t][c], Website!Upserted(t)[c])
           /\ Website!Upserted(t) # NoWebRow
<1>0. t \in Website!Table
  BY DEF Website!Table
<1>1. ASSUME NEW c \in Website!Column
      PROVE  Website!Holds(columns[t][c], Website!Upserted(t)[c])
  <2> DEFINE now == Website!Stored(Website!Bound(t, c))
             merged == Website!Merged(rows[t][c], c, now)
             default == Website!Default(columns[t][c])
  <2>1. columns[t][c] \in Website!Type
    BY <1>0, ColumnsTyped
  <2>2. rows[t] # NoWebRow => Website!Holds(columns[t][c], rows[t][c])
    BY DEF Website!TypeOK
  <2>3. Website!Holds(columns[t][c], default)
    BY <2>1, DefaultFits
  <2>4. c \in Website!Named(t) => Website!Holds(columns[t][c], now)
    BY <1>0, TakenFits DEF Website!Accepted
  <2>5. merged \in {rows[t][c], now}
    BY DEF Website!Merged
  <2>6. Website!Upserted(t)[c] =
          IF c \notin Website!Named(t)
          THEN IF rows[t] = NoWebRow THEN default ELSE rows[t][c]
          ELSE IF rows[t] = NoWebRow THEN now ELSE merged
    BY DEF Website!Upserted
  <2> HIDE DEF now, merged, default
  <2> QED BY <2>2, <2>3, <2>4, <2>5, <2>6
<1>2. \A c \in Website!Column : Website!Upserted(t)[c] \in Int \cup {Null}
  BY <1>0, <1>1, ColumnsTyped, HeldIsValue
<1>3. Website!Upserted(t) \in [Website!Column -> Int \cup {Null}]
  BY <1>2 DEF Website!Upserted
<1>4. NoWebRow \notin [Website!Column -> Int \cup {Null}]
  BY DEF Website!WebsiteConstants
<1> QED BY <1>1, <1>3, <1>4

\* What a statement leaves in a column: what was there, or what it is meant for; the time
\* of creation stays once it is known.
LEMMA UpsertedSays ==
    ASSUME Website!WebsiteConstants, Website!TypeOK, info # Stopped,
           NEW t \in {"link", "status"}, Website!Accepted(t), NEW c \in Website!Required[t]
    PROVE  /\ info[t][c] # "absent" /\ Website!TimeFor(c) # 0 =>
                  Website!Upserted(t)[c] = Website!TimeFor(c)
           /\ info[t][c] = "absent" \/ Website!TimeFor(c) = 0 =>
                  \/ rows[t] = NoWebRow /\ Website!Upserted(t)[c] \in {0, Null}
                  \/ rows[t] # NoWebRow /\ Website!Upserted(t)[c] = rows[t][c]
<1> DEFINE now == Website!Stored(Website!Bound(t, c))
<1>1. c \in {"last_login", "last_logout"} /\ t \in Website!Table /\ c \in Website!Column
  BY DEF Website!Required, Website!Table, Website!Column
<1>2. c \in Website!Named(t)
  BY DEF Website!Named
<1>3. now \in (IF info[t][c] = "absent" \/ Website!TimeFor(c) = 0 THEN {0, Null}
               ELSE {Website!TimeFor(c)})
  BY <1>1, <1>2, TakenFits DEF Website!Accepted
<1>4. Website!Upserted(t)[c] =
        IF rows[t] = NoWebRow THEN now ELSE Website!Merged(rows[t][c], c, now)
  BY <1>1, <1>2 DEF Website!Upserted
<1>5. Website!Merged(rows[t][c], c, now) = IF now \in {Null, 0} THEN rows[t][c] ELSE now
  BY <1>1 DEF Website!Merged
<1>6. Website!TimeFor(c) # Null
  <2>1. clock \in 1..MaxClock
    BY DEF Website!TypeOK
  <2> QED BY <2>1, Numbers DEF Website!TimeFor
<1> HIDE DEF now
<1> QED BY <1>3, <1>4, <1>5, <1>6

-----------------------------------------------------------------------------
\* The columns of the status that a statement names in any case.
LEMMA RequiredColumns == Website!Required["status"] = {"last_login", "last_logout"}
<1>1. "status" \in Website!Table
  BY DEF Website!Table
<1> QED BY <1>1 DEF Website!Required

\* A step that leaves the tables, the columns and what the histories say.
LEMMA Unwritten ==
    ASSUME WebsiteInv, UNCHANGED <<columns, userId, rows, lastIn, lastOut>>,
           info' \in Schemas \cup {Stopped},
           at' \in {"idle", "link of status", "link of mail", "status", "mail"},
           at' # "idle" => info' # Stopped,
           at' = "status" /\ online' /\ userId # 0 => rows["link"] # NoWebRow,
           online' \in BOOLEAN, clock' \in 1..MaxClock,
           answer' \in {"none", "done", "refused", "failed"}, Website!RefusalsExplained'
    PROVE  WebsiteInv'
<1>1. Website!TypeOK'
  BY DEF WebsiteInv, Website!TypeOK
<1>2. Website!TimesKept'
  BY DEF WebsiteInv, Website!TimesKept
<1>3. Website!LinkedWhenShown'
  BY DEF WebsiteInv, Website!LinkedWhenShown
<1>4. Pending'
  BY DEF WebsiteInv, Pending
<1> QED BY <1>1, <1>2, <1>3, <1>4 DEF WebsiteInv

\* The gateway starts, dies, is asked, or time passes.
LEMMA AskedInv ==
    ASSUME Website!WebsiteConstants, WebsiteInv,
           \/ Website!Start \/ Website!Crash \/ Website!TimePasses \/ Website!Fails
           \/ Website!RecordAvatarLogin \/ Website!RecordAvatarLogout
           \/ Website!RecordPersistentMessage
    PROVE  WebsiteInv'
<1> USE DEF Website!Unwritten
<1>0. /\ columns \in Schemas /\ info \in Schemas \cup {Stopped} /\ userId \in {0, 1}
      /\ at \in {"idle", "link of status", "link of mail", "status", "mail"}
      /\ online \in BOOLEAN /\ clock \in 1..MaxClock
      /\ Stopped \notin Schemas /\ MaxClock \in Nat
      /\ at # "idle" => info # Stopped
      /\ at = "status" /\ online /\ userId # 0 => rows["link"] # NoWebRow
  BY Numbers DEF WebsiteInv, Website!TypeOK, Pending
<1>1. CASE Website!Start
  <2>1. answer' = "none"
    BY <1>1 DEF Website!Start
  <2>2. at = "idle"
    BY <1>0, <1>1 DEF Website!Start
  <2>3. Website!RefusalsExplained'
    BY <2>1 DEF Website!RefusalsExplained
  <2> QED BY <1>0, <1>1, <2>1, <2>2, <2>3, Unwritten DEF Website!Start
<1>2. CASE Website!Crash
  <2>1. Website!RefusalsExplained'
    BY <1>2 DEF Website!RefusalsExplained, Website!Crash
  <2> QED BY <1>0, <1>2, <2>1, Unwritten DEF Website!Crash
<1>3. CASE Website!TimePasses
  <2>1. Website!RefusalsExplained'
    BY <1>3 DEF Website!RefusalsExplained, Website!TimePasses
  <2>2. clock' \in 1..MaxClock
    BY <1>0, <1>3 DEF Website!TimePasses
  <2> QED BY <1>0, <1>3, <2>1, <2>2, Unwritten DEF Website!TimePasses
<1>4. CASE Website!Fails
  <2>1. Website!RefusalsExplained'
    BY <1>4 DEF Website!RefusalsExplained, Website!Fails
  <2> QED BY <1>0, <1>4, <2>1, Unwritten DEF Website!Fails
<1>5. CASE Website!RecordAvatarLogin
  <2>1. Website!RefusalsExplained'
    BY <1>5 DEF Website!RefusalsExplained, Website!RecordAvatarLogin
  <2> QED BY <1>0, <1>5, <2>1, Unwritten DEF Website!RecordAvatarLogin
<1>6. CASE Website!RecordAvatarLogout
  <2>1. Website!RefusalsExplained'
    BY <1>6 DEF Website!RefusalsExplained, Website!RecordAvatarLogout
  <2> QED BY <1>0, <1>6, <2>1, Unwritten DEF Website!RecordAvatarLogout
<1>7. CASE Website!RecordPersistentMessage
  <2>1. Website!RefusalsExplained'
    BY <1>7 DEF Website!RefusalsExplained, Website!RecordPersistentMessage
  <2> QED BY <1>0, <1>7, <2>1, Unwritten DEF Website!RecordPersistentMessage
<1> QED BY <1>1, <1>2, <1>3, <1>4, <1>5, <1>6, <1>7

\* Columns come and go, and with them what they hold.
LEMMA MigrateInv ==
    ASSUME Website!WebsiteConstants, WebsiteInv, Website!Migrate
    PROVE  WebsiteInv'
<1> DEFINE same(t, c) == columns'[t][c] = columns[t][c]
           kept(t) == [c \in Website!Column |->
                         IF same(t, c) THEN rows[t][c] ELSE Website!Default(columns'[t][c])]
<1>1. /\ columns' \in Schemas /\ answer' = "none"
      /\ UNCHANGED <<info, userId, at, online, clock>>
      /\ rows' = [t \in {"link", "status"} |-> IF rows[t] = NoWebRow THEN NoWebRow ELSE kept(t)]
      /\ lastIn' = IF same("status", "last_login") THEN lastIn ELSE 0
      /\ lastOut' = IF same("status", "last_logout") THEN lastOut ELSE 0
  BY DEF Website!Migrate
<1>2. /\ lastIn \in 0..MaxClock /\ lastOut \in 0..MaxClock
      /\ lastIn' \in {lastIn, 0} /\ lastOut' \in {lastOut, 0}
  BY <1>1 DEF WebsiteInv, Website!TypeOK
<1>3. ASSUME NEW t \in {"link", "status"}, NEW c \in Website!Column, rows[t] # NoWebRow
      PROVE  /\ Website!Holds(columns'[t][c], kept(t)[c])
             /\ kept(t)[c] \in Int \cup {Null}
             /\ kept(t)[c] = IF same(t, c) THEN rows[t][c] ELSE Website!Default(columns'[t][c])
  <2>1. kept(t)[c] = IF same(t, c) THEN rows[t][c] ELSE Website!Default(columns'[t][c])
    OBVIOUS
  <2>2. Website!Holds(columns[t][c], rows[t][c])
    BY <1>3 DEF WebsiteInv, Website!TypeOK
  <2>3. columns'[t][c] \in Website!Type
    <3>1. Schemas \subseteq [Website!Table -> [Website!Column -> Website!Type]]
      BY DEF Website!WebsiteConstants
    <3> QED BY <1>1, <3>1 DEF Website!Table
  <2>4. Website!Holds(columns'[t][c], Website!Default(columns'[t][c]))
    BY <2>3, DefaultFits
  <2>5. Website!Holds(columns'[t][c], kept(t)[c])
    BY <2>1, <2>2, <2>4
  <2> QED BY <2>1, <2>3, <2>5, HeldIsValue
<1>4. ASSUME NEW t \in {"link", "status"}, rows[t] # NoWebRow PROVE rows'[t] # NoWebRow
  <2>1. kept(t) \in [Website!Column -> Int \cup {Null}]
    BY <1>3, <1>4
  <2>2. NoWebRow \notin [Website!Column -> Int \cup {Null}]
    BY DEF Website!WebsiteConstants
  <2> QED BY <1>1, <1>4, <2>1, <2>2
<1>5. \A t \in {"link", "status"} :
         IF rows[t] = NoWebRow THEN rows'[t] = NoWebRow ELSE rows'[t] = kept(t)
  BY <1>1
<1> HIDE DEF kept
<1>6. Website!TypeOK'
  <2>1. \A t \in {"link", "status"} :
           rows'[t] # NoWebRow =>
              \A c \in Website!Column : Website!Holds(columns'[t][c], rows'[t][c])
    BY <1>3, <1>5
  <2>2. lastIn' \in 0..MaxClock /\ lastOut' \in 0..MaxClock
    BY <1>2, Numbers
  <2>3. /\ info \in Schemas \cup {Stopped} /\ userId \in {0, 1}
        /\ at \in {"idle", "link of status", "link of mail", "status", "mail"}
        /\ online \in BOOLEAN /\ clock \in 1..MaxClock
    BY DEF WebsiteInv, Website!TypeOK
  <2> QED BY <1>1, <2>1, <2>2, <2>3 DEF Website!TypeOK
<1>7. Website!TimesKept'
  <2> SUFFICES ASSUME rows'["status"] # NoWebRow, NEW c \in {"last_login", "last_logout"}
               PROVE  rows'["status"][c] \in
                         (LET last == IF c = "last_login" THEN lastIn' ELSE lastOut'
                          IN  IF last = 0 THEN {0, Null} ELSE {last})
    BY RequiredColumns DEF Website!TimesKept
  <2>1. c \in Website!Column /\ rows["status"] # NoWebRow
    BY <1>5 DEF Website!Column
  <2>2. rows'["status"][c] = IF same("status", c) THEN rows["status"][c]
                             ELSE Website!Default(columns'["status"][c])
    BY <1>3, <1>5, <2>1
  <2>3. rows["status"][c] \in
           (LET last == IF c = "last_login" THEN lastIn ELSE lastOut
            IN  IF last = 0 THEN {0, Null} ELSE {last})
    BY <2>1, RequiredColumns DEF WebsiteInv, Website!TimesKept
  <2>4. Website!Default(columns'["status"][c]) \in {0, Null}
    BY DEF Website!Default
  <2> QED BY <1>1, <2>2, <2>3, <2>4
<1>8. Website!LinkedWhenShown' /\ Website!RefusalsExplained'
  BY <1>1, <1>2, <1>4 DEF WebsiteInv, Website!LinkedWhenShown, Website!RefusalsExplained
<1>9. Pending'
  BY <1>1, <1>2, <1>4, <1>5 DEF WebsiteInv, Pending
<1> QED BY <1>6, <1>7, <1>8, <1>9 DEF WebsiteInv

\* The link is made, or its dates renewed.
LEMMA LinkInv ==
    ASSUME Website!WebsiteConstants, WebsiteInv, NEW next \in {"status", "mail"},
           Website!EnsureUserLink(next)
    PROVE  WebsiteInv'
<1>1. /\ at \in {"link of status", "link of mail"} /\ Website!Accepted("link")
      /\ rows' = [rows EXCEPT !["link"] = Website!Upserted("link")] /\ at' = next
      /\ UNCHANGED <<columns, info, userId, online, clock, answer, lastIn, lastOut>>
  BY DEF Website!EnsureUserLink
<1>2. info # Stopped /\ DOMAIN rows = {"link", "status"}
  BY <1>1 DEF WebsiteInv, Pending
<1>3. /\ \A c \in Website!Column : Website!Holds(columns["link"][c], Website!Upserted("link")[c])
      /\ Website!Upserted("link") # NoWebRow
  BY <1>1, <1>2, UpsertedFits DEF WebsiteInv
<1>4. /\ rows'["link"] = Website!Upserted("link") /\ rows'["status"] = rows["status"]
      /\ DOMAIN rows' = {"link", "status"}
  BY <1>1, <1>2
<1>5. Website!TypeOK'
  <2>1. \A t \in {"link", "status"} :
           rows'[t] # NoWebRow =>
              \A c \in Website!Column : Website!Holds(columns'[t][c], rows'[t][c])
    BY <1>1, <1>3, <1>4 DEF WebsiteInv, Website!TypeOK
  <2> QED BY <1>1, <2>1 DEF WebsiteInv, Website!TypeOK
<1>6. Website!TimesKept'
  BY <1>1, <1>4 DEF WebsiteInv, Website!TimesKept
<1>7. Website!LinkedWhenShown' /\ Website!RefusalsExplained'
  BY <1>1, <1>3, <1>4 DEF WebsiteInv, Website!LinkedWhenShown, Website!RefusalsExplained
<1>8. Pending'
  BY <1>1, <1>2, <1>3, <1>4 DEF WebsiteInv, Pending
<1> QED BY <1>5, <1>6, <1>7, <1>8 DEF WebsiteInv

\* The status is written.
LEMMA StatusInv ==
    ASSUME Website!WebsiteConstants, WebsiteInv, Website!UpdateOnlineStatus
    PROVE  WebsiteInv'
<1>1. /\ at = "status" /\ Website!Accepted("status")
      /\ rows' = [rows EXCEPT !["status"] = Website!Upserted("status")]
      /\ lastIn' = IF online /\ Website!Knows("last_login") THEN clock ELSE lastIn
      /\ lastOut' = IF ~online /\ Website!Knows("last_logout") THEN clock ELSE lastOut
      /\ at' = "idle" /\ answer' = "done"
      /\ UNCHANGED <<columns, info, userId, online, clock>>
  BY DEF Website!UpdateOnlineStatus
<1>2. info # Stopped /\ DOMAIN rows = {"link", "status"}
  BY <1>1 DEF WebsiteInv, Pending
<1>3. /\ \A c \in Website!Column :
            Website!Holds(columns["status"][c], Website!Upserted("status")[c])
      /\ Website!Upserted("status") # NoWebRow
  BY <1>1, <1>2, UpsertedFits DEF WebsiteInv
<1>4. /\ rows'["status"] = Website!Upserted("status") /\ rows'["link"] = rows["link"]
      /\ DOMAIN rows' = {"link", "status"}
  BY <1>1, <1>2
<1>5. clock \in 1..MaxClock /\ clock # 0 /\ lastIn \in 0..MaxClock /\ lastOut \in 0..MaxClock
  <2>1. clock \in 1..MaxClock /\ lastIn \in 0..MaxClock /\ lastOut \in 0..MaxClock
    BY DEF WebsiteInv, Website!TypeOK
  <2> QED BY <2>1, Numbers
<1>6. Website!TypeOK'
  <2>1. \A t \in {"link", "status"} :
           rows'[t] # NoWebRow =>
              \A c \in Website!Column : Website!Holds(columns'[t][c], rows'[t][c])
    BY <1>1, <1>3, <1>4 DEF WebsiteInv, Website!TypeOK
  <2>2. lastIn' \in 0..MaxClock /\ lastOut' \in 0..MaxClock
    BY <1>1, <1>5, Numbers
  <2> QED BY <1>1, <2>1, <2>2 DEF WebsiteInv, Website!TypeOK
<1>7. Website!TimesKept'
  <2> SUFFICES ASSUME NEW c \in {"last_login", "last_logout"}
               PROVE  rows'["status"][c] \in
                         (LET last == IF c = "last_login" THEN lastIn' ELSE lastOut'
                          IN  IF last = 0 THEN {0, Null} ELSE {last})
    BY RequiredColumns DEF Website!TimesKept
  <2> DEFINE last == IF c = "last_login" THEN lastIn ELSE lastOut
             time == Website!TimeFor(c)
             knows == info["status"][c] # "absent"
  <2>1. /\ knows /\ time # 0 => Website!Upserted("status")[c] = time
        /\ ~knows \/ time = 0 =>
              \/ rows["status"] = NoWebRow /\ Website!Upserted("status")[c] \in {0, Null}
              \/ rows["status"] # NoWebRow /\ Website!Upserted("status")[c] = rows["status"][c]
    BY <1>1, <1>2, RequiredColumns, UpsertedSays DEF WebsiteInv
  <2>2. rows["status"] # NoWebRow =>
           rows["status"][c] \in (IF last = 0 THEN {0, Null} ELSE {last})
    BY RequiredColumns DEF WebsiteInv, Website!TimesKept
  <2>3. rows["status"] = NoWebRow => last = 0
    BY DEF WebsiteInv, Pending
  <2>4. /\ knows /\ time # 0 => time = clock
        /\ (IF c = "last_login" THEN lastIn' ELSE lastOut')
              = IF knows /\ time # 0 THEN time ELSE last
    BY <1>1, <1>5 DEF Website!TimeFor, Website!Knows
  <2>5. rows'["status"][c] = Website!Upserted("status")[c]
    BY <1>4
  <2> HIDE DEF last, time, knows
  <2> QED BY <2>1, <2>2, <2>3, <2>4, <2>5
<1>8. Website!LinkedWhenShown'
  <2>1. lastIn' # lastIn => online
    BY <1>1
  <2> QED BY <1>1, <1>4, <2>1 DEF WebsiteInv, Website!LinkedWhenShown, Pending
<1>9. Website!RefusalsExplained'
  BY <1>1 DEF Website!RefusalsExplained
<1>10. Pending'
  BY <1>1, <1>3, <1>4 DEF Pending
<1> QED BY <1>6, <1>7, <1>8, <1>9, <1>10 DEF WebsiteInv

\* A message is copied.
LEMMA CopyInv ==
    ASSUME Website!WebsiteConstants, WebsiteInv, Website!CopyMail
    PROVE  WebsiteInv'
<1>1. Website!RefusalsExplained'
  BY DEF Website!RefusalsExplained, Website!CopyMail
<1>2. /\ info \in Schemas \cup {Stopped} /\ online \in BOOLEAN /\ clock \in 1..MaxClock
  BY DEF WebsiteInv, Website!TypeOK
<1> QED BY <1>1, <1>2, Unwritten DEF Website!CopyMail, Website!Unwritten

\* The columns that a statement names are dealt with, if they are what the gateway saw
\* and no time has outgrown int.
LEMMA TakenUnless ==
    ASSUME Website!WebsiteConstants, Website!TypeOK, info = columns,
           NEW t \in Website!Table, NEW c \in Website!Column, columns[t][c] # "absent",
           clock <= IntMax \/ columns[t][c] # "int"
    PROVE  Website!Takes(columns[t][c], Website!Bound(t, c))
<1> DEFINE time == Website!TimeFor(c)
           type == columns[t][c]
           value == Website!Bound(t, c)
<1>1. time \in {0, clock} /\ clock \in 1..MaxClock
  BY DEF Website!TimeFor, Website!TypeOK
<1>2. type \in {"int", "datetime"}
  BY ColumnsTyped DEF Website!Type
<1>3. value = Website!BindTimestampParameter(type, time)
  BY DEF Website!Bound
<1>4. clock <= IntMax \/ type # "int"
  OBVIOUS
<1> SUFFICES Website!Takes(type, value)
  OBVIOUS
<1> HIDE DEF time, type, value
<1>5. CASE type = "datetime"
  <2>1. value = Null \/ value = [as |-> "datetime", value |-> time]
    BY <1>3, <1>5 DEF Website!BindTimestampParameter
  <2> QED BY <1>5, <2>1 DEF Website!Takes
<1>6. CASE type = "int"
  <2>1. time \in Int /\ time <= IntMax /\ 0 <= time
    BY <1>1, <1>4, <1>6, Numbers
  <2>2. value = [as |-> "int", value |-> time]
    BY <1>3, <1>6, <2>1 DEF Website!BindTimestampParameter, Website!AsInt
  <2>3. value # Null
    BY <2>1, <2>2, ValuesAreValues
  <2> QED BY <1>6, <2>1, <2>2, <2>3 DEF Website!Takes
<1> QED BY <1>2, <1>5, <1>6

\* The server refuses a statement.
LEMMA RefusedInv ==
    ASSUME Website!WebsiteConstants, WebsiteInv, Website!Refused
    PROVE  WebsiteInv'
<1>1. PICK t \in Website!Table : ~Website!Accepted(t)
  BY DEF Website!Refused, Website!Table
<1>2. PICK c \in Website!Named(t) : ~Website!Takes(columns[t][c], Website!Bound(t, c))
  BY <1>1 DEF Website!Accepted
<1>3. /\ UNCHANGED <<columns, info, userId, online, clock, rows, lastIn, lastOut>>
      /\ at' = "idle" /\ answer' = "refused"
  BY DEF Website!Refused, Website!Unwritten
<1>4. c \in Website!Column
  BY <1>1, <1>2 DEF Website!Named, Website!Required, Website!Column
<1>5. c \in Website!Required[t] \/ info[t][c] # "absent"
  BY <1>2 DEF Website!Named
<1>6. \/ \E s \in Website!Table : \E d \in Website!Required[s] : info[s][d] = "absent"
      \/ info # columns
      \/ clock > IntMax /\ \E s \in Website!Table, d \in Website!Column : info[s][d] = "int"
  <2> SUFFICES ASSUME info = columns, info[t][c] # "absent"
               PROVE  clock > IntMax /\ info[t][c] = "int"
    BY <1>4, <1>5
  <2>1. ~(clock <= IntMax \/ columns[t][c] # "int")
    BY <1>2, <1>4, TakenUnless DEF WebsiteInv
  <2>2. clock \in 1..MaxClock
    BY DEF WebsiteInv, Website!TypeOK
  <2> QED BY <2>1, <2>2, Numbers
<1>7. Website!RefusalsExplained'
  BY <1>3, <1>6 DEF Website!RefusalsExplained
<1>8. /\ info \in Schemas \cup {Stopped} /\ online \in BOOLEAN /\ clock \in 1..MaxClock
  BY DEF WebsiteInv, Website!TypeOK
<1> QED BY <1>3, <1>7, <1>8, Unwritten

\* Every step keeps the invariant.
LEMMA WebsiteInductive ==
    ASSUME Website!WebsiteConstants, WebsiteInv, [Website!Next]_Website!vars
    PROVE  WebsiteInv'
<1>1. CASE UNCHANGED Website!vars
  <2>1. UNCHANGED <<columns, info, userId, rows, at, online, clock, answer, lastIn, lastOut>>
    BY <1>1 DEF Website!vars
  <2>2. Website!TypeOK' /\ Website!TimesKept'
    BY <2>1 DEF WebsiteInv, Website!TypeOK, Website!TimesKept
  <2>3. Website!LinkedWhenShown' /\ Website!RefusalsExplained' /\ Pending'
    BY <2>1 DEF WebsiteInv, Website!LinkedWhenShown, Website!RefusalsExplained, Pending
  <2> QED BY <2>2, <2>3 DEF WebsiteInv
<1>2. CASE Website!Next
  BY <1>2, AskedInv, MigrateInv, LinkInv, StatusInv, CopyInv, RefusedInv DEF Website!Next
<1> QED BY <1>1, <1>2

\* Every step leaves the time at which a row was created, once it is known.
LEMMA CreationStays ==
    ASSUME WebsiteInv, [Website!Next]_Website!vars, NEW t \in {"link", "status"},
           rows[t] # NoWebRow, columns'[t]["created_at"] = columns[t]["created_at"]
    PROVE  rows[t]["created_at"] \in {Null, rows'[t]["created_at"]}
<1>0. "created_at" \in Website!Column /\ DOMAIN rows = {"link", "status"}
  BY DEF Website!Column, WebsiteInv, Pending
<1>1. CASE rows' = rows
  BY <1>1
<1>2. CASE Website!Migrate
  <2>1. rows'[t] = [c \in Website!Column |->
                      IF columns'[t][c] = columns[t][c] THEN rows[t][c]
                      ELSE Website!Default(columns'[t][c])]
    BY <1>2 DEF Website!Migrate
  <2> QED BY <1>0, <2>1
<1>3. CASE rows' = [rows EXCEPT ![t] = Website!Upserted(t)]
  <2> DEFINE now == Website!Stored(Website!Bound(t, "created_at"))
             merged == Website!Merged(rows[t]["created_at"], "created_at", now)
  <2>1. rows'[t]["created_at"] =
           IF "created_at" \notin Website!Named(t) THEN rows[t]["created_at"] ELSE merged
    BY <1>0, <1>3 DEF Website!Upserted
  <2>2. merged = IF rows[t]["created_at"] = Null THEN now ELSE rows[t]["created_at"]
    BY DEF Website!Merged
  <2> HIDE DEF now, merged
  <2> QED BY <2>1, <2>2
<1>4. CASE \E s \in {"link", "status"} \ {t} : rows' = [rows EXCEPT ![s] = Website!Upserted(s)]
  <2>1. rows'[t] = rows[t]
    BY <1>0, <1>4
  <2> QED BY <2>1
<1>5. \/ rows' = rows \/ Website!Migrate
      \/ \E s \in {"link", "status"} : rows' = [rows EXCEPT ![s] = Website!Upserted(s)]
  <2>1. CASE UNCHANGED Website!vars
    BY <2>1 DEF Website!vars
  <2>2. CASE Website!Next
    BY <2>2 DEF Website!Next, Website!Unwritten, Website!Start, Website!Crash, Website!TimePasses,
       Website!Fails, Website!RecordAvatarLogin, Website!RecordAvatarLogout,
       Website!RecordPersistentMessage, Website!EnsureUserLink, Website!UpdateOnlineStatus,
       Website!CopyMail, Website!Refused
  <2> QED BY <2>1, <2>2
<1> QED BY <1>1, <1>2, <1>3, <1>4, <1>5

\* Whatever columns the site has, and whenever it adds or removes some: times of login and
\* logout last, a login shown has its link, refusals have one of three reasons, and
\* the time of creation stays.
THEOREM WebsiteIsSound == Website!Spec => WebsiteSound
<1> USE SharedTablesAssumption
<1>1. Website!Init => WebsiteInv
  <2> SUFFICES ASSUME Website!Init PROVE WebsiteInv
    OBVIOUS
  <2>1. 1 \in 1..MaxClock /\ 0 \in 0..MaxClock
    BY Numbers
  <2>2. \A t \in {"link", "status"} : rows[t] = NoWebRow
    BY DEF Website!Init
  <2>3. Website!TypeOK
    BY <2>1, <2>2 DEF Website!Init, Website!TypeOK
  <2>4. Website!TimesKept /\ Website!LinkedWhenShown /\ Website!RefusalsExplained /\ Pending
    BY <2>2 DEF Website!Init, Website!TimesKept, Website!LinkedWhenShown,
       Website!RefusalsExplained, Pending
  <2> QED BY <2>3, <2>4 DEF WebsiteInv
<1>2. WebsiteInv /\ [Website!Next]_Website!vars => WebsiteInv'
  BY WebsiteInductive
<1>3. WebsiteInv /\ [Website!Next]_Website!vars =>
         [\A t \in {"link", "status"} :
             rows[t] # NoWebRow /\ columns'[t]["created_at"] = columns[t]["created_at"] =>
                 rows[t]["created_at"] \in {Null, rows'[t]["created_at"]}]_Website!vars
  BY CreationStays
<1>4. WebsiteInv => Website!TypeOK /\ Website!TimesKept /\ Website!LinkedWhenShown
                       /\ Website!RefusalsExplained
  BY DEF WebsiteInv
<1> QED BY <1>1, <1>2, <1>3, <1>4, PTL
       DEF Website!Spec, WebsiteSound, Website!WebsiteSound, Website!CreatedOnce
=============================================================================
