-------------------------- MODULE ChatAvatarService --------------------------
(***************************************************************************)
(* The avatars of one gateway process: the cache and the online list of    *)
(* ChatAvatarService.cpp, the friend and ignore lists of ChatAvatar.cpp,   *)
(* the tables `avatar`, `friend` and the website's presence table behind   *)
(* them, and the handlers of protocol/Protocol.cpp that work on them, one  *)
(* action each.  A handler is one step (the gateway has one thread),       *)
(* whatever it loads on the way included.                                  *)
(*                                                                         *)
(* Names.  A request names an avatar; MariaDB finds the row whose name is  *)
(* equal under the column's case-insensitive collation, the cache compares *)
(* exactly, and a loaded name is widened byte by byte.  So a name that     *)
(* differs in case from the stored one, or is not ASCII, is never found in *)
(* the cache after a restart: every lookup caches one more object for the  *)
(* same avatar.                                                            *)
(*                                                                         *)
(* Table `ignore` is never read or written: its name is a reserved word    *)
(* that the statements do not quote, so each of them fails.  SELECT ends   *)
(* the loading loop, INSERT and DELETE throw after the memory is changed.  *)
(***************************************************************************)
EXTENDS Naturals, Sequences, FiniteSetsExt

CONSTANTS
    Avatar,          \* avatar ids, but for those of the SYSTEM avatars
    Name,            \* the names requests use
    OwnerOf,         \* OwnerOf[name]: the avatar whose row the name selects
    RoundTrips,      \* the names that read back as they were written
    NoName, Mangled,
    DatabaseFaults,  \* may statements fail, and answers be lost
    MaxObjects       \* bound: cached objects of one avatar

ASSUME ChatAvatarServiceAssumption ==
    /\ IsFiniteSet(Avatar)
    /\ OwnerOf \in [Name -> Avatar]
    /\ RoundTrips \subseteq Name
    /\ NoName \notin Name /\ Mangled \notin Name
    /\ DatabaseFaults \in BOOLEAN
    /\ MaxObjects \in Nat \ {0}

VARIABLES
    cache,          \* avatarCache_: cache[a] lists the objects with id a
    onlineAvatars,  \* onlineAvatars_: references to cached objects
    stored,         \* table `avatar`: stored[a] is the name of row a
    friendTable,    \* table `friend`
    web,            \* web_avatar_status: the avatars shown online
    told,           \* told[a]: the friends that the game server of a, online,
                    \* was last told are online
    torn,           \* pairs <<a, b>>: a request of a about its friend b was
                    \* answered DATABASE, b was misread when a was loaded, or
                    \* took the place of a friend that a had twice and removed
    unsettled       \* avatars whose last login or logout was answered
                    \* DATABASE, or ended with the process

vars == <<cache, onlineAvatars, stored, friendTable, web, told, torn, unsettled>>

\* An object is referred to by the avatar and its place among the objects of
\* that avatar.  The cache never shrinks, so a reference never dangles.
Ref == Avatar \X (1..MaxObjects)

\* A contact is a null pointer when the friend's row could not be read.
Null == <<>>
Contact == Ref \cup {Null}

\* friends counts the contacts, as a vector with duplicates is a bag.
Object ==
    [name: Name \cup {Mangled}, online: BOOLEAN,
     friends: [Contact -> Nat], ignored: SUBSET Avatar]

NewObject(name, friends) ==
    [name |-> name, online |-> FALSE, friends |-> friends, ignored |-> {}]

NoFriends == [x \in Contact |-> 0]

At(c, ref) == c[ref[1]][ref[2]]

TypeOK ==
    /\ cache \in [Avatar -> Seq(Object)]
    /\ onlineAvatars \in Seq(Ref)
    /\ \A i \in DOMAIN onlineAvatars :
          onlineAvatars[i][2] \in DOMAIN cache[onlineAvatars[i][1]]
    /\ stored \in [Avatar -> Name \cup {NoName}]
    /\ friendTable \subseteq Avatar \X Avatar
    /\ web \subseteq Avatar
    /\ told \in [Avatar -> SUBSET Avatar]
    /\ torn \subseteq Avatar \X Avatar
    /\ unsettled \subseteq Avatar

Init ==
    /\ cache = [a \in Avatar |-> <<>>]
    /\ onlineAvatars = <<>>
    /\ stored = [a \in Avatar |-> NoName]
    /\ friendTable = {}
    /\ web = {}
    /\ told = [a \in Avatar |-> {}]
    /\ torn = {}
    /\ unsettled = {}

-----------------------------------------------------------------------------
(***************************************************************************)
(* Searching a friend list compares ids, and walks over the null contacts  *)
(* in front of what it finds; one that finds nothing walks over them all.  *)
(* A walk over a null contact kills the process, which Crash allows for.   *)
(***************************************************************************)
FriendRefs(o, b) == {x \in Ref : x[1] = b /\ o.friends[x] > 0}

IsFriend(o, b) == FriendRefs(o, b) # {}

IsIgnored(o, b) == b \in o.ignored

Walkable(o) == o.friends[Null] = 0

Searchable(o, b) == IsFriend(o, b) \/ Walkable(o)

\* One erase(remove_if(...)).  If b was there twice, one place is left over,
\* still holding whatever contact was last in it.
WithoutFriend(o, b) ==
    LET x == CHOOSE ref \in FriendRefs(o, b) : TRUE
        Replaced(y) == [o.friends EXCEPT ![x] = 0, ![y] = IF y = x THEN 1 ELSE @ + 1]
    IN  IF o.friends[x] = 1
        THEN {[o EXCEPT !.friends[x] = 0]}
        ELSE {[o EXCEPT !.friends = Replaced(y)] : y \in {z \in Contact : o.friends[z] > 0}}

\* The friends o has more often than before, when it was the object was of a.
Doubled(a, was, o) ==
    {a} \X {b \in Avatar : \E x \in FriendRefs(o, b) : o.friends[x] > was.friends[x]}

-----------------------------------------------------------------------------
(***************************************************************************)
(* Loading.  GetAvatar caches the object first and reads its friends then, *)
(* loading each of them that is not cached, and so on: S is the set of     *)
(* avatars that get an object.  yield[<<b, d>>] is what became of row <<b, d>>:*)
(* a read may end early, start over, or find a friend it cannot load.      *)
(***************************************************************************)
Rows(S) == friendTable \cap (S \X Avatar)

LoadFriendList(b, yield) ==
    [x \in Contact |->
        IF x = Null
        THEN Cardinality({d \in Avatar : <<b, d>> \in DOMAIN yield /\ yield[<<b, d>>] = "null"})
        ELSE IF x[2] # 1 \/ x \notin Ref \/ <<b, x[1]>> \notin DOMAIN yield THEN 0
        ELSE CASE yield[<<b, x[1]>>] = "once" -> 1
               [] yield[<<b, x[1]>>] = "twice" -> 2
               [] OTHER -> 0]

LoadStoredAvatar(b, yield) ==
    NewObject(IF stored[b] \in RoundTrips THEN stored[b] ELSE Mangled,
              LoadFriendList(b, yield))

\* The loads of avatar a that the cache c allows, as caches.
Loads(c, a) ==
    LET uncached == {b \in Avatar : c[b] = <<>>}
        Reached(S) ==
            \A T \in SUBSET S :
                a \in T /\ (\A row \in Rows(T) : row[2] \in S => row[2] \in T) => T = S
        Read(S, yield) ==
            \A row \in Rows(S) :
                /\ yield[row] \in {"once", "twice"} => row[2] \notin uncached \ S
                /\ yield[row] = "null" => row[2] \in uncached
                /\ ~DatabaseFaults => yield[row] = "once"
        Yields(S) ==
            {yield \in [Rows(S) -> {"once", "twice", "null", "unread"}] : Read(S, yield)}
    IN  UNION {
            {[b \in Avatar |->
                IF b \in S THEN Append(c[b], LoadStoredAvatar(b, yield)) ELSE c[b]]
               : yield \in Yields(S)}
            : S \in {T \in SUBSET (uncached \cup {a}) : a \in T /\ Reached(T)}}

Misread(c) ==
    {pair \in Avatar \X Avatar :
        LET b == pair[1]
            row == IF pair \in friendTable THEN 1 ELSE 0
        IN  Len(c[b]) > Len(cache[b]) /\ c[b][Len(c[b])].friends[<<pair[2], 1>>] # row}

\* GetAvatar, as the set of what it may return and the cache it leaves.
GetAvatarById(c, a) ==
    IF c[a] # <<>> THEN {[cache |-> c, at |-> <<a, 1>>]}
    ELSE IF stored[a] = NoName THEN {}
    ELSE {[cache |-> d, at |-> <<a, 1>>] : d \in Loads(c, a)}

GetAvatar(c, name) ==
    LET a == OwnerOf[name]
        hits == {k \in DOMAIN c[a] : c[a][k].name = name}
    IN  IF hits # {} THEN {[cache |-> c, at |-> <<a, Min(hits)>>]}
        ELSE IF stored[a] = NoName \/ Len(c[a]) = MaxObjects THEN {}
        ELSE {[cache |-> d, at |-> <<a, Len(d[a])>>] : d \in Loads(c, a)}

-----------------------------------------------------------------------------
(***************************************************************************)
(* Presence                                                                *)
(***************************************************************************)
Listed(list, a) == \E i \in DOMAIN list : list[i][1] = a

\* The avatars online with a among their friends.
Watchers(c, list, a) ==
    {list[i][1] : i \in {j \in DOMAIN list : IsFriend(At(c, list[j]), a)}}

\* SendFriendLoginUpdates and SendFriendLogoutUpdates search every one.
AllSearchable(c, list, a) == \A i \in DOMAIN list : Searchable(At(c, list[i]), a)

OnlineFriends(c, o) == {x[1] : x \in {y \in Ref : o.friends[y] > 0 /\ At(c, y).online}}

\* Mutant: the IsOnline test is dropped.
EnlistAlways(list, ref) == Append(list, ref)

Enlist(list, ref) == IF Listed(list, ref[1]) THEN list ELSE Append(list, ref)

\* Mutant: the entry is not erased.
DelistNothing(list, a) == list

Delist(list, a) ==
    LET i == Min({j \in DOMAIN list : list[j][1] = a})
    IN  SubSeq(list, 1, i - 1) \o SubSeq(list, i + 1, Len(list))

\* Mutant: the avatar's server is not told which of its friends are online.
SendFriendLoginUpdatesOneWay(c, list, ref) ==
    /\ AllSearchable(c, list, ref[1]) /\ Walkable(At(c, ref))
    /\ told' = [b \in Avatar |->
                  IF b \in Watchers(c, list, ref[1]) THEN told[b] \cup {ref[1]} ELSE told[b]]

SendFriendLoginUpdates(c, list, ref) ==
    /\ AllSearchable(c, list, ref[1]) /\ Walkable(At(c, ref))
    /\ told' = [b \in Avatar |->
                  (IF b \in Watchers(c, list, ref[1]) THEN told[b] \cup {ref[1]} ELSE told[b])
                  \cup (IF b = ref[1] THEN OnlineFriends(c, At(c, ref)) ELSE {})]

\* The avatar is online before the website is told; if that throws, the
\* friends are not.
LogIn(c, ref) ==
    LET a == ref[1]
        online == [c EXCEPT ![a][ref[2]].online = TRUE]
        list == Enlist(onlineAvatars, ref)
    IN  /\ cache' = online
        /\ onlineAvatars' = list
        /\ torn' = torn \cup Misread(c)
        /\ UNCHANGED friendTable
        /\ \/ /\ web' = web \cup {a}
              /\ unsettled' = unsettled \ {a}
              /\ SendFriendLoginUpdates(online, list, ref)
           \/ /\ DatabaseFaults
              /\ web' \in {web, web \cup {a}}
              /\ unsettled' = unsettled \cup {a}
              /\ UNCHANGED told

LoginAvatar(name) ==
    LET a == OwnerOf[name]
        created == [cache EXCEPT ![a] = Append(@, NewObject(name, NoFriends))]
    IN  \/ UNCHANGED stored /\ \E got \in GetAvatar(cache, name) : LogIn(got.cache, got.at)
        \/ /\ stored[a] = NoName
           /\ stored' = [stored EXCEPT ![a] = name]
           /\ \/ LogIn(created, <<a, 1>>)
              \/ /\ DatabaseFaults  \* the answer to the INSERT is lost
                 /\ UNCHANGED <<cache, onlineAvatars, friendTable, web, told, torn, unsettled>>

\* The handler differs in the room messages it sends at the end.
FailoverReLoginAvatar(name) == LoginAvatar(name)

\* Mutant: the website is not told.
RecordAvatarLogoutNever(a) == UNCHANGED <<web, unsettled>>

RecordAvatarLogout(a) ==
    \/ web' = web \ {a} /\ unsettled' = unsettled \ {a}
    \/ DatabaseFaults /\ web' \in {web, web \ {a}} /\ unsettled' = unsettled \cup {a}

LogoutAvatar(a) ==
    \E got \in GetAvatarById(cache, a) :
        LET c == got.cache
            was == At(c, got.at).online
        IN  /\ AllSearchable(c, onlineAvatars, a)
            /\ cache' = [c EXCEPT ![a][1].online = FALSE]
            /\ onlineAvatars' = IF was THEN Delist(onlineAvatars, a) ELSE onlineAvatars
            /\ told' = [b \in Avatar |->
                          IF b = a /\ was THEN {}
                          ELSE IF b \in Watchers(c, onlineAvatars, a) THEN told[b] \ {a}
                          ELSE told[b]]
            /\ torn' = torn \cup Misread(c)
            /\ UNCHANGED <<stored, friendTable>>
            /\ RecordAvatarLogout(a)

-----------------------------------------------------------------------------
(***************************************************************************)
(* Friends and ignores: the handlers look up the source by id and the      *)
(* destination by name, then call one method of the source's ChatAvatar.   *)
(* A request about oneself is not asked for.                               *)
(***************************************************************************)
Parties(a, name) ==
    IF OwnerOf[name] = a THEN {}
    ELSE UNION {GetAvatar(got.cache, name) : got \in GetAvatarById(cache, a)}

\* The source becomes o; nothing but the tables and `told` differs otherwise.
Became(c, a, o, pairs) ==
    /\ cache' = [c EXCEPT ![a][1] = o]
    /\ torn' = torn \cup Misread(c) \cup pairs
    /\ UNCHANGED <<onlineAvatars, stored, web, unsettled>>

\* SendFriendLoginUpdate, after the list was changed.
TellIfOnline(c, a, ref) ==
    told' = [told EXCEPT ![a] =
               IF Listed(onlineAvatars, a) /\ At(c, ref).online THEN @ \cup {ref[1]} ELSE @]

\* The contact is there before the row is, and stays when the INSERT fails,
\* as it does if there is a row already.
PersistFriend(c, a, ref) ==
    \/ /\ <<a, ref[1]>> \notin friendTable
       /\ friendTable' = friendTable \cup {<<a, ref[1]>>}
       /\ TellIfOnline(c, a, ref)
       /\ torn' = torn \cup Misread(c)
    \/ /\ \/ DatabaseFaults /\ friendTable' \in {friendTable, friendTable \cup {<<a, ref[1]>>}}
          \/ <<a, ref[1]>> \in friendTable /\ UNCHANGED friendTable
       /\ torn' = torn \cup Misread(c) \cup {<<a, ref[1]>>}
       /\ UNCHANGED told

AddFriend(a, name) ==
    \E got \in Parties(a, name) :
        LET b == OwnerOf[name]
            c == got.cache
            o == c[a][1]
        IN  \/ /\ IsFriend(o, b)
               /\ Became(c, a, o, {}) /\ TellIfOnline(c, a, got.at) /\ UNCHANGED friendTable
            \/ /\ ~IsFriend(o, b) /\ Walkable(o)
               /\ IsIgnored(o, b)  \* RemoveIgnore throws, and b is not added
               /\ Became(c, a, [o EXCEPT !.ignored = @ \ {b}], {})
               /\ UNCHANGED <<friendTable, told>>
            \/ /\ ~IsFriend(o, b) /\ Walkable(o) /\ ~IsIgnored(o, b)
               /\ cache' = [c EXCEPT ![a][1].friends[got.at] = @ + 1]
               /\ PersistFriend(c, a, got.at)
               /\ UNCHANGED <<onlineAvatars, stored, web, unsettled>>

\* Mutant: the row is not deleted.
DropFriendInMemory(c, a, b, o, goesOn) ==
    /\ told' = [told EXCEPT ![a] = @ \ {b}]
    /\ Became(c, a, goesOn, {}) /\ UNCHANGED friendTable

\* RemoveFriend of ChatAvatar, which leaves the object o; goesOn is what its
\* caller makes of that, unless the DELETE throws.
DropFriend(c, a, b, o, goesOn) ==
    /\ told' = [told EXCEPT ![a] = @ \ {b}]
    /\ \/ /\ friendTable' = friendTable \ {<<a, b>>}
          /\ Became(c, a, goesOn, Doubled(a, c[a][1], o))
       \/ /\ DatabaseFaults
          /\ friendTable' \in {friendTable, friendTable \ {<<a, b>>}}
          /\ Became(c, a, o, {<<a, b>>} \cup Doubled(a, c[a][1], o))

RemoveFriend(a, name) ==
    \E got \in Parties(a, name) :
        LET b == OwnerOf[name]
            c == got.cache
        IN  \/ /\ IsFriend(c[a][1], b) /\ Walkable(c[a][1])
               /\ \E o \in WithoutFriend(c[a][1], b) : DropFriend(c, a, b, o, o)
            \/ /\ ~IsFriend(c[a][1], b) /\ Walkable(c[a][1])
               /\ Became(c, a, c[a][1], {}) /\ UNCHANGED <<friendTable, told>>

\* Mutant: an avatar that is ignored remains a friend.
AddIgnoreOnly(a, name) ==
    \E got \in Parties(a, name) :
        LET b == OwnerOf[name]
            c == got.cache
        IN  /\ Became(c, a, [c[a][1] EXCEPT !.ignored = @ \cup {b}], {})
            /\ UNCHANGED <<friendTable, told>>

AddIgnore(a, name) ==
    \E got \in Parties(a, name) :
        LET b == OwnerOf[name]
            c == got.cache
            Ignoring(o) == [o EXCEPT !.ignored = @ \cup {b}]
        IN  \/ /\ IsIgnored(c[a][1], b)
               /\ Became(c, a, c[a][1], {}) /\ UNCHANGED <<friendTable, told>>
            \/ /\ ~IsIgnored(c[a][1], b) /\ IsFriend(c[a][1], b) /\ Walkable(c[a][1])
               /\ \E o \in WithoutFriend(c[a][1], b) : DropFriend(c, a, b, o, Ignoring(o))
            \/ /\ ~IsIgnored(c[a][1], b) /\ ~IsFriend(c[a][1], b) /\ Walkable(c[a][1])
               /\ Became(c, a, Ignoring(c[a][1]), {}) /\ UNCHANGED <<friendTable, told>>

RemoveIgnore(a, name) ==
    \E got \in Parties(a, name) :
        LET o == got.cache[a][1]
        IN  /\ Became(got.cache, a, [o EXCEPT !.ignored = @ \ {OwnerOf[name]}], {})
            /\ UNCHANGED <<friendTable, told>>

\* Mutant: the avatar is dropped from the cache again.
GetAnyAvatarEvicting(name) ==
    \E got \in GetAvatar(cache, name) :
        /\ cache' = [got.cache EXCEPT ![OwnerOf[name]] = <<>>]
        /\ UNCHANGED <<onlineAvatars, stored, friendTable, web, told, torn, unsettled>>

\* The handlers that only look an avatar up, those of rooms and mail among
\* them, and any handler whose load throws: the avatar stays cached.
GetAnyAvatar(name) ==
    \E got \in GetAvatar(cache, name) :
        /\ cache' = got.cache
        /\ torn' = torn \cup Misread(got.cache)
        /\ UNCHANGED <<onlineAvatars, stored, friendTable, web, told, unsettled>>

\* The process dies and comes back with an empty memory.
Crash ==
    /\ cache' = [a \in Avatar |-> <<>>]
    /\ onlineAvatars' = <<>>
    /\ told' = [a \in Avatar |-> {}]
    /\ torn' = {}
    /\ unsettled' = unsettled \cup {a \in Avatar : Listed(onlineAvatars, a)}
    /\ UNCHANGED <<stored, friendTable, web>>

Next ==
    \/ \E name \in Name :
          \/ LoginAvatar(name)
          \/ FailoverReLoginAvatar(name)
          \/ GetAnyAvatar(name)
          \/ \E a \in Avatar :
                \/ AddFriend(a, name) \/ RemoveFriend(a, name)
                \/ AddIgnore(a, name) \/ RemoveIgnore(a, name)
    \/ \E a \in Avatar : LogoutAvatar(a)
    \/ Crash

Spec == Init /\ [][Next]_vars

-----------------------------------------------------------------------------
(***************************************************************************)
(* Properties                                                              *)
(***************************************************************************)
\* The online list names an avatar once, and the object GetAvatar(id) finds
\* is in it, itself or as another object of the avatar, whenever that object
\* is flagged online: the erase of LogoutAvatar, which does not test for
\* end(), always has exactly one entry to erase, aliases or not.
OnlineListSound ==
    /\ \A i, j \in DOMAIN onlineAvatars :
          onlineAvatars[i][1] = onlineAvatars[j][1] => i = j
    /\ \A i \in DOMAIN onlineAvatars : At(cache, onlineAvatars[i]).online
    /\ \A a \in Avatar :
          cache[a] # <<>> /\ cache[a][1].online => Listed(onlineAvatars, a)

\* The state has its type, so that no reference dangles, and the online list is
\* sound: the erase of LogoutAvatar erases one entry, which is of this avatar.
OnlineSound == TypeOK /\ OnlineListSound

\* No avatar is cached under two names: each has been asked for by one name, and
\* that reads back as it was written, or it has not been loaded since.
Unaliased == \A a \in Avatar : Len(cache[a]) <= 1

\* Until an avatar is cached twice, an object is flagged online just when it
\* is in the online list: friends shown online (by the flag) are those that
\* get messages (by the list).
OnlineFlagMatchesList ==
    Unaliased => \A a \in Avatar : \A k \in DOMAIN cache[a] :
        cache[a][k].online <=> \E i \in DOMAIN onlineAvatars : onlineAvatars[i] = <<a, k>>

\* Until an avatar is cached twice, the friends in memory are the rows of the
\* table, each once, but for pairs about which a request was answered
\* DATABASE, a read went wrong, or another friend that was listed twice
\* was removed in part.
FriendsPersisted ==
    Unaliased => \A a, b \in Avatar : \A k \in DOMAIN cache[a] : <<a, b>> \notin torn =>
        cache[a][k].friends[<<b, 1>>] = (IF <<a, b>> \in friendTable THEN 1 ELSE 0)

\* Nobody is a friend and ignored at once, with the same exceptions.
FriendXorIgnored ==
    Unaliased => \A a, b \in Avatar : \A k \in DOMAIN cache[a] : <<a, b>> \notin torn =>
        ~(IsFriend(cache[a][k], b) /\ IsIgnored(cache[a][k], b))

\* Until an avatar is cached twice, the game server of an online avatar has
\* been told the truth about each of its friends, in whichever order they
\* logged in and out, were befriended, dropped and loaded, unless an answer
\* DATABASE warned of the contrary.
PresenceCoherent ==
    Unaliased =>
        \A a \in Avatar \ unsettled, b \in Avatar \ unsettled : \A i \in DOMAIN onlineAvatars :
            /\ onlineAvatars[i][1] = a
            /\ IsFriend(At(cache, onlineAvatars[i]), b)
            /\ <<a, b>> \notin torn
            => (b \in told[a] <=> Listed(onlineAvatars, b))

\* Until an avatar is cached twice, the website shows it online just when it
\* is, except after a login or a logout that failed, or that the process did
\* not live to see.
WebFollowsPresence ==
    Unaliased => \A a \in Avatar \ unsettled : a \in web <=> Listed(onlineAvatars, a)

\* "Sync presence ... with external portals", "Show online players": what the
\* website shows is never an avatar that is not online.
WebShowsOnlinePlayers == \A a \in web : Listed(onlineAvatars, a)
=============================================================================
