----------------------- MODULE ChatRoomService_proofs -----------------------
(***************************************************************************)
(* The invariants of ChatRoomService hold for every set of avatars,        *)
(* addresses and nodes and every value of the bounds.                      *)
(***************************************************************************)
EXTENDS ChatRoomService, TLAPS

\* What a room's own lists satisfy.
RoomOK(r) ==
    /\ \A a \in Avatar :
          r.avatars[a] <= 1 /\ r.moderators[a] <= 1 /\ r.banned[a] <= 1 /\ r.invited[a] <= 1
    /\ ~r.service =>
          /\ r.moderators = EmptyVector
          /\ r.banned = EmptyVector
          /\ r.invited = EmptyVector
          /\ IsPrivate(r) => \A a \in Avatar : IsInRoom(r, a) => IsCreator(r, a)

IInv == TypeOK /\ BookKeeping /\ UniqueAddress /\ RowOwnership /\ (\A r \in rooms : RoomOK(r))

\* s is what a method made of room r: only lists and the message id differ.
SameRoom(r, s) ==
    /\ s \in Room
    /\ s.id = r.id /\ s.addr = r.addr /\ s.dbId = r.dbId
    /\ s.creator = r.creator /\ s.attributes = r.attributes
    /\ s.locked = r.locked /\ s.service = r.service

-----------------------------------------------------------------------------
(***************************************************************************)
(* The methods of ChatRoom keep a room in order.                           *)
(***************************************************************************)
\* A vector holding a at most once, and not at all before a push.
LEMMA PushBackOnce ==
    ASSUME NEW v \in Vector, NEW a \in Avatar, ~Contains(v, a), \A b \in Avatar : v[b] <= 1
    PROVE  PushBack(v, a) \in Vector /\ \A b \in Avatar : PushBack(v, a)[b] <= 1
BY DEF Vector, PushBack, Contains

\* Erasing an avatar a vector holds leaves a vector, with nothing added.
LEMMA EraseOnce ==
    ASSUME NEW v \in Vector, NEW a \in Avatar, Contains(v, a), \A b \in Avatar : v[b] <= 1
    PROVE  /\ Erase(v, a) \in Vector
           /\ \A b \in Avatar : Erase(v, a)[b] <= 1
           /\ \A b \in Avatar : Contains(Erase(v, a), b) <=> Contains(v, b) /\ b # a
BY DEF Vector, Erase, Contains

\* The constructor makes a room in order.
LEMMA NewRoomOK ==
    ASSUME NEW id \in Nat, NEW addr \in Address, NEW a \in Avatar, NEW kind \in Kind
    PROVE  LET room == NewRoom(id, addr, a, kind.attributes, kind.locked)
           IN  room \in Room /\ RoomOK(room)
<1>1. EmptyVector \in Vector /\ PushBack(EmptyVector, a) \in Vector
  BY DEF EmptyVector, Vector, PushBack
<1>2. \A b \in Avatar : EmptyVector[b] <= 1 /\ PushBack(EmptyVector, a)[b] <= 1
  BY DEF EmptyVector, PushBack
<1>3. kind.attributes \in SUBSET RoomAttributes /\ kind.locked \in BOOLEAN
  BY ChatRoomServiceAssumption
<1> QED
  BY <1>1, <1>2, <1>3 DEF NewRoom, Room, RoomOK, NoDbId

\* EnterRoom.
LEMMA EnteredOK ==
    ASSUME NEW r \in Room, NEW a \in Avatar, NEW pw \in BOOLEAN, RoomOK(r), Admits(r, a, pw)
    PROVE  SameRoom(r, Entered(r, a)) /\ RoomOK(Entered(r, a))
<1> DEFINE v == PushBack(r.avatars, a)
<1>1. r.avatars \in Vector /\ ~Contains(r.avatars, a) /\ \A b \in Avatar : r.avatars[b] <= 1
  BY DEF Room, RoomOK, Admits, IsInRoom
<1>2. v \in Vector /\ \A b \in Avatar : v[b] <= 1
  BY <1>1, PushBackOnce
<1>3. \A b \in Avatar : Contains(v, b) => Contains(r.avatars, b) \/ b = a
  BY <1>1 DEF PushBack, Contains, Vector
<1>4. ~r.service /\ IsPrivate(r) => IsCreator(r, a)
  BY DEF Admits, RoomOK, IsInvited, Contains, EmptyVector
<1> HIDE DEF v
<1>5. Entered(r, a) = [r EXCEPT !.avatars = v]
  BY DEF Entered, v
<1> QED
  BY <1>2, <1>3, <1>4, <1>5 DEF Room, RoomOK, SameRoom, IsPrivate, IsInRoom, IsCreator

\* LeaveRoom, and KickAvatar through it.
LEMMA LeftOK ==
    ASSUME NEW r \in Room, NEW a \in Avatar, RoomOK(r)
    PROVE  SameRoom(r, Left(r, a)) /\ RoomOK(Left(r, a))
<1>1. CASE ~IsInRoom(r, a)
  BY <1>1 DEF Left, SameRoom
<1>2. CASE IsInRoom(r, a)
  <2> DEFINE v == Erase(r.avatars, a)
  <2>1. r.avatars \in Vector /\ Contains(r.avatars, a) /\ \A b \in Avatar : r.avatars[b] <= 1
    BY <1>2 DEF Room, RoomOK, IsInRoom
  <2>2. /\ v \in Vector
        /\ \A b \in Avatar : v[b] <= 1
        /\ \A b \in Avatar : Contains(v, b) => Contains(r.avatars, b)
    BY <2>1, EraseOnce
  <2> HIDE DEF v
  <2>3. Left(r, a) = [r EXCEPT !.avatars = v]
    BY <1>2 DEF Left, v
  <2> QED
    BY <2>2, <2>3 DEF Room, RoomOK, SameRoom, IsPrivate, IsInRoom, IsCreator
<1> QED
  BY <1>1, <1>2

\* AddModerator, AddBanned and AddInvite, on a room that is not a loaded one.
LEMMA AddedOK ==
    ASSUME NEW r \in Room, NEW a \in Avatar, RoomOK(r), r.service
    PROVE  /\ ~IsModerator(r, a) =>
                 SameRoom(r, WithModerator(r, a)) /\ RoomOK(WithModerator(r, a))
           /\ ~IsBanned(r, a) => SameRoom(r, WithBan(r, a)) /\ RoomOK(WithBan(r, a))
           /\ ~IsInvited(r, a) => SameRoom(r, WithInvite(r, a)) /\ RoomOK(WithInvite(r, a))
<1> DEFINE m == PushBack(r.moderators, a)
           n == PushBack(r.banned, a)
           i == PushBack(r.invited, a)
<1>1. /\ r.moderators \in Vector /\ r.banned \in Vector /\ r.invited \in Vector
      /\ \A b \in Avatar : r.moderators[b] <= 1
      /\ \A b \in Avatar : r.banned[b] <= 1
      /\ \A b \in Avatar : r.invited[b] <= 1
  BY DEF Room, RoomOK
<1>2. ~Contains(r.moderators, a) => m \in Vector /\ \A b \in Avatar : m[b] <= 1
  BY <1>1, PushBackOnce
<1>3. ~Contains(r.banned, a) => n \in Vector /\ \A b \in Avatar : n[b] <= 1
  BY <1>1, PushBackOnce
<1>4. ~Contains(r.invited, a) => i \in Vector /\ \A b \in Avatar : i[b] <= 1
  BY <1>1, PushBackOnce
<1>5. /\ WithModerator(r, a) = [r EXCEPT !.moderators = m]
      /\ WithBan(r, a) = [r EXCEPT !.banned = n]
      /\ WithInvite(r, a) = [r EXCEPT !.invited = i]
  BY DEF WithModerator, WithBan, WithInvite
<1> HIDE DEF m, n, i
<1>6. ~IsModerator(r, a) => SameRoom(r, WithModerator(r, a)) /\ RoomOK(WithModerator(r, a))
  BY <1>2, <1>5, ZenonT(40) DEF Room, RoomOK, SameRoom, IsModerator
<1>7. ~IsBanned(r, a) => SameRoom(r, WithBan(r, a)) /\ RoomOK(WithBan(r, a))
  BY <1>3, <1>5, ZenonT(40) DEF Room, RoomOK, SameRoom, IsBanned
<1>8. ~IsInvited(r, a) => SameRoom(r, WithInvite(r, a)) /\ RoomOK(WithInvite(r, a))
  BY <1>4, <1>5, ZenonT(40) DEF Room, RoomOK, SameRoom, IsInvited
<1> QED
  BY <1>6, <1>7, <1>8

\* RemoveModerator, RemoveBanned and RemoveInvite.
LEMMA RemovedOK ==
    ASSUME NEW r \in Room, NEW a \in Avatar, RoomOK(r)
    PROVE  /\ IsModerator(r, a) =>
                 SameRoom(r, WithoutModerator(r, a)) /\ RoomOK(WithoutModerator(r, a))
           /\ IsBanned(r, a) => SameRoom(r, WithoutBan(r, a)) /\ RoomOK(WithoutBan(r, a))
           /\ IsInvited(r, a) =>
                 SameRoom(r, WithoutInvite(r, a)) /\ RoomOK(WithoutInvite(r, a))
<1> DEFINE m == Erase(r.moderators, a)
           n == Erase(r.banned, a)
           i == Erase(r.invited, a)
<1>1. /\ r.moderators \in Vector /\ r.banned \in Vector /\ r.invited \in Vector
      /\ \A b \in Avatar : r.moderators[b] <= 1
      /\ \A b \in Avatar : r.banned[b] <= 1
      /\ \A b \in Avatar : r.invited[b] <= 1
  BY DEF Room, RoomOK
<1>2. Contains(r.moderators, a) => m \in Vector /\ \A b \in Avatar : m[b] <= 1
  BY <1>1, EraseOnce
<1>3. Contains(r.banned, a) => n \in Vector /\ \A b \in Avatar : n[b] <= 1
  BY <1>1, EraseOnce
<1>4. Contains(r.invited, a) => i \in Vector /\ \A b \in Avatar : i[b] <= 1
  BY <1>1, EraseOnce
<1>5. /\ WithoutModerator(r, a) = [r EXCEPT !.moderators = m]
      /\ WithoutBan(r, a) = [r EXCEPT !.banned = n]
      /\ WithoutInvite(r, a) = [r EXCEPT !.invited = i]
  BY DEF WithoutModerator, WithoutBan, WithoutInvite
<1>6. IsModerator(r, a) \/ IsBanned(r, a) \/ IsInvited(r, a) => r.service
  BY DEF Room, RoomOK, IsModerator, IsBanned, IsInvited, Contains, EmptyVector
<1> HIDE DEF m, n, i
<1>7. IsModerator(r, a) =>
        SameRoom(r, WithoutModerator(r, a)) /\ RoomOK(WithoutModerator(r, a))
  BY <1>2, <1>5, <1>6 DEF Room, RoomOK, SameRoom, IsModerator
<1>8. IsBanned(r, a) => SameRoom(r, WithoutBan(r, a)) /\ RoomOK(WithoutBan(r, a))
  BY <1>3, <1>5, <1>6 DEF Room, RoomOK, SameRoom, IsBanned
<1>9. IsInvited(r, a) => SameRoom(r, WithoutInvite(r, a)) /\ RoomOK(WithoutInvite(r, a))
  BY <1>4, <1>5, <1>6 DEF Room, RoomOK, SameRoom, IsInvited
<1> QED
  BY <1>7, <1>8, <1>9

-----------------------------------------------------------------------------
(***************************************************************************)
(* The steps.                                                              *)
(***************************************************************************)
\* A method that leaves the same room, in order, keeps the invariant.
LEMMA ChangedInv ==
    ASSUME IInv, NEW r \in rooms, NEW s, SameRoom(r, s), RoomOK(s), Changed(r, s)
    PROVE  IInv'
<1>1. rooms' = (rooms \ {r}) \cup {s} /\ UNCHANGED <<nextRoomId, roomTable, nextDbId>>
  BY DEF Changed
<1>2. TypeOK'
  BY <1>1 DEF IInv, TypeOK, SameRoom
<1>3. BookKeeping'
  BY <1>1 DEF IInv, BookKeeping, SameRoom, IsPersistent
<1>4. UniqueAddress'
  BY <1>1 DEF IInv, UniqueAddress, SameRoom
<1>5. RowOwnership'
  BY <1>1 DEF IInv, RowOwnership, SameRoom
<1>6. \A t \in rooms' : RoomOK(t)
  BY <1>1 DEF IInv
<1> QED
  BY <1>2, <1>3, <1>4, <1>5, <1>6 DEF IInv

\* The process dies.
LEMMA CrashInv == IInv /\ Crash => IInv'
  BY DEF IInv, Crash, TypeOK, BookKeeping, UniqueAddress, RowOwnership

\* A room that is new to the list, whose row id, if any, is new too.
LEMMA AddRoomInv ==
    ASSUME IInv,
           NEW room \in Room, RoomOK(room), room.service, ~RoomExists(room.addr),
           room.id = nextRoomId, nextRoomId' = nextRoomId + 1,
           rooms' = rooms \cup {room},
           \/ UNCHANGED <<roomTable, nextDbId>> /\ room.dbId = NoDbId
           \/ /\ CanInsert(room) /\ IsPersistent(room)
              /\ roomTable' = roomTable \cup {RowOf(room, nextDbId)}
              /\ nextDbId' = nextDbId + 1
              /\ room.dbId \in {NoDbId, nextDbId}
    PROVE  IInv'
<1>1. /\ rooms \subseteq Room /\ nextRoomId \in Nat /\ roomTable \subseteq Row
      /\ nextDbId \in Nat /\ nextDbId # NoDbId
  BY DEF IInv, TypeOK
<1>2. RowOf(room, nextDbId) \in Row
  BY <1>1 DEF RowOf, Row, Room
<1>3. TypeOK'
  BY <1>1, <1>2 DEF TypeOK, NoDbId
<1>4. \A r \in rooms : r.addr # room.addr /\ r.id < nextRoomId /\ r.dbId < nextDbId
  BY DEF IInv, BookKeeping, RoomExists
<1>5. \A row \in roomTable : row.dbId < nextDbId /\ row.dbId \in Nat /\ row.dbId # NoDbId
  BY <1>1 DEF IInv, BookKeeping, Row
<1>6. \A r \in rooms : r.id \in Nat /\ r.dbId \in Nat
  BY <1>1 DEF Room
<1>7. /\ RowOf(room, nextDbId).dbId = nextDbId
      /\ RowOf(room, nextDbId).addr = room.addr
      /\ RowOf(room, nextDbId).attributes = room.attributes
  BY DEF RowOf
<1>8. BookKeeping'
  <2>1. \A r, s \in rooms' : r.id = s.id => r = s
    BY <1>1, <1>4, <1>6 DEF IInv, BookKeeping
  <2>2. \A r \in rooms' : r.id < nextRoomId' /\ r.dbId < nextDbId'
    BY <1>1, <1>4, <1>6 DEF NoDbId
  <2>3. \A row \in roomTable' :
          /\ row.dbId # NoDbId /\ row.dbId < nextDbId'
          /\ "PERSISTENT" \in row.attributes
    BY <1>1, <1>5, <1>7 DEF IInv, BookKeeping, IsPersistent
  <2>4. \A row, other \in roomTable' :
          row.dbId = other.dbId \/ row.addr = other.addr => row = other
    BY <1>1, <1>5, <1>7 DEF IInv, BookKeeping, CanInsert
  <2>5. \A r \in rooms' : ~r.service => IsPersistent(r)
    BY DEF IInv, BookKeeping
  <2> QED
    BY <2>1, <2>2, <2>3, <2>4, <2>5 DEF BookKeeping
<1>9. UniqueAddress'
  BY <1>4 DEF IInv, UniqueAddress
<1>10. RowOwnership'
  <2>1. \A r \in rooms', row \in roomTable' : row.dbId = r.dbId => row.addr = r.addr
    BY <1>1, <1>4, <1>5, <1>6, <1>7 DEF IInv, RowOwnership
  <2>2. \A r, s \in rooms' : r.dbId = s.dbId /\ r.dbId # NoDbId => r = s
    BY <1>1, <1>4, <1>6 DEF IInv, RowOwnership
  <2> QED
    BY <2>1, <2>2 DEF RowOwnership
<1>11. \A r \in rooms' : RoomOK(r)
  BY DEF IInv
<1> QED
  BY <1>3, <1>8, <1>9, <1>10, <1>11 DEF IInv

\* A room is created, stored or not.
LEMMA CreateRoomInv ==
    ASSUME IInv, NEW a \in Avatar, NEW addr \in Address, NEW kind \in Kind,
           CreateRoom(a, addr, kind)
    PROVE  IInv'
<1> DEFINE room == NewRoom(nextRoomId, addr, a, kind.attributes, kind.locked)
           stored == [room EXCEPT !.dbId = nextDbId]
<1>1. nextRoomId \in Nat /\ nextDbId \in Nat
  BY DEF IInv, TypeOK
<1>2. room \in Room /\ RoomOK(room)
  BY <1>1, NewRoomOK
<1>3. room.id = nextRoomId /\ room.addr = addr /\ room.dbId = NoDbId /\ room.service
  BY DEF NewRoom
<1>4. ~RoomExists(room.addr) /\ nextRoomId' = nextRoomId + 1
  BY <1>3 DEF CreateRoom
<1>5. \/ rooms' = rooms \cup {room} /\ UNCHANGED <<roomTable, nextDbId>>
      \/ IsPersistent(room) /\ PersistNewRoom(room)
  BY DEF CreateRoom
<1> HIDE DEF room
<1>6. /\ stored \in Room /\ RoomOK(stored) /\ stored.service
      /\ stored.id = nextRoomId /\ stored.addr = room.addr /\ stored.dbId = nextDbId
      /\ stored.attributes = room.attributes
      /\ RowOf(stored, nextDbId) = RowOf(room, nextDbId)
  BY <1>1, <1>2, <1>3 DEF Room, RoomOK, IsPrivate, IsInRoom, IsCreator, RowOf
<1>7. [room EXCEPT !.dbId = NoDbId] = room
  BY <1>2, <1>3 DEF Room
<1>8. CASE rooms' = rooms \cup {room} /\ UNCHANGED <<roomTable, nextDbId>>
  BY <1>2, <1>3, <1>4, <1>8, AddRoomInv
<1>9. CASE /\ IsPersistent(room) /\ CanInsert(room)
           /\ roomTable' = roomTable \cup {RowOf(room, nextDbId)}
           /\ nextDbId' = nextDbId + 1
           /\ rooms' = rooms \cup {room}
  BY <1>2, <1>3, <1>4, <1>9, AddRoomInv
<1>10. CASE /\ IsPersistent(room) /\ CanInsert(room)
            /\ roomTable' = roomTable \cup {RowOf(room, nextDbId)}
            /\ nextDbId' = nextDbId + 1
            /\ rooms' = rooms \cup {stored}
  <2> HIDE DEF stored
  <2>1. CanInsert(stored) /\ IsPersistent(stored) /\ ~RoomExists(stored.addr)
    BY <1>4, <1>6, <1>10 DEF CanInsert, IsPersistent
  <2> QED
    BY <2>1, <1>4, <1>6, <1>10, AddRoomInv
<1> QED
  BY <1>5, <1>7, <1>8, <1>9, <1>10 DEF PersistNewRoom

\* A room is destroyed, and its row with it or not.
LEMMA DestroyRoomInv ==
    ASSUME IInv, NEW addr \in Address, DestroyRoom(addr)
    PROVE  IInv'
<1>1. /\ rooms' \subseteq rooms /\ roomTable' \subseteq roomTable
      /\ UNCHANGED <<nextRoomId, nextDbId>>
  BY DEF DestroyRoom, DeleteRoom
<1> QED
  BY <1>1 DEF IInv, TypeOK, BookKeeping, UniqueAddress, RowOwnership

\* An avatar leaves all rooms.
LEMMA LogoutAvatarInv ==
    ASSUME IInv, NEW a \in Avatar, LogoutAvatar(a)
    PROVE  IInv'
<1>1. /\ rooms' = {Left(r, a) : r \in rooms}
      /\ UNCHANGED <<nextRoomId, roomTable, nextDbId>>
  BY DEF LogoutAvatar
<1>2. \A r \in rooms : SameRoom(r, Left(r, a)) /\ RoomOK(Left(r, a))
  BY LeftOK DEF IInv, TypeOK
<1>3. \A s \in rooms' : RoomOK(s) /\ \E r \in rooms : SameRoom(r, s) /\ s = Left(r, a)
  BY <1>1, <1>2
<1>4. TypeOK'
  BY <1>1, <1>3 DEF IInv, TypeOK, SameRoom
<1>5. BookKeeping'
  <2>1. \A r, s \in rooms' : r.id = s.id => r = s
    BY <1>3 DEF IInv, BookKeeping, SameRoom
  <2>2. \A r \in rooms' : r.id < nextRoomId' /\ r.dbId < nextDbId'
    BY <1>1, <1>3 DEF IInv, BookKeeping, SameRoom
  <2>3. \A r \in rooms' : ~r.service => IsPersistent(r)
    BY <1>1, <1>3 DEF IInv, BookKeeping, SameRoom, IsPersistent
  <2>4. /\ \A row \in roomTable' :
              /\ row.dbId # NoDbId /\ row.dbId < nextDbId'
              /\ "PERSISTENT" \in row.attributes
        /\ \A row, other \in roomTable' :
              row.dbId = other.dbId \/ row.addr = other.addr => row = other
    BY <1>1 DEF IInv, BookKeeping
  <2> QED
    BY <2>1, <2>2, <2>3, <2>4 DEF BookKeeping
<1>6. UniqueAddress'
  BY <1>3 DEF IInv, UniqueAddress, SameRoom
<1>7. RowOwnership'
  BY <1>1, <1>3 DEF IInv, RowOwnership, SameRoom
<1> QED
  BY <1>3, <1>4, <1>5, <1>6, <1>7 DEF IInv

\* The rooms of a node are loaded.
LEMMA LoadRoomsInv ==
    ASSUME IInv, NEW node \in Node, LoadRoomsFromStorage(node)
    PROVE  IInv'
<1>0. PICK next \in nextRoomId..MaxRoomId :
        \E read \in [nextRoomId..(next - 1) -> Matching(node)] :
            /\ rooms' = {LoadedRoom(i, read[i]) : i \in Kept(read)}
            /\ nextRoomId' = next
            /\ UNCHANGED <<roomTable, nextDbId>>
  BY DEF LoadRoomsFromStorage
<1>1. PICK read \in [nextRoomId..(next - 1) -> Matching(node)] :
        /\ rooms' = {LoadedRoom(i, read[i]) : i \in Kept(read)}
        /\ nextRoomId' = next
        /\ UNCHANGED <<roomTable, nextDbId>>
  BY <1>0
<1>2. nextRoomId \in Nat /\ next \in Nat /\ nextDbId \in Nat /\ nextDbId # NoDbId
      /\ roomTable \subseteq Row
  BY ChatRoomServiceAssumption DEF IInv, TypeOK
<1>3. \A i \in Kept(read) : i \in Nat /\ i < next /\ read[i] \in roomTable
  BY <1>2 DEF Kept, Matching
<1>4. \A i, j \in Kept(read) : read[i].addr = read[j].addr => i = j
  BY <1>2 DEF Kept
<1>5. EmptyVector \in Vector /\ \A a \in Avatar : EmptyVector[a] = 0
  BY DEF EmptyVector, Vector
<1>6. \A i \in Nat, row \in Row :
        /\ LoadedRoom(i, row) \in Room /\ RoomOK(LoadedRoom(i, row))
        /\ LoadedRoom(i, row).id = i /\ LoadedRoom(i, row).addr = row.addr
        /\ LoadedRoom(i, row).dbId = row.dbId
        /\ LoadedRoom(i, row).attributes = row.attributes
  BY <1>5 DEF LoadedRoom, Row, Room, RoomOK, IsInRoom, Contains
<1>7. \A s \in rooms' : \E i \in Kept(read) :
        /\ s = LoadedRoom(i, read[i]) /\ s \in Room /\ RoomOK(s)
        /\ s.id = i /\ s.addr = read[i].addr /\ s.dbId = read[i].dbId
        /\ s.attributes = read[i].attributes
  BY <1>1, <1>2, <1>3, <1>6
<1>8. TypeOK'
  BY <1>1, <1>2, <1>7 DEF TypeOK
<1>9. UniqueAddress'
  BY <1>4, <1>7 DEF UniqueAddress
<1>10. BookKeeping'
  <2>1. \A r, s \in rooms' : r.id = s.id => r = s
    BY <1>7
  <2>2. \A r \in rooms' : r.id < nextRoomId' /\ r.dbId < nextDbId'
    BY <1>1, <1>3, <1>7 DEF IInv, BookKeeping
  <2>3. \A r \in rooms' : IsPersistent(r)
    BY <1>3, <1>7 DEF IInv, BookKeeping, IsPersistent
  <2> QED
    BY <1>1, <2>1, <2>2, <2>3 DEF IInv, BookKeeping
<1>11. RowOwnership'
  <2>1. \A r \in rooms', row \in roomTable' : row.dbId = r.dbId => row.addr = r.addr
    BY <1>1, <1>3, <1>7 DEF IInv, BookKeeping
  <2>2. \A r, s \in rooms' : r.dbId = s.dbId => r = s
    BY <1>3, <1>4, <1>7 DEF IInv, BookKeeping
  <2> QED
    BY <2>1, <2>2 DEF RowOwnership
<1> QED
  BY <1>7, <1>8, <1>9, <1>10, <1>11 DEF IInv

-----------------------------------------------------------------------------
(***************************************************************************)
(* The inductive invariant.  The properties rest on one another: an erase  *)
(* is safe because no vector holds duplicates, a row id identifies a room  *)
(* because rows are unique, and a loaded room stays without staff because  *)
(* loaded rooms are persistent, where the first appointment is a crash.    *)
(***************************************************************************)
\* A method of a room is called.
LEMMA MethodsInv ==
    ASSUME IInv, NEW src \in Avatar, NEW a \in Avatar, NEW addr \in Address,
           \/ KickAvatar(src, a, addr)
           \/ AddModerator(src, a, addr) \/ RemoveModerator(src, a, addr)
           \/ AddBan(src, a, addr) \/ RemoveBan(src, a, addr)
           \/ AddInvite(src, a, addr) \/ RemoveInvite(src, a, addr)
    PROVE  IInv'
<1>0. \A r \in RoomsAt(addr) : r \in rooms /\ r \in Room /\ RoomOK(r)
  BY DEF IInv, TypeOK, RoomsAt
<1>1. \A r \in RoomsAt(addr) :
        ~r.service => IsPersistent(r) /\ ~IsModerator(r, src)
  BY <1>0 DEF IInv, BookKeeping, RoomOK, IsModerator, Contains, EmptyVector
<1>2. CASE KickAvatar(src, a, addr)
  BY <1>0, <1>1, <1>2, LeftOK, ChangedInv DEF KickAvatar
<1>3. CASE AddModerator(src, a, addr)
  BY <1>0, <1>1, <1>3, AddedOK, ChangedInv, CrashInv DEF AddModerator, MayAddModerator
<1>4. CASE RemoveModerator(src, a, addr)
  BY <1>0, <1>1, <1>4, RemovedOK, ChangedInv DEF RemoveModerator, MayRemoveModerator
<1>5. CASE AddBan(src, a, addr)
  BY <1>0, <1>1, <1>5, AddedOK, ChangedInv, CrashInv DEF AddBan, MayAddBanned
<1>6. CASE RemoveBan(src, a, addr)
  BY <1>0, <1>1, <1>6, RemovedOK, ChangedInv DEF RemoveBan, MayRemoveBanned
<1>7. CASE AddInvite(src, a, addr)
  BY <1>0, <1>1, <1>7, AddedOK, ChangedInv DEF AddInvite, MayAddInvite
<1>8. CASE RemoveInvite(src, a, addr)
  BY <1>0, <1>1, <1>8, RemovedOK, ChangedInv DEF RemoveInvite, MayRemoveInvite
<1> QED
  BY <1>2, <1>3, <1>4, <1>5, <1>6, <1>7, <1>8

\* Every step keeps the invariant.
LEMMA NextInv == IInv /\ [Next]_vars => IInv'
<1> SUFFICES ASSUME IInv, [Next]_vars PROVE IInv'
  OBVIOUS
<1>1. \A r \in rooms : r \in Room /\ RoomOK(r)
  BY DEF IInv, TypeOK
<1>2. ASSUME NEW a \in Avatar, NEW addr \in Address, NEW kind \in Kind,
             CreateRoom(a, addr, kind)
      PROVE  IInv'
  BY <1>2, CreateRoomInv
<1>3. ASSUME NEW addr \in Address, DestroyRoom(addr)
      PROVE  IInv'
  BY <1>3, DestroyRoomInv
<1>4. ASSUME NEW a \in Avatar, NEW addr \in Address, NEW pw \in BOOLEAN,
             EnterRoom(a, addr, pw)
      PROVE  IInv'
  BY <1>1, <1>4, EnteredOK, ChangedInv DEF EnterRoom, RoomsAt
<1>5. ASSUME NEW a \in Avatar, NEW addr \in Address, LeaveRoom(a, addr)
      PROVE  IInv'
  BY <1>1, <1>5, LeftOK, ChangedInv DEF LeaveRoom, RoomsAt
<1>6. ASSUME NEW addr \in Address, SendRoomMessage(addr)
      PROVE  IInv'
  <2>1. PICK r \in RoomsAt(addr) : Changed(r, [r EXCEPT !.messageId = @ + 1])
    BY <1>6 DEF SendRoomMessage
  <2> DEFINE s == [r EXCEPT !.messageId = @ + 1]
  <2>2. r \in rooms /\ SameRoom(r, s) /\ RoomOK(s)
    BY <1>1 DEF RoomsAt, SameRoom, Room, RoomOK, IsPrivate, IsInRoom, IsCreator
  <2> QED
    BY <2>1, <2>2, ChangedInv
<1>7. ASSUME NEW a \in Avatar, LogoutAvatar(a)
      PROVE  IInv'
  BY <1>7, LogoutAvatarInv
<1>8. ASSUME NEW node \in Node, LoginSystemAvatar(node)
      PROVE  IInv'
  BY <1>8, LoadRoomsInv DEF LoginSystemAvatar
<1>9. ASSUME NEW src \in Avatar, NEW a \in Avatar, NEW addr \in Address,
             \/ KickAvatar(src, a, addr)
             \/ AddModerator(src, a, addr) \/ RemoveModerator(src, a, addr)
             \/ AddBan(src, a, addr) \/ RemoveBan(src, a, addr)
             \/ AddInvite(src, a, addr) \/ RemoveInvite(src, a, addr)
      PROVE  IInv'
  BY <1>9, MethodsInv
<1>10. CASE Crash
  BY <1>10, CrashInv
<1>11. CASE UNCHANGED vars
  BY <1>11 DEF vars, IInv, TypeOK, BookKeeping, UniqueAddress, RowOwnership, IsPersistent
<1> QED
  BY <1>2, <1>3, <1>4, <1>5, <1>6, <1>7, <1>8, <1>9, <1>10, <1>11 DEF Next

\* The invariant holds always.
LEMMA Invariance == Spec => []IInv
<1>1. Init => IInv
  BY DEF Init, IInv, TypeOK, BookKeeping, UniqueAddress, RowOwnership, NoDbId
<1> QED
  BY <1>1, NextInv, PTL DEF Spec

\* The state of the room service always has its type, and no room id or row id is
\* given out twice.
THEOREM RoomsConsistent == Spec => []Consistent
<1>1. IInv => Consistent
  BY DEF IInv, Consistent
<1> QED
  BY <1>1, Invariance, PTL

\* At most one room in memory has any given address.
THEOREM AddressesUnique == Spec => []UniqueAddress
<1>1. IInv => UniqueAddress
  BY DEF IInv
<1> QED
  BY <1>1, Invariance, PTL

\* No vector of any room holds an avatar twice, so erasing one element is
\* erasing the avatar.
THEOREM VectorsWithoutDuplicates == Spec => []NoDuplicates
<1>1. IInv => NoDuplicates
  BY DEF IInv, NoDuplicates, RoomOK
<1> QED
  BY <1>1, Invariance, PTL

\* A row id in memory means the room's own row.
THEOREM RowsOwned == Spec => []RowOwnership
<1>1. IInv => RowOwnership
  BY DEF IInv
<1> QED
  BY <1>1, Invariance, PTL

\* A reloaded room never has staff, bans or invitations again.
THEOREM ReloadedRoomsUnstaffed == Spec => []ReloadedUnstaffed
<1>1. IInv => ReloadedUnstaffed
  BY DEF IInv, ReloadedUnstaffed, RoomOK
<1> QED
  BY <1>1, Invariance, PTL

-----------------------------------------------------------------------------
(***************************************************************************)
(* Action properties.                                                      *)
(***************************************************************************)
\* What a step does to the list and the table, forgetting the lists inside
\* the rooms.
LEMMA StepShape ==
    ASSUME IInv, [Next]_vars
    PROVE  \/ \E addr \in Address : DestroyRoom(addr)
           \/ /\ roomTable \subseteq roomTable'
              /\ \A s \in rooms' :
                    \/ s.id >= nextRoomId
                    \/ \E r \in rooms : r.id = s.id /\ r.addr = s.addr /\ r.creator = s.creator
<1> DEFINE Kin(s) == \E r \in rooms : r.id = s.id /\ r.addr = s.addr /\ r.creator = s.creator
           Goal == /\ roomTable \subseteq roomTable'
                   /\ \A s \in rooms' : s.id >= nextRoomId \/ Kin(s)
<1>0. nextRoomId \in Nat /\ \A r \in rooms : r \in Room /\ RoomOK(r)
  BY DEF IInv, TypeOK
<1>1. ASSUME NEW r \in rooms, NEW s, Changed(r, s), SameRoom(r, s)
      PROVE  Goal
  BY <1>1 DEF Changed, SameRoom
<1>2. Crash => Goal
  BY DEF Crash
<1>3. ASSUME NEW a \in Avatar, NEW addr \in Address, NEW kind \in Kind,
             CreateRoom(a, addr, kind)
      PROVE  Goal
  <2> DEFINE room == NewRoom(nextRoomId, addr, a, kind.attributes, kind.locked)
  <2>1. room \in Room /\ room.id = nextRoomId
    BY <1>0, NewRoomOK DEF NewRoom
  <2>2. roomTable \subseteq roomTable' /\
        \E s \in {room} \cup {[room EXCEPT !.dbId = d] : d \in Nat} : rooms' = rooms \cup {s}
    BY <1>3, <1>0 DEF CreateRoom, PersistNewRoom, IInv, TypeOK, NoDbId
  <2> HIDE DEF room
  <2>3. \A s \in {room} \cup {[room EXCEPT !.dbId = d] : d \in Nat} : s.id = nextRoomId
    BY <2>1 DEF Room
  <2> QED
    BY <2>2, <2>3, <1>0
<1>4. ASSUME NEW a \in Avatar, NEW addr \in Address, NEW pw \in BOOLEAN,
             EnterRoom(a, addr, pw) \/ LeaveRoom(a, addr)
      PROVE  Goal
  BY <1>0, <1>1, <1>4, EnteredOK, LeftOK DEF EnterRoom, LeaveRoom, RoomsAt
<1>5. ASSUME NEW addr \in Address, SendRoomMessage(addr)
      PROVE  Goal
  <2>1. PICK r \in rooms : Changed(r, [r EXCEPT !.messageId = @ + 1])
    BY <1>5 DEF SendRoomMessage, RoomsAt
  <2>2. SameRoom(r, [r EXCEPT !.messageId = @ + 1])
    BY <1>0 DEF SameRoom, Room
  <2> QED
    BY <2>1, <2>2, <1>1
<1>6. ASSUME NEW a \in Avatar, LogoutAvatar(a)
      PROVE  Goal
  BY <1>0, <1>6, LeftOK DEF LogoutAvatar, SameRoom
<1>7. ASSUME NEW node \in Node, LoginSystemAvatar(node)
      PROVE  Goal
  <2>1. PICK next \in nextRoomId..MaxRoomId :
          \E read \in [nextRoomId..(next - 1) -> Matching(node)] :
              /\ rooms' = {LoadedRoom(i, read[i]) : i \in Kept(read)}
              /\ UNCHANGED roomTable
    BY <1>7 DEF LoginSystemAvatar, LoadRoomsFromStorage
  <2>2. PICK read \in [nextRoomId..(next - 1) -> Matching(node)] :
              /\ rooms' = {LoadedRoom(i, read[i]) : i \in Kept(read)}
              /\ UNCHANGED roomTable
    BY <2>1
  <2>3. \A i \in Kept(read) : LoadedRoom(i, read[i]).id = i /\ i >= nextRoomId
    BY <1>0, ChatRoomServiceAssumption DEF Kept, LoadedRoom
  <2> QED
    BY <2>2, <2>3
<1>8. ASSUME NEW src \in Avatar, NEW a \in Avatar, NEW addr \in Address,
             \/ KickAvatar(src, a, addr)
             \/ AddModerator(src, a, addr) \/ RemoveModerator(src, a, addr)
             \/ AddBan(src, a, addr) \/ RemoveBan(src, a, addr)
             \/ AddInvite(src, a, addr) \/ RemoveInvite(src, a, addr)
      PROVE  Goal
  <2>1. \A r \in rooms :
          /\ SameRoom(r, Left(r, a))
          /\ SameRoom(r, WithModerator(r, a)) /\ SameRoom(r, WithBan(r, a))
          /\ SameRoom(r, WithInvite(r, a))
    <3>1. \A v \in Vector : PushBack(v, a) \in Vector
      BY DEF Vector, PushBack
    <3> QED
      BY <1>0, <3>1, LeftOK DEF SameRoom, Room, WithModerator, WithBan, WithInvite
  <2>2. CASE KickAvatar(src, a, addr)
    BY <1>1, <2>1, <2>2 DEF KickAvatar, RoomsAt
  <2>3. CASE AddModerator(src, a, addr) \/ AddBan(src, a, addr) \/ AddInvite(src, a, addr)
    BY <1>1, <1>2, <2>1, <2>3 DEF AddModerator, AddBan, AddInvite, RoomsAt
  <2>4. CASE \/ RemoveModerator(src, a, addr) \/ RemoveBan(src, a, addr)
             \/ RemoveInvite(src, a, addr)
    BY <1>0, <1>1, <2>4, RemovedOK DEF RemoveModerator, RemoveBan, RemoveInvite, RoomsAt,
       MayRemoveModerator, MayRemoveBanned, MayRemoveInvite
  <2> QED
    BY <1>8, <2>2, <2>3, <2>4
<1>9. CASE UNCHANGED vars
  BY <1>9 DEF vars
<1> HIDE DEF Goal
<1>10. ASSUME Next
       PROVE  Goal \/ \E addr \in Address : DestroyRoom(addr)
  <2>1. \A a \in Avatar, addr \in Address :
          /\ \A kind \in Kind : CreateRoom(a, addr, kind) => Goal
          /\ \A pw \in BOOLEAN : EnterRoom(a, addr, pw) => Goal
          /\ LeaveRoom(a, addr) => Goal
    BY <1>3, <1>4
  <2>2. \A src, a \in Avatar, addr \in Address :
          \/ KickAvatar(src, a, addr)
          \/ AddModerator(src, a, addr) \/ RemoveModerator(src, a, addr)
          \/ AddBan(src, a, addr) \/ RemoveBan(src, a, addr)
          \/ AddInvite(src, a, addr) \/ RemoveInvite(src, a, addr)
          => Goal
    BY <1>8
  <2> QED
    BY <1>2, <1>5, <1>6, <1>7, <1>10, <2>1, <2>2 DEF Next
<1> QED
  BY <1>9, <1>10 DEF Goal

\* A room id never changes its meaning while the process lives.
THEOREM RoomIdsStable == Spec => RoomIdsKeepMeaning
<1> DEFINE Keeps == \A s \in rooms' : s.id < nextRoomId =>
               \E r \in rooms : r.id = s.id /\ r.addr = s.addr /\ r.creator = s.creator
<1>1. ASSUME IInv, [Next]_vars
      PROVE  Keeps
  <2>1. rooms \subseteq Room /\ nextRoomId \in Nat
    BY <1>1 DEF IInv, TypeOK
  <2>2. rooms' \subseteq Room
    BY <1>1, NextInv DEF IInv, TypeOK
  <2>3. CASE \E addr \in Address : DestroyRoom(addr)
    <3>1. rooms' \subseteq rooms
      BY <2>3 DEF DestroyRoom
    <3> QED
      BY <3>1
  <2>4. CASE \A s \in rooms' :
               \/ s.id >= nextRoomId
               \/ \E r \in rooms : r.id = s.id /\ r.addr = s.addr /\ r.creator = s.creator
    <3>1. \A s \in rooms' : s.id \in Nat
      BY <2>2 DEF Room
    <3> QED
      BY <2>1, <2>4, <3>1
  <2> QED
    BY <1>1, <2>3, <2>4, StepShape
<1>2. IInv /\ [Next]_vars => [Keeps]_vars
  BY <1>1
<1> QED
  BY <1>2, Invariance, PTL DEF Spec, RoomIdsKeepMeaning

\* A row leaves the table only with the room it was written for.
THEOREM RowsKept == Spec => RowsGoWithTheirRoom
<1>1. ASSUME IInv, [Next]_vars
      PROVE  \A row \in roomTable \ roomTable' :
               \E r \in rooms : r.dbId = row.dbId /\ r.addr = row.addr
  <2>1. CASE \E addr \in Address : DestroyRoom(addr)
    <3>1. PICK r \in rooms : roomTable' = roomTable
                            \/ roomTable' = {row \in roomTable : row.dbId # r.dbId}
      BY <2>1 DEF DestroyRoom, DeleteRoom, RoomsAt
    <3> QED
      BY <1>1, <3>1 DEF IInv, RowOwnership
  <2> QED
    BY <1>1, <2>1, StepShape
<1> QED
  BY <1>1, Invariance, PTL DEF Spec, RowsGoWithTheirRoom

-----------------------------------------------------------------------------
(***************************************************************************)
(* The refinement of RoomDirectory, step by step.                          *)
(***************************************************************************)
\* The directory that the rooms make up.
Dir == [addr \in Address |->
          IF RoomExists(addr)
          THEN RosterOf(CHOOSE r \in rooms : r.addr = addr)
          ELSE NoRoom]

\* What is at an address is the one room there, if any.
DirShape ==
    /\ DOMAIN Dir = Address
    /\ \A r \in rooms : r.addr \in Address /\ Dir[r.addr] = RosterOf(r)
    /\ \A addr \in Address : ~RoomExists(addr) => Dir[addr] = NoRoom

\* The directory that the rooms stand for has its type, now
LEMMA DirNow == IInv => DirShape
  BY DEF IInv, TypeOK, Room, UniqueAddress, DirShape, Dir, RoomExists

\* and after a step.
LEMMA DirNext == IInv' => DirShape'
  BY DirNow, PTL

\* A roster is not what stands for an absent room.
LEMMA RosterPresent == ASSUME NEW r PROVE RosterOf(r) # NoRoom
<1>1. "creator" \in DOMAIN RosterOf(r) /\ "creator" \notin DOMAIN NoRoom
  BY DEF RosterOf, NoRoom
<1> QED  BY <1>1

\* Two functions on the addresses that agree everywhere are the same.
LEMMA SameDir ==
    ASSUME IInv, IInv', \A addr \in Address : Dir'[addr] = Dir[addr]
    PROVE  Dir' = Dir
  BY DirNow, DirNext DEF DirShape, Dir

\* A method changes the directory at the address of its room only.
LEMMA ChangedDir ==
    ASSUME IInv, IInv', NEW r \in rooms, NEW s, SameRoom(r, s), Changed(r, s)
    PROVE  /\ r.addr \in Address /\ RoomExists(r.addr)
           /\ Dir[r.addr] = RosterOf(r) /\ Dir'[r.addr] = RosterOf(s)
           /\ \A other \in Address \ {r.addr} : Dir'[other] = Dir[other]
<1>1. rooms' = (rooms \ {r}) \cup {s} /\ s.addr = r.addr
  BY DEF Changed, SameRoom
<1>2. r.addr \in Address /\ RoomExists(r.addr) /\ Dir[r.addr] = RosterOf(r)
  BY DirNow DEF DirShape, RoomExists
<1>3. Dir'[r.addr] = RosterOf(s)
  BY <1>1, DirNext DEF DirShape
<1>4. ASSUME NEW other \in Address, other # r.addr
      PROVE  Dir'[other] = Dir[other]
  <2>1. CASE RoomExists(other)
    <3>1. PICK t \in rooms : t.addr = other
      BY <2>1 DEF RoomExists
    <3>2. t \in rooms'
      BY <1>1, <1>4, <3>1
    <3>3. Dir[other] = RosterOf(t) /\ Dir'[other] = RosterOf(t)'
      BY <3>1, <3>2, DirNow, DirNext DEF DirShape
    <3> QED  BY <3>3 DEF RosterOf, Elements
  <2>2. CASE ~RoomExists(other)
    <3>1. ~RoomExists(other)'
      BY <1>1, <1>4, <2>2 DEF RoomExists
    <3> QED  BY <1>4, <2>2, <3>1, DirNow, DirNext DEF DirShape, NoRoom
  <2> QED  BY <2>1, <2>2
<1> QED  BY <1>2, <1>3, <1>4

\* Vectors as sets.
LEMMA Pushed ==
    ASSUME NEW v \in Vector, NEW a \in Avatar
    PROVE  Elements(PushBack(v, a)) = Elements(v) \cup {a}
  BY DEF Vector, PushBack, Elements, Contains

\* Where a list holds nobody twice, erasing one occurrence takes the avatar out.
LEMMA Erased ==
    ASSUME NEW v \in Vector, NEW a \in Avatar, Contains(v, a), \A b \in Avatar : v[b] <= 1
    PROVE  Elements(Erase(v, a)) = Elements(v) \ {a}
  BY EraseOnce DEF Elements

\* The step of a method, at the address of its room.
LEMMA BecomeDir ==
    ASSUME IInv, IInv', NEW r \in rooms, NEW s, SameRoom(r, s), Changed(r, s)
    PROVE  /\ r.addr \in Address /\ Directory!Present(r.addr)
           /\ Dir[r.addr] = RosterOf(r)
           /\ Directory!Become(r.addr, RosterOf(s))
<1>1. r.addr \in Address /\ Dir[r.addr] = RosterOf(r) /\ Dir'[r.addr] = RosterOf(s)
      /\ \A other \in Address \ {r.addr} : Dir'[other] = Dir[other]
  BY ChangedDir
<1>2. Dir[r.addr] # NoRoom
  BY <1>1, RosterPresent
<1> QED  BY <1>1, <1>2 DEF Directory!Become, Directory!Present, Directory!Absent, Dir, NoRoom

\* EnterRoom is Enter.
LEMMA EnterDir ==
    ASSUME IInv, IInv', NEW a \in Avatar, NEW addr \in Address, NEW pw \in BOOLEAN,
           EnterRoom(a, addr, pw)
    PROVE  Directory!Present(addr) /\ Directory!Enter(addr, a, pw)
<1>1. PICK r \in rooms : r.addr = addr /\ Admits(r, a, pw) /\ Changed(r, Entered(r, a))
  BY DEF EnterRoom, RoomsAt
<1>2. r \in Room /\ RoomOK(r) /\ r.avatars \in Vector
  BY DEF IInv, TypeOK, Room
<1>3. SameRoom(r, Entered(r, a))
  BY <1>1, <1>2, EnteredOK
<1>4. /\ addr \in Address /\ Directory!Present(addr) /\ Dir[addr] = RosterOf(r)
      /\ Directory!Become(addr, RosterOf(Entered(r, a)))
  BY <1>1, <1>3, BecomeDir
<1>5. Elements(PushBack(r.avatars, a)) = Elements(r.avatars) \cup {a}
  BY <1>2, Pushed
<1>6. RosterOf(Entered(r, a)) = [RosterOf(r) EXCEPT !.members = @ \cup {a}]
  BY <1>2, <1>5 DEF RosterOf, Entered, Room
<1>7. /\ a \notin RosterOf(r).banned \cup RosterOf(r).members
      /\ RosterOf(r).kind.locked => pw
      /\ "PRIVATE" \in RosterOf(r).kind.attributes =>
            a \in RosterOf(r).invited \cup {RosterOf(r).creator}
  BY <1>1 DEF RosterOf, Admits, IsInRoom, IsBanned, IsInvited, IsPrivate, IsCreator, Elements
<1> QED  BY <1>4, <1>6, <1>7 DEF Directory!Enter, Dir, NoRoom

\* Who leaves a room is not among its members.
LEMMA LeftRoster ==
    ASSUME NEW r \in Room, RoomOK(r), NEW a \in Avatar
    PROVE  RosterOf(Left(r, a)) = [RosterOf(r) EXCEPT !.members = @ \ {a}]
<1>1. r.avatars \in Vector /\ \A b \in Avatar : r.avatars[b] <= 1
  BY DEF Room, RoomOK
<1>2. CASE IsInRoom(r, a)
  <2>1. Elements(Erase(r.avatars, a)) = Elements(r.avatars) \ {a}
    BY <1>1, <1>2, Erased DEF IsInRoom
  <2> QED  BY <1>2, <2>1 DEF Left, RosterOf, Room
<1>3. CASE ~IsInRoom(r, a)
  <2>1. Elements(r.avatars) \ {a} = Elements(r.avatars)
    BY <1>3 DEF Elements, IsInRoom
  <2> QED  BY <1>3, <2>1 DEF Left, RosterOf
<1> QED  BY <1>2, <1>3

\* A step after which a room is Left, by one method or in all rooms, is Depart.
LEMMA DepartDir ==
    ASSUME IInv, IInv', NEW a \in Avatar, NEW S \in SUBSET Address,
           rooms' = {IF r.addr \in S THEN Left(r, a) ELSE r : r \in rooms}
    PROVE  Directory!Depart(a, S)
<1>1. \A r \in rooms : r \in Room /\ RoomOK(r) /\ r.addr \in Address
  BY DEF IInv, TypeOK, Room
<1>2. \A r \in rooms : Left(r, a).addr = r.addr
  BY <1>1, LeftOK DEF SameRoom
<1>3. \A addr \in Address : RoomExists(addr)' <=> RoomExists(addr)
  <2>1. \A addr \in Address : RoomExists(addr) => RoomExists(addr)'
    BY <1>2 DEF RoomExists
  <2>2. \A addr \in Address : RoomExists(addr)' => RoomExists(addr)
    BY <1>2 DEF RoomExists
  <2> QED  BY <2>1, <2>2
<1>4. ASSUME NEW addr \in Address
      PROVE  Dir'[addr] = IF addr \in S /\ Dir[addr] # NoRoom
                          THEN [Dir[addr] EXCEPT !.members = @ \ {a}] ELSE Dir[addr]
  <2>1. CASE RoomExists(addr)
    <3>1. PICK r \in rooms : r.addr = addr
      BY <2>1 DEF RoomExists
    <3> DEFINE s == IF r.addr \in S THEN Left(r, a) ELSE r
    <3>2. s \in rooms' /\ s.addr = addr
      BY <1>2, <3>1
    <3>3. RosterOf(s) = IF addr \in S THEN [RosterOf(r) EXCEPT !.members = @ \ {a}]
                        ELSE RosterOf(r)
      BY <1>1, <3>1, LeftRoster
    <3>4. Dir[addr] = RosterOf(r) /\ Dir[addr] # NoRoom
      BY <3>1, DirNow, RosterPresent DEF DirShape
    <3>5. \A t \in rooms' : Dir'[t.addr] = RosterOf(t)
      BY DirNext DEF DirShape
    <3> HIDE DEF s
    <3>6. Dir'[addr] = RosterOf(s)
      BY <3>2, <3>5
    <3> QED  BY <3>3, <3>4, <3>6
  <2>2. CASE ~RoomExists(addr)
    <3>1. Dir[addr] = NoRoom /\ Dir'[addr] = NoRoom
      BY <1>3, <2>2, DirNow, DirNext DEF DirShape, NoRoom
    <3> QED  BY <3>1
  <2> QED  BY <2>1, <2>2
<1>5. Dir' = [addr \in Address |-> IF addr \in S /\ Dir[addr] # NoRoom
                                   THEN [Dir[addr] EXCEPT !.members = @ \ {a}] ELSE Dir[addr]]
  <2>1. DOMAIN Dir' = Address /\ Dir' = [addr \in Address |-> Dir'[addr]]
    BY DEF Dir
  <2> HIDE DEF Dir
  <2> QED  BY <1>4, <2>1
<1> QED
  BY <1>5 DEF Directory!Depart, Directory!Present, Directory!Absent, NoRoom, Dir

\* So LeaveRoom, KickAvatar and LogoutAvatar are.
LEMMA LeavingDir ==
    ASSUME IInv, IInv', NEW a \in Avatar, NEW r \in rooms, Changed(r, Left(r, a))
    PROVE  \E S \in SUBSET Address : Directory!Depart(a, S)
<1>1. r.addr \in Address
  BY DEF IInv, TypeOK, Room
<1>2. \A t \in rooms : t.addr \in {r.addr} <=> t = r
  BY DEF IInv, UniqueAddress
<1>3. rooms' = {IF t.addr \in {r.addr} THEN Left(t, a) ELSE t : t \in rooms}
  BY <1>2 DEF Changed
<1> QED  BY <1>1, <1>3, DepartDir

\* A changed list shows in the roster, and nothing else does.
LEMMA RosterOfList ==
    ASSUME NEW r \in Room, NEW v
    PROVE  /\ RosterOf([r EXCEPT !.moderators = v]) = [RosterOf(r) EXCEPT !.moderators = Elements(v)]
           /\ RosterOf([r EXCEPT !.banned = v]) = [RosterOf(r) EXCEPT !.banned = Elements(v)]
           /\ RosterOf([r EXCEPT !.invited = v]) = [RosterOf(r) EXCEPT !.invited = Elements(v)]
           /\ RosterOf(r).moderators = Elements(r.moderators)
           /\ RosterOf(r).banned = Elements(r.banned)
           /\ RosterOf(r).invited = Elements(r.invited)
           /\ RosterOf(r).creator = r.creator
  BY DEF Room, RosterOf

\* Staff, bans and invitations are what the directory calls them.
LEMMA StaffDir ==
    ASSUME IInv, IInv', NEW src \in Avatar, NEW a \in Avatar, NEW r \in rooms, NEW s,
           Changed(r, s)
    PROVE  /\ MayAddModerator(r, src, a) /\ r.service /\ s = WithModerator(r, a) =>
                 Directory!Appoint(r.addr, src, a)
           /\ MayRemoveModerator(r, src, a) /\ s = WithoutModerator(r, a) =>
                 Directory!Dismiss(r.addr, src, a)
           /\ MayAddBanned(r, src, a) /\ r.service /\ s = WithBan(r, a) =>
                 Directory!Ban(r.addr, src, a)
           /\ MayRemoveBanned(r, src, a) /\ s = WithoutBan(r, a) =>
                 Directory!Pardon(r.addr, src, a)
           /\ MayAddInvite(r, src, a) /\ r.service /\ s = WithInvite(r, a) =>
                 Directory!Invite(r.addr, src, a)
           /\ MayRemoveInvite(r, src, a) /\ s = WithoutInvite(r, a) =>
                 Directory!Uninvite(r.addr, src, a)
<1>1. /\ r \in Room /\ RoomOK(r)
      /\ r.moderators \in Vector /\ r.banned \in Vector /\ r.invited \in Vector
      /\ \A b \in Avatar : r.moderators[b] <= 1
      /\ \A b \in Avatar : r.banned[b] <= 1
      /\ \A b \in Avatar : r.invited[b] <= 1
  BY DEF IInv, TypeOK, Room, RoomOK
<1>2. ASSUME SameRoom(r, s)
      PROVE  Dir[r.addr] = RosterOf(r) /\ Directory!Become(r.addr, RosterOf(s))
  BY <1>2, BecomeDir
<1>3. MayAddModerator(r, src, a) /\ r.service /\ s = WithModerator(r, a) =>
         Directory!Appoint(r.addr, src, a)
  <2> SUFFICES ASSUME MayAddModerator(r, src, a), r.service, s = WithModerator(r, a)
               PROVE  Directory!Appoint(r.addr, src, a)
    OBVIOUS
  <2>1. SameRoom(r, s)
    BY <1>1, AddedOK DEF MayAddModerator
  <2>2. RosterOf(s) = [RosterOf(r) EXCEPT !.moderators = @ \cup {a}]
    <3>1. Elements(PushBack(r.moderators, a)) = Elements(r.moderators) \cup {a}
      BY <1>1, Pushed DEF MayAddModerator, IsModerator
    <3> DEFINE v == PushBack(r.moderators, a)
    <3>2. s = [r EXCEPT !.moderators = v] /\ Elements(v) = Elements(r.moderators) \cup {a}
      BY <3>1 DEF WithModerator
    <3> HIDE DEF v
    <3>3. RosterOf([r EXCEPT !.moderators = v]) = [RosterOf(r) EXCEPT !.moderators = Elements(v)]
      BY <1>1, RosterOfList
    <3>4. RosterOf(r).moderators = Elements(r.moderators)
      BY <1>1, RosterOfList
    <3> QED  BY <3>2, <3>3, <3>4
  <2>3. src = RosterOf(r).creator
    BY <1>1, RosterOfList DEF MayAddModerator, IsCreator
  <2> QED  BY <1>2, <2>1, <2>2, <2>3 DEF Directory!Appoint, Dir, NoRoom
<1>4. MayRemoveModerator(r, src, a) /\ s = WithoutModerator(r, a) =>
         Directory!Dismiss(r.addr, src, a)
  <2> SUFFICES ASSUME MayRemoveModerator(r, src, a), s = WithoutModerator(r, a)
               PROVE  Directory!Dismiss(r.addr, src, a)
    OBVIOUS
  <2>1. SameRoom(r, s)
    BY <1>1, RemovedOK DEF MayRemoveModerator
  <2>2. RosterOf(s) = [RosterOf(r) EXCEPT !.moderators = @ \ {a}]
    <3>1. Elements(Erase(r.moderators, a)) = Elements(r.moderators) \ {a}
      BY <1>1, Erased DEF MayRemoveModerator, IsModerator
    <3> DEFINE v == Erase(r.moderators, a)
    <3>2. s = [r EXCEPT !.moderators = v] /\ Elements(v) = Elements(r.moderators) \ {a}
      BY <3>1 DEF WithoutModerator
    <3> HIDE DEF v
    <3>3. RosterOf([r EXCEPT !.moderators = v]) = [RosterOf(r) EXCEPT !.moderators = Elements(v)]
      BY <1>1, RosterOfList
    <3>4. RosterOf(r).moderators = Elements(r.moderators)
      BY <1>1, RosterOfList
    <3> QED  BY <3>2, <3>3, <3>4
  <2>3. src = RosterOf(r).creator
    BY <1>1, RosterOfList DEF MayRemoveModerator, IsCreator
  <2> QED  BY <1>2, <2>1, <2>2, <2>3 DEF Directory!Dismiss, Dir, NoRoom
<1>5. MayAddBanned(r, src, a) /\ r.service /\ s = WithBan(r, a) =>
         Directory!Ban(r.addr, src, a)
  <2> SUFFICES ASSUME MayAddBanned(r, src, a), r.service, s = WithBan(r, a)
               PROVE  Directory!Ban(r.addr, src, a)
    OBVIOUS
  <2>1. SameRoom(r, s)
    BY <1>1, AddedOK DEF MayAddBanned
  <2>2. RosterOf(s) = [RosterOf(r) EXCEPT !.banned = @ \cup {a}]
    <3>1. Elements(PushBack(r.banned, a)) = Elements(r.banned) \cup {a}
      BY <1>1, Pushed DEF MayAddBanned, IsBanned
    <3> DEFINE v == PushBack(r.banned, a)
    <3>2. s = [r EXCEPT !.banned = v] /\ Elements(v) = Elements(r.banned) \cup {a}
      BY <3>1 DEF WithBan
    <3> HIDE DEF v
    <3>3. RosterOf([r EXCEPT !.banned = v]) = [RosterOf(r) EXCEPT !.banned = Elements(v)]
      BY <1>1, RosterOfList
    <3>4. RosterOf(r).banned = Elements(r.banned)
      BY <1>1, RosterOfList
    <3> QED  BY <3>2, <3>3, <3>4
  <2>3. src \in RosterOf(r).moderators
    BY <1>1, RosterOfList DEF MayAddBanned, IsModerator, Elements
  <2> QED  BY <1>2, <2>1, <2>2, <2>3 DEF Directory!Ban, Dir, NoRoom
<1>6. MayRemoveBanned(r, src, a) /\ s = WithoutBan(r, a) =>
         Directory!Pardon(r.addr, src, a)
  <2> SUFFICES ASSUME MayRemoveBanned(r, src, a), s = WithoutBan(r, a)
               PROVE  Directory!Pardon(r.addr, src, a)
    OBVIOUS
  <2>1. SameRoom(r, s)
    BY <1>1, RemovedOK DEF MayRemoveBanned
  <2>2. RosterOf(s) = [RosterOf(r) EXCEPT !.banned = @ \ {a}]
    <3>1. Elements(Erase(r.banned, a)) = Elements(r.banned) \ {a}
      BY <1>1, Erased DEF MayRemoveBanned, IsBanned
    <3> DEFINE v == Erase(r.banned, a)
    <3>2. s = [r EXCEPT !.banned = v] /\ Elements(v) = Elements(r.banned) \ {a}
      BY <3>1 DEF WithoutBan
    <3> HIDE DEF v
    <3>3. RosterOf([r EXCEPT !.banned = v]) = [RosterOf(r) EXCEPT !.banned = Elements(v)]
      BY <1>1, RosterOfList
    <3>4. RosterOf(r).banned = Elements(r.banned)
      BY <1>1, RosterOfList
    <3> QED  BY <3>2, <3>3, <3>4
  <2>3. src \in RosterOf(r).moderators
    BY <1>1, RosterOfList DEF MayRemoveBanned, IsModerator, Elements
  <2> QED  BY <1>2, <2>1, <2>2, <2>3 DEF Directory!Pardon, Dir, NoRoom
<1>7. MayAddInvite(r, src, a) /\ r.service /\ s = WithInvite(r, a) =>
         Directory!Invite(r.addr, src, a)
  <2> SUFFICES ASSUME MayAddInvite(r, src, a), r.service, s = WithInvite(r, a)
               PROVE  Directory!Invite(r.addr, src, a)
    OBVIOUS
  <2>1. SameRoom(r, s)
    BY <1>1, AddedOK DEF MayAddInvite
  <2>2. RosterOf(s) = [RosterOf(r) EXCEPT !.invited = @ \cup {a}]
    <3>1. Elements(PushBack(r.invited, a)) = Elements(r.invited) \cup {a}
      BY <1>1, Pushed DEF MayAddInvite, IsInvited
    <3> DEFINE v == PushBack(r.invited, a)
    <3>2. s = [r EXCEPT !.invited = v] /\ Elements(v) = Elements(r.invited) \cup {a}
      BY <3>1 DEF WithInvite
    <3> HIDE DEF v
    <3>3. RosterOf([r EXCEPT !.invited = v]) = [RosterOf(r) EXCEPT !.invited = Elements(v)]
      BY <1>1, RosterOfList
    <3>4. RosterOf(r).invited = Elements(r.invited)
      BY <1>1, RosterOfList
    <3> QED  BY <3>2, <3>3, <3>4
  <2>3. src \in RosterOf(r).moderators
    BY <1>1, RosterOfList DEF MayAddInvite, IsModerator, Elements
  <2> QED  BY <1>2, <2>1, <2>2, <2>3 DEF Directory!Invite, Dir, NoRoom
<1>8. MayRemoveInvite(r, src, a) /\ s = WithoutInvite(r, a) =>
         Directory!Uninvite(r.addr, src, a)
  <2> SUFFICES ASSUME MayRemoveInvite(r, src, a), s = WithoutInvite(r, a)
               PROVE  Directory!Uninvite(r.addr, src, a)
    OBVIOUS
  <2>1. SameRoom(r, s)
    BY <1>1, RemovedOK DEF MayRemoveInvite
  <2>2. RosterOf(s) = [RosterOf(r) EXCEPT !.invited = @ \ {a}]
    <3>1. Elements(Erase(r.invited, a)) = Elements(r.invited) \ {a}
      BY <1>1, Erased DEF MayRemoveInvite, IsInvited
    <3> DEFINE v == Erase(r.invited, a)
    <3>2. s = [r EXCEPT !.invited = v] /\ Elements(v) = Elements(r.invited) \ {a}
      BY <3>1 DEF WithoutInvite
    <3> HIDE DEF v
    <3>3. RosterOf([r EXCEPT !.invited = v]) = [RosterOf(r) EXCEPT !.invited = Elements(v)]
      BY <1>1, RosterOfList
    <3>4. RosterOf(r).invited = Elements(r.invited)
      BY <1>1, RosterOfList
    <3> QED  BY <3>2, <3>3, <3>4
  <2>3. src \in RosterOf(r).moderators
    BY <1>1, RosterOfList DEF MayRemoveInvite, IsModerator, Elements
  <2> QED  BY <1>2, <2>1, <2>2, <2>3 DEF Directory!Uninvite, Dir, NoRoom
<1> QED  BY <1>3, <1>4, <1>5, <1>6, <1>7, <1>8

\* CreateRoom is Open.
LEMMA CreateDir ==
    ASSUME IInv, IInv', NEW a \in Avatar, NEW addr \in Address, NEW kind \in Kind,
           CreateRoom(a, addr, kind)
    PROVE  Directory!Open(addr, a, kind)
<1> DEFINE room == NewRoom(nextRoomId, addr, a, kind.attributes, kind.locked)
<1>1. nextRoomId \in Nat /\ room \in Room
  BY NewRoomOK DEF IInv, TypeOK
<1>2. PICK s \in {room} \cup {[room EXCEPT !.dbId = d] : d \in Nat} :
         rooms' = rooms \cup {s}
  BY DEF CreateRoom, PersistNewRoom, IInv, TypeOK, NoDbId
<1>3. RosterOf(room) = Directory!Fresh(a, kind)
  <2>1. Elements(EmptyVector) = {} /\ EmptyVector \in Vector
    BY DEF Elements, EmptyVector, Contains, Vector
  <2>2. Elements(PushBack(EmptyVector, a)) = {a}
    BY <2>1, Pushed
  <2>3. kind = [attributes |-> kind.attributes, locked |-> kind.locked]
    BY ChatRoomServiceAssumption
  <2> QED  BY <2>1, <2>2, <2>3 DEF RosterOf, NewRoom, Directory!Fresh
<1>4. room.addr = addr
  BY DEF NewRoom
<1> HIDE DEF room
<1>5. s.addr = addr /\ RosterOf(s) = RosterOf(room)
  BY <1>1, <1>2, <1>4 DEF Room, RosterOf
<1>6. ~RoomExists(addr)
  BY DEF CreateRoom
<1>7. Dir[addr] = NoRoom /\ Dir'[addr] = RosterOf(s)
  BY <1>2, <1>5, <1>6, DirNow, DirNext DEF DirShape
<1>8. \A other \in Address \ {addr} : Dir'[other] = Dir[other]
  <2> SUFFICES ASSUME NEW other \in Address, other # addr PROVE Dir'[other] = Dir[other]
    OBVIOUS
  <2>1. CASE RoomExists(other)
    <3>1. PICK t \in rooms : t.addr = other
      BY <2>1 DEF RoomExists
    <3>2. Dir[other] = RosterOf(t) /\ Dir'[other] = RosterOf(t)'
      BY <1>2, <3>1, DirNow, DirNext DEF DirShape
    <3> QED  BY <3>2 DEF RosterOf, Elements
  <2>2. CASE ~RoomExists(other)
    <3>1. ~RoomExists(other)'
      BY <1>2, <1>5, <2>2 DEF RoomExists
    <3> QED  BY <2>2, <3>1, DirNow, DirNext DEF DirShape, NoRoom
  <2> QED  BY <2>1, <2>2
<1> QED
  BY <1>3, <1>5, <1>7, <1>8
  DEF Directory!Open, Directory!Present, Directory!Become, Directory!Absent, Dir, NoRoom

\* DestroyRoom is Close, or changes no room if its answer is lost.
LEMMA DestroyDir ==
    ASSUME IInv, IInv', NEW addr \in Address, DestroyRoom(addr)
    PROVE  (Directory!Present(addr) /\ Directory!Close(addr)) \/ Dir' = Dir
<1>1. PICK r \in rooms : r.addr = addr /\ (rooms' = rooms \ {r} \/ rooms' = rooms)
  BY DEF DestroyRoom, RoomsAt
<1>2. CASE rooms' = rooms
  BY <1>2 DEF Dir, RoomExists, RosterOf, Elements, NoRoom
<1>3. CASE rooms' = rooms \ {r}
  <2>1. Dir[addr] = RosterOf(r) /\ Dir[addr] # NoRoom
    BY <1>1, DirNow, RosterPresent DEF DirShape
  <2>2. ~RoomExists(addr)'
    BY <1>1, <1>3 DEF IInv, UniqueAddress, RoomExists
  <2>3. Dir'[addr] = NoRoom
    BY <2>2, DirNext DEF DirShape, NoRoom
  <2>4. \A other \in Address \ {addr} : Dir'[other] = Dir[other]
    <3> SUFFICES ASSUME NEW other \in Address, other # addr PROVE Dir'[other] = Dir[other]
      OBVIOUS
    <3>1. CASE RoomExists(other)
      <4>1. PICK t \in rooms : t.addr = other
        BY <3>1 DEF RoomExists
      <4>2. t \in rooms'
        BY <1>1, <1>3, <4>1
      <4>3. Dir[other] = RosterOf(t) /\ Dir'[other] = RosterOf(t)'
        BY <4>1, <4>2, DirNow, DirNext DEF DirShape
      <4> QED  BY <4>3 DEF RosterOf, Elements
    <3>2. CASE ~RoomExists(other)
      <4>1. ~RoomExists(other)'
        BY <1>3, <3>2 DEF RoomExists
      <4> QED  BY <3>2, <4>1, DirNow, DirNext DEF DirShape, NoRoom
    <3> QED  BY <3>1, <3>2
  <2> QED
    BY <2>1, <2>3, <2>4
    DEF Directory!Close, Directory!Present, Directory!Become, Directory!Absent, Dir, NoRoom
<1> QED  BY <1>1, <1>2, <1>3

\* A crash is a reload of nothing.
LEMMA CrashDir == ASSUME Crash PROVE DOMAIN Dir' = Address /\ Directory!Reload
<1>1. Dir' = [addr \in Address |-> NoRoom]
  BY DEF Crash, Dir, RoomExists, NoRoom
<1> QED  BY <1>1 DEF Directory!Reload, Directory!Absent, Dir, NoRoom

\* Only rooms of a kind that was asked for are stored.
KindOf(x) == [attributes |-> x.attributes, locked |-> x.locked]

StoredKinds == \A row \in roomTable : KindOf(row) \in Kind

\* CreateRoom stores the kind it was given, and nothing else stores rows.
LEMMA StepKinds == ASSUME IInv, StoredKinds, [Next]_vars PROVE StoredKinds'
<1>1. ASSUME NEW a \in Avatar, NEW addr \in Address, NEW kind \in Kind,
             CreateRoom(a, addr, kind)
      PROVE  StoredKinds'
  <2> DEFINE room == NewRoom(nextRoomId, addr, a, kind.attributes, kind.locked)
  <2>1. roomTable' \subseteq roomTable \cup {RowOf(room, nextDbId)}
    BY <1>1 DEF CreateRoom, PersistNewRoom
  <2>2. KindOf(RowOf(room, nextDbId)) = kind
    BY ChatRoomServiceAssumption DEF KindOf, RowOf, NewRoom
  <2> QED  BY <2>1, <2>2 DEF StoredKinds, KindOf
<1>2. ASSUME roomTable' \subseteq roomTable PROVE StoredKinds'
  BY <1>2 DEF StoredKinds, KindOf
<1>3. ASSUME ~(\E a \in Avatar, addr \in Address, kind \in Kind : CreateRoom(a, addr, kind))
      PROVE  roomTable' \subseteq roomTable
  BY <1>3 DEF Next, vars, Changed, DestroyRoom, DeleteRoom, EnterRoom, LeaveRoom, KickAvatar,
     AddModerator, RemoveModerator, AddBan, RemoveBan, AddInvite, RemoveInvite, SendRoomMessage,
     LogoutAvatar, LoginSystemAvatar, LoadRoomsFromStorage, Crash
<1> QED  BY <1>1, <1>2, <1>3

\* A bare room.
LEMMA BareRoom ==
    ASSUME NEW a, NEW kind
    PROVE  Directory!Bare(a, kind) = [creator |-> a, kind |-> kind, members |-> {},
                                      moderators |-> {}, banned |-> {}, invited |-> {}]
  BY DEF Directory!Bare, Directory!Fresh

\* A SYSTEM login is a reload.
LEMMA LoadDir ==
    ASSUME IInv, IInv', StoredKinds, NEW node \in Node, LoadRoomsFromStorage(node)
    PROVE  DOMAIN Dir' = Address /\ Directory!Reload
<1>0. PICK next \in nextRoomId..MaxRoomId :
         \E read \in [nextRoomId..(next - 1) -> Matching(node)] :
            rooms' = {LoadedRoom(i, read[i]) : i \in Kept(read)}
  BY DEF LoadRoomsFromStorage
<1>1. PICK read \in [nextRoomId..(next - 1) -> Matching(node)] :
         rooms' = {LoadedRoom(i, read[i]) : i \in Kept(read)}
  BY <1>0
<1>2. \A i \in Kept(read) : read[i] \in roomTable
  BY <1>1 DEF Kept, Matching
<1>3. DOMAIN Dir' = Address /\ \A addr \in Address : ~RoomExists(addr)' => Dir'[addr] = NoRoom
  BY DirNext DEF DirShape, NoRoom
<1>4. ASSUME NEW addr \in Address, RoomExists(addr)'
      PROVE  \E a \in Avatar, kind \in Kind :
                "PERSISTENT" \in kind.attributes /\ Dir'[addr] = Directory!Bare(a, kind)
  <2>1. PICK i \in Kept(read) : LoadedRoom(i, read[i]).addr = addr
                                /\ LoadedRoom(i, read[i]) \in rooms'
    BY <1>1, <1>4 DEF RoomExists
  <2> DEFINE row == read[i]
  <2>2. row \in roomTable /\ row \in Row /\ "PERSISTENT" \in row.attributes
        /\ KindOf(row) \in Kind /\ row.creator \in Avatar
    BY <1>2, <2>1 DEF IInv, TypeOK, BookKeeping, StoredKinds, Row
  <2>3. Elements(EmptyVector) = {}
    BY DEF Elements, EmptyVector, Contains
  <2>4. \A r \in rooms' : Dir'[r.addr] = RosterOf(r)
    BY DirNext DEF DirShape, RosterOf, Elements
  <2> HIDE DEF row
  <2>5. RosterOf(LoadedRoom(i, row)) = Directory!Bare(row.creator, KindOf(row))
    <3> DEFINE bare == [creator |-> row.creator, kind |-> KindOf(row), members |-> {},
                        moderators |-> {}, banned |-> {}, invited |-> {}]
    <3>1. RosterOf(LoadedRoom(i, row)) = bare
      BY <2>3 DEF RosterOf, LoadedRoom, KindOf
    <3>2. Directory!Bare(row.creator, KindOf(row)) = bare
      BY BareRoom
    <3> QED  BY <3>1, <3>2
  <2>6. Dir'[addr] = Directory!Bare(row.creator, KindOf(row))
    BY <2>1, <2>4, <2>5 DEF row
  <2>7. "PERSISTENT" \in KindOf(row).attributes
    BY <2>2 DEF KindOf
  <2> QED  BY <2>2, <2>6, <2>7
<1>5. \A addr \in Address :
         \/ Dir'[addr] = NoRoom
         \/ \E a \in Avatar, kind \in Kind :
               "PERSISTENT" \in kind.attributes /\ Dir'[addr] = Directory!Bare(a, kind)
  BY <1>3, <1>4
<1> QED  BY <1>3, <1>5 DEF Directory!Reload, Directory!Absent, Dir, NoRoom

\* The directory steps of requests on the room at an address.
LEMMA MethodsDir ==
    ASSUME IInv, IInv', NEW src \in Avatar, NEW a \in Avatar, NEW addr \in Address,
           \/ KickAvatar(src, a, addr)
           \/ AddModerator(src, a, addr) \/ RemoveModerator(src, a, addr)
           \/ AddBan(src, a, addr) \/ RemoveBan(src, a, addr)
           \/ AddInvite(src, a, addr) \/ RemoveInvite(src, a, addr)
    PROVE  Directory!Next
<1>0. PICK r \in rooms : /\ r.addr = addr
                         /\ \/ KickAvatar(src, a, addr) /\ Changed(r, Left(r, a))
                            \/ Crash
                            \/ /\ MayAddModerator(r, src, a) /\ Changed(r, WithModerator(r, a))
                               /\ r.service \/ ~IsPersistent(r)
                            \/ /\ MayRemoveModerator(r, src, a)
                               /\ Changed(r, WithoutModerator(r, a))
                            \/ /\ MayAddBanned(r, src, a) /\ Changed(r, WithBan(r, a))
                               /\ r.service \/ ~IsPersistent(r)
                            \/ MayRemoveBanned(r, src, a) /\ Changed(r, WithoutBan(r, a))
                            \/ MayAddInvite(r, src, a) /\ Changed(r, WithInvite(r, a))
                            \/ MayRemoveInvite(r, src, a) /\ Changed(r, WithoutInvite(r, a))
  BY DEF RoomsAt, KickAvatar, AddModerator, RemoveModerator, AddBan, RemoveBan, AddInvite,
     RemoveInvite
<1>1. r \in Room /\ RoomOK(r) /\ (~r.service => IsPersistent(r))
      /\ (IsModerator(r, src) => r.service)
  BY DEF IInv, TypeOK, BookKeeping, RoomOK, IsModerator, Contains, EmptyVector
<1>2. Directory!Present(addr)
  <2>1. Dir[addr] = RosterOf(r) /\ Dir[addr] # NoRoom
    BY <1>0, DirNow, RosterPresent DEF DirShape
  <2> QED  BY <2>1 DEF Directory!Present, Directory!Absent, Dir, NoRoom
<1>3. CASE Changed(r, Left(r, a))
  BY <1>3, LeavingDir DEF Directory!Next
<1>4. CASE Crash
  BY <1>4, CrashDir DEF Directory!Next, Dir, NoRoom
<1>5. CASE /\ MayAddModerator(r, src, a) /\ Changed(r, WithModerator(r, a))
           /\ r.service \/ ~IsPersistent(r)
  <2>1. Directory!Appoint(addr, src, a)
    BY <1>0, <1>1, <1>5, StaffDir
  <2> QED  BY <1>2, <2>1 DEF Directory!Next
<1>6. CASE MayRemoveModerator(r, src, a) /\ Changed(r, WithoutModerator(r, a))
  <2>1. Directory!Dismiss(addr, src, a)
    BY <1>0, <1>6, StaffDir
  <2> QED  BY <1>2, <2>1 DEF Directory!Next
<1>7. CASE /\ MayAddBanned(r, src, a) /\ Changed(r, WithBan(r, a))
           /\ r.service \/ ~IsPersistent(r)
  <2>1. Directory!Ban(addr, src, a)
    BY <1>0, <1>1, <1>7, StaffDir
  <2> QED  BY <1>2, <2>1 DEF Directory!Next
<1>8. CASE MayRemoveBanned(r, src, a) /\ Changed(r, WithoutBan(r, a))
  <2>1. Directory!Pardon(addr, src, a)
    BY <1>0, <1>8, StaffDir
  <2> QED  BY <1>2, <2>1 DEF Directory!Next
<1>9. CASE MayAddInvite(r, src, a) /\ Changed(r, WithInvite(r, a))
  <2>1. r.service
    BY <1>1, <1>9 DEF MayAddInvite
  <2>2. Directory!Invite(addr, src, a)
    BY <1>0, <1>9, <2>1, StaffDir
  <2> QED  BY <1>2, <2>2 DEF Directory!Next
<1>10. CASE MayRemoveInvite(r, src, a) /\ Changed(r, WithoutInvite(r, a))
  <2>1. Directory!Uninvite(addr, src, a)
    BY <1>0, <1>10, StaffDir
  <2> QED  BY <1>2, <2>1 DEF Directory!Next
<1> QED  BY <1>0, <1>3, <1>4, <1>5, <1>6, <1>7, <1>8, <1>9, <1>10

\* Sending a message changes no roster.
LEMMA MessageDir ==
    ASSUME IInv, IInv', NEW addr \in Address, SendRoomMessage(addr)
    PROVE  Dir' = Dir
<1>1. PICK r \in rooms : Changed(r, [r EXCEPT !.messageId = @ + 1])
  BY DEF SendRoomMessage, RoomsAt
<1> DEFINE s == [r EXCEPT !.messageId = @ + 1]
<1>2. r \in Room
  BY DEF IInv, TypeOK
<1>3. SameRoom(r, s) /\ RosterOf(s) = RosterOf(r) /\ Changed(r, s)
  BY <1>1, <1>2 DEF SameRoom, Room, RosterOf
<1> HIDE DEF s
<1>4. \A addr2 \in Address : Dir'[addr2] = Dir[addr2]
  BY <1>3, ChangedDir
<1> QED  BY <1>4, SameDir

\* Every step of the gateway is a step of the directory or leaves it as it is.
LEMMA StepDir == ASSUME IInv, StoredKinds, [Next]_vars PROVE Directory!Next \/ Dir' = Dir
<1>0. IInv'
  BY NextInv
<1>1. ASSUME NEW a \in Avatar, NEW addr \in Address, NEW kind \in Kind,
             CreateRoom(a, addr, kind)
      PROVE  Directory!Next
  BY <1>0, <1>1, CreateDir DEF Directory!Next
<1>2. ASSUME NEW addr \in Address, DestroyRoom(addr) PROVE Directory!Next \/ Dir' = Dir
  BY <1>0, <1>2, DestroyDir DEF Directory!Next
<1>3. ASSUME NEW a \in Avatar, NEW addr \in Address, NEW pw \in BOOLEAN, EnterRoom(a, addr, pw)
      PROVE  Directory!Next
  BY <1>0, <1>3, EnterDir DEF Directory!Next
<1>4. ASSUME NEW a \in Avatar, NEW addr \in Address, LeaveRoom(a, addr) PROVE Directory!Next
  BY <1>0, <1>4, LeavingDir DEF LeaveRoom, RoomsAt, Directory!Next
<1>5. ASSUME NEW a \in Avatar, LogoutAvatar(a) PROVE Directory!Next
  <2>1. \A r \in rooms : r.addr \in Address
    BY DEF IInv, TypeOK, Room
  <2>2. rooms' = {IF r.addr \in Address THEN Left(r, a) ELSE r : r \in rooms}
    BY <1>5, <2>1 DEF LogoutAvatar
  <2>3. Directory!Depart(a, Address)
    BY <1>0, <2>2, DepartDir
  <2> QED  BY <2>3 DEF Directory!Next
<1>6. ASSUME NEW node \in Node, LoginSystemAvatar(node) PROVE Directory!Next
  BY <1>0, <1>6, LoadDir DEF LoginSystemAvatar, Directory!Next, Dir, NoRoom
<1>7. CASE Crash
  BY <1>7, CrashDir DEF Directory!Next, Dir, NoRoom
<1>8. ASSUME NEW addr \in Address, SendRoomMessage(addr) PROVE Dir' = Dir
  BY <1>0, <1>8, MessageDir
<1>9. CASE UNCHANGED vars
  BY <1>9 DEF vars, Dir, RoomExists, RosterOf, Elements, NoRoom
<1>10. ASSUME NEW src \in Avatar, NEW a \in Avatar, NEW addr \in Address,
              \/ KickAvatar(src, a, addr)
              \/ AddModerator(src, a, addr) \/ RemoveModerator(src, a, addr)
              \/ AddBan(src, a, addr) \/ RemoveBan(src, a, addr)
              \/ AddInvite(src, a, addr) \/ RemoveInvite(src, a, addr)
       PROVE  Directory!Next
  BY <1>0, <1>10, MethodsDir
<1> QED
  BY <1>1, <1>2, <1>3, <1>4, <1>5, <1>6, <1>7, <1>8, <1>9, <1>10 DEF Next

\* The rooms of the gateway are the directory it promises: with lists that hold
\* duplicates, rows read twice, lost answers and crashes, every request still
\* does to the room at its address what the directory says, or nothing.
THEOREM DirectoryImplemented == Spec => ImplementsDirectory
<1>1. Init => Directory!Init
  BY DEF Init, Directory!Init, Directory!Absent, RoomExists, NoRoom
<1>2. Init => StoredKinds
  BY DEF Init, StoredKinds
<1>3. IInv /\ StoredKinds /\ [Next]_vars => StoredKinds'
  BY StepKinds
<1>4. IInv /\ StoredKinds /\ [Next]_vars => [Directory!Next]_Dir
  BY StepDir
<1> QED
  BY <1>1, <1>2, <1>3, <1>4, Invariance, PTL
  DEF Spec, ImplementsDirectory, Directory!Spec, Dir

-----------------------------------------------------------------------------
\* A banned avatar that is out of a room stays out while the ban is in force:
\* neither a request nor a reload lets it in.
THEOREM BansHold == Spec => BanKeepsOut
<1>1. ASSUME IInv, [Next]_vars, NEW r \in rooms, NEW s \in rooms', NEW a \in Avatar,
             r.id = s.id, IsBanned(r, a), ~IsInRoom(r, a)
      PROVE  ~IsInRoom(s, a)
  <2>0. IInv' /\ r \in Room /\ RoomOK(r) /\ r.id < nextRoomId /\ r.id \in Nat
        /\ nextRoomId \in Nat
    BY <1>1, NextInv DEF IInv, TypeOK, BookKeeping, Room
  <2>1. ASSUME NEW t \in rooms, NEW u, Changed(t, u), SameRoom(t, u),
               IsBanned(t, a) /\ ~IsInRoom(t, a) => ~IsInRoom(u, a)
        PROVE  ~IsInRoom(s, a)
    BY <1>1, <2>1 DEF Changed, SameRoom, IInv, BookKeeping
  <2>2. ASSUME NEW b \in Avatar, NEW addr \in Address, NEW pw \in BOOLEAN,
               EnterRoom(b, addr, pw)
        PROVE  ~IsInRoom(s, a)
    <3>1. PICK t \in rooms : Admits(t, b, pw) /\ Changed(t, Entered(t, b))
      BY <2>2 DEF EnterRoom, RoomsAt
    <3>2. t \in Room /\ RoomOK(t) /\ t.avatars \in Vector
      BY <1>1 DEF IInv, TypeOK, Room
    <3>3. b # a \/ ~IsBanned(t, a)
      BY <3>1 DEF Admits
    <3>4. IsBanned(t, a) => (IsInRoom(Entered(t, b), a) <=> IsInRoom(t, a))
      BY <3>2, <3>3 DEF Entered, IsInRoom, Contains, PushBack, Vector, Room
    <3> QED  BY <2>1, <3>1, <3>2, <3>4, EnteredOK
  <2>3. \A t \in Room, b \in Avatar :
           RoomOK(t) /\ ~IsInRoom(t, a) => SameRoom(t, Left(t, b)) /\ ~IsInRoom(Left(t, b), a)
    <3> SUFFICES ASSUME NEW t \in Room, NEW b \in Avatar, RoomOK(t), ~IsInRoom(t, a)
                 PROVE  SameRoom(t, Left(t, b)) /\ ~IsInRoom(Left(t, b), a)
      OBVIOUS
    <3>1. Elements(Left(t, b).avatars) = Elements(t.avatars) \ {b}
      <4>1. RosterOf(Left(t, b)).members = RosterOf(t).members \ {b}
        <5>1. RosterOf(Left(t, b)) = [RosterOf(t) EXCEPT !.members = @ \ {b}]
          BY LeftRoster
        <5>2. "members" \in DOMAIN RosterOf(t)
          BY DEF RosterOf
        <5> QED  BY <5>1, <5>2
      <4> QED  BY <4>1 DEF RosterOf
    <3> QED  BY <3>1, LeftOK DEF Elements, IsInRoom
  <2>4. ASSUME NEW t \in rooms, NEW b \in Avatar, Changed(t, Left(t, b)) PROVE ~IsInRoom(s, a)
    BY <1>1, <2>1, <2>3, <2>4, LeftOK DEF IInv, TypeOK
  <2>5. ASSUME NEW b \in Avatar, LogoutAvatar(b) PROVE ~IsInRoom(s, a)
    <3>1. PICK t \in rooms : s = Left(t, b)
      BY <2>5 DEF LogoutAvatar
    <3>2. t \in Room /\ RoomOK(t)
      BY <1>1 DEF IInv, TypeOK
    <3>3. t.id = r.id
      BY <1>1, <3>1, <3>2, LeftOK DEF SameRoom
    <3>4. t = r
      BY <1>1, <3>3 DEF IInv, BookKeeping
    <3> QED  BY <1>1, <2>3, <3>1, <3>2, <3>4
  <2>6. CASE s.id >= nextRoomId
    BY <1>1, <2>0, <2>6
  <2>7. ASSUME NEW b \in Avatar, NEW addr \in Address, NEW kind \in Kind,
               CreateRoom(b, addr, kind), s \notin rooms
        PROVE  s.id = nextRoomId
    <3> DEFINE room == NewRoom(nextRoomId, addr, b, kind.attributes, kind.locked)
    <3>1. s \in {room} \cup {[room EXCEPT !.dbId = d] : d \in Nat}
      BY <1>1, <2>7 DEF CreateRoom, PersistNewRoom, IInv, TypeOK, NoDbId
    <3> QED  BY <3>1 DEF NewRoom
  <2>8. CASE s \in rooms
    BY <1>1, <2>8 DEF IInv, BookKeeping
  <2>9. ASSUME NEW node \in Node, LoginSystemAvatar(node) PROVE s.id >= nextRoomId
    <3>0. PICK next \in nextRoomId..MaxRoomId :
             \E read \in [nextRoomId..(next - 1) -> Matching(node)] :
                rooms' = {LoadedRoom(i, read[i]) : i \in Kept(read)}
      BY <2>9 DEF LoginSystemAvatar, LoadRoomsFromStorage
    <3>1. PICK read \in [nextRoomId..(next - 1) -> Matching(node)] :
             rooms' = {LoadedRoom(i, read[i]) : i \in Kept(read)}
      BY <3>0
    <3>2. PICK i \in Kept(read) : s = LoadedRoom(i, read[i])
      BY <3>1
    <3> QED  BY <2>0, <3>1, <3>2, ChatRoomServiceAssumption DEF Kept, LoadedRoom
  <2>10. ASSUME NEW addr \in Address, SendRoomMessage(addr) PROVE ~IsInRoom(s, a)
    <3>1. PICK t \in rooms : Changed(t, [t EXCEPT !.messageId = @ + 1])
      BY <2>10 DEF SendRoomMessage, RoomsAt
    <3>2. t \in Room
      BY <1>1 DEF IInv, TypeOK
    <3> DEFINE u == [t EXCEPT !.messageId = @ + 1]
    <3>3. SameRoom(t, u) /\ (IsInRoom(u, a) <=> IsInRoom(t, a)) /\ Changed(t, u)
      BY <3>1, <3>2 DEF SameRoom, Room, IsInRoom
    <3> HIDE DEF u
    <3> QED  BY <2>1, <3>3
  <2>11. ASSUME NEW src \in Avatar, NEW b \in Avatar, NEW addr \in Address,
                \/ KickAvatar(src, b, addr)
                \/ AddModerator(src, b, addr) \/ RemoveModerator(src, b, addr)
                \/ AddBan(src, b, addr) \/ RemoveBan(src, b, addr)
                \/ AddInvite(src, b, addr) \/ RemoveInvite(src, b, addr)
         PROVE  ~IsInRoom(s, a)
    <3>1. CASE Crash
      BY <1>1, <3>1 DEF Crash
    <3>2. PICK t, u : /\ t \in rooms /\ Changed(t, u)
                     /\ \/ u = Left(t, b)
                        \/ u.id = t.id /\ u.avatars = t.avatars
      <4>1. \A t \in rooms :
               /\ WithModerator(t, b).id = t.id /\ WithModerator(t, b).avatars = t.avatars
               /\ WithoutModerator(t, b).id = t.id /\ WithoutModerator(t, b).avatars = t.avatars
               /\ WithBan(t, b).id = t.id /\ WithBan(t, b).avatars = t.avatars
               /\ WithoutBan(t, b).id = t.id /\ WithoutBan(t, b).avatars = t.avatars
               /\ WithInvite(t, b).id = t.id /\ WithInvite(t, b).avatars = t.avatars
               /\ WithoutInvite(t, b).id = t.id /\ WithoutInvite(t, b).avatars = t.avatars
        BY <1>1 DEF IInv, TypeOK, Room, WithModerator, WithoutModerator, WithBan, WithoutBan,
           WithInvite, WithoutInvite
      <4>2. Crash => FALSE
        BY <1>1 DEF Crash
      <4> QED
        BY <2>11, <4>1, <4>2 DEF KickAvatar, AddModerator, RemoveModerator, AddBan, RemoveBan,
           AddInvite, RemoveInvite, RoomsAt
    <3>3. CASE u.id = t.id /\ u.avatars = t.avatars
      BY <1>1, <3>2, <3>3 DEF Changed, IInv, BookKeeping, IsInRoom
    <3> QED  BY <2>4, <3>2, <3>3
  <2>12. CASE s \notin rooms
    <3>1. \A addr \in Address : ~DestroyRoom(addr)
      BY <1>1, <2>12 DEF DestroyRoom
    <3>2. ~Crash /\ ~UNCHANGED vars
      BY <1>1, <2>12 DEF Crash, vars
    <3>3. ASSUME NEW b \in Avatar, NEW addr \in Address, NEW kind \in Kind,
                 CreateRoom(b, addr, kind)
          PROVE  ~IsInRoom(s, a)
      BY <1>1, <2>0, <2>7, <2>12, <3>3
    <3>4. ASSUME NEW b \in Avatar, NEW addr \in Address, LeaveRoom(b, addr)
          PROVE  ~IsInRoom(s, a)
      BY <2>4, <3>4 DEF LeaveRoom, RoomsAt
    <3>5. ASSUME NEW node \in Node, LoginSystemAvatar(node) PROVE ~IsInRoom(s, a)
      BY <2>6, <2>9, <3>5
    <3> QED
      BY <1>1, <2>2, <2>5, <2>10, <2>11, <3>1, <3>2, <3>3, <3>4, <3>5 DEF Next
  <2> QED  BY <2>8, <2>12
<1>2. IInv /\ [Next]_vars =>
         \A r \in rooms, s \in rooms', a \in Avatar :
            r.id = s.id /\ IsBanned(r, a) /\ ~IsInRoom(r, a) => ~IsInRoom(s, a)
  BY <1>1
<1> QED  BY <1>2, Invariance, PTL DEF Spec, BanKeepsOut
=============================================================================
