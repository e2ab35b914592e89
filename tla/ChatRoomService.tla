--------------------------- MODULE ChatRoomService ---------------------------
(***************************************************************************)
(* The rooms of one gateway process: the in-memory list of                 *)
(* ChatRoomService.cpp, the `room` table behind it, and the request        *)
(* handlers of protocol/Protocol.cpp that work on rooms, one action each.  *)
(* The gateway is single-threaded, so a handler is one step.  A request    *)
(* that is refused (unknown avatar, no such room, a ChatRoom method that   *)
(* throws) changes nothing and has no action.                              *)
(*                                                                         *)
(* Faults.  A statement sent to MariaDB may fail, and may be carried out   *)
(* with its answer lost.  A SELECT may end early, and starts over from its *)
(* first row when the connection is re-established under it               *)
(* (MariaDB.cpp), which delivers rows again.  The process may die at any   *)
(* time and is restarted by systemd with an empty memory.                  *)
(***************************************************************************)
EXTENDS ChatRoom

CONSTANTS
    Node,             \* node addresses SYSTEM avatars log in from
    NodeOf,           \* NodeOf[addr]: the node address that addr extends
    PipesAsConcat,    \* is PIPES_AS_CONCAT in the server's sql_mode
    Kind,             \* the kinds of room that create requests ask for
    MaxRoomId,        \* bound: room ids handed out by one process
    MaxDbId,          \* bound: rows ever inserted in table `room`
    MaxMessageId      \* bound: messages sent in a room

ASSUME ChatRoomServiceAssumption ==
    /\ NodeOf \in [Address -> Node]
    /\ PipesAsConcat \in BOOLEAN
    /\ Kind \subseteq [attributes: SUBSET RoomAttributes, locked: BOOLEAN]
    /\ MaxRoomId \in Nat /\ MaxDbId \in Nat /\ MaxMessageId \in Nat

VARIABLES
    rooms,        \* rooms_ (a set: ids are unique, and so are addresses)
    nextRoomId,   \* nextRoomId_
    roomTable,    \* the rows of table `room`
    nextDbId      \* its AUTO_INCREMENT counter

vars == <<rooms, nextRoomId, roomTable, nextDbId>>

Row ==
    [dbId: Nat, addr: Address, creator: Avatar,
     attributes: SUBSET RoomAttributes, locked: BOOLEAN]

TypeOK ==
    /\ rooms \subseteq Room
    /\ nextRoomId \in Nat
    /\ roomTable \subseteq Row
    /\ nextDbId \in Nat \ {NoDbId}

Init ==
    /\ rooms = {}
    /\ nextRoomId = 0
    /\ roomTable = {}
    /\ nextDbId = 1

-----------------------------------------------------------------------------
(***************************************************************************)
(* ChatRoomService                                                         *)
(***************************************************************************)
RoomExists(addr) == \E r \in rooms : r.addr = addr

\* What GetRoom may return: the rooms with this address.
RoomsAt(addr) == {r \in rooms : r.addr = addr}

\* A method changed room r into s.
Changed(r, s) ==
    /\ rooms' = (rooms \ {r}) \cup {s}
    /\ UNCHANGED <<nextRoomId, roomTable, nextDbId>>

RowOf(room, dbId) ==
    [dbId |-> dbId, addr |-> room.addr, creator |-> room.creator,
     attributes |-> room.attributes, locked |-> room.locked]

(***************************************************************************)
(* PersistNewRoom inserts the row.  A failed insert (among other reasons   *)
(* because of the unique key on name and address) is not reported to the   *)
(* caller; the room goes on without a row id.                              *)
(***************************************************************************)
CanInsert(room) ==
    /\ nextDbId <= MaxDbId
    /\ \A row \in roomTable : row.addr # room.addr

\* Mutant: an inserted row whose answer was lost is given the next id twice.
PersistNewRoomReusingId(room) ==
    \/ /\ rooms' = rooms \cup {room}
       /\ UNCHANGED <<roomTable, nextDbId>>
    \/ /\ CanInsert(room)
       /\ roomTable' = roomTable \cup {RowOf(room, nextDbId)}
       /\ UNCHANGED nextDbId
       /\ rooms' = rooms \cup {[room EXCEPT !.dbId = nextDbId]}

PersistNewRoom(room) ==
    \/ /\ rooms' = rooms \cup {room}
       /\ UNCHANGED <<roomTable, nextDbId>>
    \/ /\ CanInsert(room)
       /\ roomTable' = roomTable \cup {RowOf(room, nextDbId)}
       /\ nextDbId' = nextDbId + 1
       /\ \E answered \in BOOLEAN :
            rooms' = rooms \cup
                {[room EXCEPT !.dbId = IF answered THEN nextDbId ELSE NoDbId]}

\* DELETE FROM room WHERE id = @id: a room without a row id deletes nothing.
DeleteRoom(r) == roomTable' = {row \in roomTable : row.dbId # r.dbId}

(***************************************************************************)
(* LoadRoomsFromStorage first empties the list, then reads the rows with   *)
(*     room_address LIKE @baseAddress||'%'                                 *)
(* MariaDB reads || as OR unless PIPES_AS_CONCAT is set; '%' is then the   *)
(* number 0, and what is left compares the address with the base address   *)
(* itself, which no address ending in "+<room name>" equals.               *)
(*                                                                         *)
(* The i-th row read gets room id nextRoomId + i even when it is skipped   *)
(* because a room with its address is already there.  The moderator and    *)
(* ban tables are not read back and roomService_ stays null.  The row's    *)
(* message id is still the one the room was created with.                  *)
(***************************************************************************)
Matching(node) ==
    IF PipesAsConcat THEN {row \in roomTable : NodeOf[row.addr] = node} ELSE {}

LoadedRoom(id, row) ==
    [id |-> id, addr |-> row.addr, creator |-> row.creator,
     attributes |-> row.attributes, locked |-> row.locked, messageId |-> 1,
     dbId |-> row.dbId, service |-> FALSE, avatars |-> EmptyVector,
     moderators |-> EmptyVector, banned |-> EmptyVector, invited |-> EmptyVector]

\* Mutant: the RoomExists test of the loading loop is dropped.
KeptWithoutTest(read) == DOMAIN read

Kept(read) ==
    {i \in DOMAIN read :
        \A j \in DOMAIN read : j < i => read[j].addr # read[i].addr}

\* Mutant: the ids start over with the list.
LoadRoomsFromStorageRenumbering(node) ==
    \E next \in 0..MaxRoomId :
        \E read \in [0..(next - 1) -> Matching(node)] :
            /\ rooms' = {LoadedRoom(i, read[i]) : i \in Kept(read)}
            /\ nextRoomId' = next
            /\ UNCHANGED <<roomTable, nextDbId>>

LoadRoomsFromStorage(node) ==
    \E next \in nextRoomId..MaxRoomId :
        \E read \in [nextRoomId..(next - 1) -> Matching(node)] :
            /\ rooms' = {LoadedRoom(i, read[i]) : i \in Kept(read)}
            /\ nextRoomId' = next
            /\ UNCHANGED <<roomTable, nextDbId>>

-----------------------------------------------------------------------------
(***************************************************************************)
(* The request handlers                                                    *)
(***************************************************************************)
CreateRoom(creator, addr, kind) ==
    /\ ~RoomExists(addr)
    /\ nextRoomId < MaxRoomId
    /\ nextRoomId' = nextRoomId + 1
    /\ LET room == NewRoom(nextRoomId, addr, creator, kind.attributes, kind.locked)
       IN  IF IsPersistent(room)
           THEN PersistNewRoom(room)
           ELSE /\ rooms' = rooms \cup {room}
                /\ UNCHANGED <<roomTable, nextDbId>>

(***************************************************************************)
(* Any avatar may destroy any room.  The row goes first; if the DELETE     *)
(* fails the handler answers DATABASE and the room stays.  remove_if's     *)
(* predicate reads the id of the room it is removing, from freed memory    *)
(* once two rooms follow it in the list; the value found there is taken to *)
(* be the id of no other room.                                             *)
(***************************************************************************)
DestroyRoom(addr) ==
    \E r \in RoomsAt(addr) :
        /\ UNCHANGED <<nextRoomId, nextDbId>>
        /\ \/ ~IsPersistent(r) /\ rooms' = rooms \ {r} /\ UNCHANGED roomTable
           \/ IsPersistent(r) /\ DeleteRoom(r) /\ rooms' = rooms \ {r}
           \/ IsPersistent(r) /\ DeleteRoom(r) /\ UNCHANGED rooms  \* answer lost

EnterRoom(a, addr, knowsPassword) ==
    \E r \in RoomsAt(addr) :
        Admits(r, a, knowsPassword) /\ Changed(r, Entered(r, a))

LeaveRoom(a, addr) == \E r \in RoomsAt(addr) : Changed(r, Left(r, a))

KickAvatar(src, dest, addr) ==
    \E r \in RoomsAt(addr) : MayKick(r, src, dest) /\ Changed(r, Left(r, dest))

\* The room part of LogoutAvatar: leave every room of GetJoinedRooms.
LogoutAvatar(a) ==
    /\ rooms' = {Left(r, a) : r \in rooms}
    /\ UNCHANGED <<nextRoomId, roomTable, nextDbId>>

\* The room part of LoginAvatar and FailoverReLoginAvatar for a SYSTEM avatar.
LoginSystemAvatar(node) == LoadRoomsFromStorage(node)

\* The process dies and comes back with an empty memory.
Crash ==
    /\ rooms' = {}
    /\ nextRoomId' = 0
    /\ UNCHANGED <<roomTable, nextDbId>>

(***************************************************************************)
(* AddModerator and AddBanned on a persistent room go on to call           *)
(* PersistBanned.  Its statement is not valid MariaDB SQL, so it always    *)
(* throws: the change stays in memory, the table stays empty, the answer   *)
(* is DATABASE.  On a loaded room the call is made through the null        *)
(* roomService_ and the process dies.                                      *)
(***************************************************************************)
AddModerator(src, a, addr) ==
    \E r \in RoomsAt(addr) :
        /\ MayAddModerator(r, src, a)
        /\ IF IsPersistent(r) /\ ~r.service
           THEN Crash
           ELSE Changed(r, WithModerator(r, a))

RemoveModerator(src, a, addr) ==
    \E r \in RoomsAt(addr) :
        MayRemoveModerator(r, src, a) /\ Changed(r, WithoutModerator(r, a))

AddBan(src, a, addr) ==
    \E r \in RoomsAt(addr) :
        /\ MayAddBanned(r, src, a)
        /\ IF IsPersistent(r) /\ ~r.service
           THEN Crash
           ELSE Changed(r, WithBan(r, a))

RemoveBan(src, a, addr) ==
    \E r \in RoomsAt(addr) :
        MayRemoveBanned(r, src, a) /\ Changed(r, WithoutBan(r, a))

AddInvite(src, a, addr) ==
    \E r \in RoomsAt(addr) :
        MayAddInvite(r, src, a) /\ Changed(r, WithInvite(r, a))

RemoveInvite(src, a, addr) ==
    \E r \in RoomsAt(addr) :
        MayRemoveInvite(r, src, a) /\ Changed(r, WithoutInvite(r, a))

SendRoomMessage(addr) ==
    \E r \in RoomsAt(addr) :
        /\ r.messageId <= MaxMessageId
        /\ Changed(r, [r EXCEPT !.messageId = @ + 1])

Next ==
    \/ \E a \in Avatar, addr \in Address, kind \in Kind : CreateRoom(a, addr, kind)
    \/ \E addr \in Address : DestroyRoom(addr)
    \/ \E a \in Avatar, addr \in Address, knowsPassword \in BOOLEAN :
          EnterRoom(a, addr, knowsPassword)
    \/ \E a \in Avatar, addr \in Address : LeaveRoom(a, addr)
    \/ \E src, dest \in Avatar, addr \in Address : KickAvatar(src, dest, addr)
    \/ \E src, a \in Avatar, addr \in Address :
          \/ AddModerator(src, a, addr)
          \/ RemoveModerator(src, a, addr)
          \/ AddBan(src, a, addr)
          \/ RemoveBan(src, a, addr)
          \/ AddInvite(src, a, addr)
          \/ RemoveInvite(src, a, addr)
    \/ \E addr \in Address : SendRoomMessage(addr)
    \/ \E a \in Avatar : LogoutAvatar(a)
    \/ \E node \in Node : LoginSystemAvatar(node)
    \/ Crash

Spec == Init /\ [][Next]_vars

-----------------------------------------------------------------------------
(***************************************************************************)
(* Properties                                                              *)
(***************************************************************************)
\* No two rooms in memory share an address, whatever mix of creating,
\* loading (with rows delivered twice) and destroying led there: every
\* request names a room by its address and gets the one room it means.
UniqueAddress == \A r, s \in rooms : r.addr = s.addr => r = s

\* Every vector of every room holds an avatar at most once.  Erase relies on
\* it: with a duplicate, an avatar that was kicked, pardoned or dismissed
\* would still be there.
NoDuplicates ==
    \A r \in rooms, a \in Avatar :
        /\ r.avatars[a] <= 1
        /\ r.moderators[a] <= 1
        /\ r.banned[a] <= 1
        /\ r.invited[a] <= 1

\* The row a room names as its own carries its address, and no other room
\* names it: DestroyRoom, which deletes by row id alone, cannot delete the
\* row of another room.  (The row may be gone, if the answer to its DELETE
\* was lost.)
RowOwnership ==
    /\ \A r \in rooms, row \in roomTable : row.dbId = r.dbId => row.addr = r.addr
    /\ \A r, s \in rooms : r.dbId = s.dbId /\ r.dbId # NoDbId => r = s

\* A room that came back from storage has no moderators, bans or invitations
\* and can never get any (the one request that could kills the process), so
\* if it is private nobody but its creator is ever in it.
ReloadedUnstaffed ==
    \A r \in rooms : ~r.service =>
        /\ r.moderators = EmptyVector
        /\ r.banned = EmptyVector
        /\ r.invited = EmptyVector
        /\ IsPrivate(r) => \A a \in Avatar : IsInRoom(r, a) => IsCreator(r, a)

\* In the life of a process a room id keeps its meaning: an id handed out
\* earlier names the same room or none, across creations, destructions and
\* the reload that a SYSTEM login triggers.  Game servers hold on to ids.
RoomIdsKeepMeaning ==
    [][\A s \in rooms' : s.id < nextRoomId =>
        \E r \in rooms : r.id = s.id /\ r.addr = s.addr /\ r.creator = s.creator]_vars

\* A banned avatar that is out of a room stays out for as long as the ban
\* is in force, whichever requests come in between.
BanKeepsOut ==
    [][\A r \in rooms, s \in rooms', a \in Avatar :
        r.id = s.id /\ IsBanned(r, a) /\ ~IsInRoom(r, a) => ~IsInRoom(s, a)]_vars

\* A row leaves the table only with the room it was written for.
RowsGoWithTheirRoom ==
    [][\A row \in roomTable \ roomTable' :
        \E r \in rooms : r.dbId = row.dbId /\ r.addr = row.addr]_vars

\* What the invariants above rest on: ids and row ids are handed out once, a
\* row is the only one with its id and address, and only persistent rooms
\* are stored, so only they are loaded.
BookKeeping ==
    /\ \A r, s \in rooms : r.id = s.id => r = s
    /\ \A r \in rooms : r.id < nextRoomId /\ r.dbId < nextDbId
    /\ \A row \in roomTable :
          /\ row.dbId # NoDbId /\ row.dbId < nextDbId
          /\ "PERSISTENT" \in row.attributes
    /\ \A row, other \in roomTable :
          row.dbId = other.dbId \/ row.addr = other.addr => row = other
    /\ \A r \in rooms : ~r.service => IsPersistent(r)

\* The state has its type, and what the other invariants rest on holds: no room id
\* or row id is ever given out twice, whatever answers are lost.
Consistent == TypeOK /\ BookKeeping

-----------------------------------------------------------------------------
(***************************************************************************)
(* Seen through addresses, with vectors as sets, the rooms are the         *)
(* directory that RoomDirectory promises.                                  *)
(***************************************************************************)
Elements(v) == {a \in Avatar : Contains(v, a)}

RosterOf(r) ==
    [creator |-> r.creator,
     kind |-> [attributes |-> r.attributes, locked |-> r.locked],
     members |-> Elements(r.avatars), moderators |-> Elements(r.moderators),
     banned |-> Elements(r.banned), invited |-> Elements(r.invited)]

NoRoom == [members |-> {}]

Directory == INSTANCE RoomDirectory WITH
    dir <- [addr \in Address |->
              IF RoomExists(addr)
              THEN RosterOf(CHOOSE r \in rooms : r.addr = addr)
              ELSE NoRoom]

\* Every step of the gateway is a step of the directory, or leaves it as it
\* is: handlers find the room they mean, erasing one element empties an
\* avatar's place in a vector, the rows delivered twice and the crash are
\* nothing worse than a reload.
ImplementsDirectory == Directory!Spec
=============================================================================
