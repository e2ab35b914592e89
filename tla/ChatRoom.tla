------------------------------ MODULE ChatRoom ------------------------------
(***************************************************************************)
(* One chat room of the gateway (ChatRoom.hpp, ChatRoom.cpp), as a record  *)
(* and the operators its methods perform on it.  A method that throws      *)
(* changes nothing, so it appears here as the condition under which it     *)
(* does not throw and the room it leaves behind.                           *)
(*                                                                         *)
(* The lists of a room are std::vectors of avatar pointers, searched by    *)
(* avatar id.  Only how often an id occurs in one matters, so a list is a  *)
(* bag.  `v.erase(std::remove_if(...))` erases ONE element, whatever the   *)
(* number of matches: Erase.  With no match it would erase end(), and with *)
(* two or more it would leave one behind; NoDuplicates, an invariant of    *)
(* ChatRoomService, is why neither happens.                                *)
(***************************************************************************)
EXTENDS Naturals

CONSTANTS
    Avatar,     \* ids of the avatars known to the gateway
    Address     \* full room addresses, "<node address>+<room name>"

RoomAttributes == {"PRIVATE", "PERSISTENT"}

(***************************************************************************)
(* The vectors.                                                            *)
(***************************************************************************)
Vector == [Avatar -> Nat]

EmptyVector == [a \in Avatar |-> 0]

PushBack(v, a) == [v EXCEPT ![a] = @ + 1]

Erase(v, a) == [v EXCEPT ![a] = @ - 1]

Contains(v, a) == v[a] > 0

(***************************************************************************)
(* The room.  dbId is the id of its row in table `room`, NoDbId (the       *)
(* code's -1) when it has none; service is FALSE when roomService_ is the  *)
(* null pointer, which the default constructor leaves.  administrators_ is *)
(* written by nothing but the constructor and read by no operation, and    *)
(* maxRoomSize_ is never compared with anything: both are left out.        *)
(***************************************************************************)
NoDbId == 0

Room ==
    [id: Nat, addr: Address, creator: Avatar, attributes: SUBSET RoomAttributes,
     locked: BOOLEAN, messageId: Nat, dbId: Nat, service: BOOLEAN,
     avatars: Vector, moderators: Vector, banned: Vector, invited: Vector]

\* The constructor: the creator is a moderator, and not in the room.
NewRoom(id, addr, creator, attributes, locked) ==
    [id |-> id, addr |-> addr, creator |-> creator, attributes |-> attributes,
     locked |-> locked, messageId |-> 1, dbId |-> NoDbId, service |-> TRUE,
     avatars |-> EmptyVector, moderators |-> PushBack(EmptyVector, creator),
     banned |-> EmptyVector, invited |-> EmptyVector]

IsPrivate(r) == "PRIVATE" \in r.attributes

IsPersistent(r) == "PERSISTENT" \in r.attributes

IsInRoom(r, a) == Contains(r.avatars, a)

IsCreator(r, a) == r.creator = a

IsModerator(r, a) == Contains(r.moderators, a)

IsBanned(r, a) == Contains(r.banned, a)

IsInvited(r, a) == Contains(r.invited, a)

(***************************************************************************)
(* Membership.                                                             *)
(***************************************************************************)
\* Mutant: the ban list is not consulted.
AdmitsIgnoringBans(r, a, knowsPassword) ==
    /\ r.locked => knowsPassword
    /\ ~IsInRoom(r, a)
    /\ IsPrivate(r) => IsCreator(r, a) \/ IsInvited(r, a)

\* Mutant: the invitation list is not consulted.
AdmitsUninvited(r, a, knowsPassword) ==
    /\ r.locked => knowsPassword
    /\ ~IsBanned(r, a)
    /\ ~IsInRoom(r, a)

\* EnterRoom throws unless this holds (the checks' order only picks the code).
Admits(r, a, knowsPassword) ==
    /\ r.locked => knowsPassword
    /\ ~IsBanned(r, a)
    /\ ~IsInRoom(r, a)
    /\ IsPrivate(r) => IsCreator(r, a) \/ IsInvited(r, a)

Entered(r, a) == [r EXCEPT !.avatars = PushBack(@, a)]

\* Mutant: the erase is not guarded by the search.
LeftBlindly(r, a) == [r EXCEPT !.avatars = Erase(@, a)]

\* LeaveRoom does nothing for an avatar that is not in the room.
Left(r, a) ==
    IF IsInRoom(r, a) THEN [r EXCEPT !.avatars = Erase(@, a)] ELSE r

MayKick(r, src, dest) == IsModerator(r, src) /\ IsInRoom(r, dest)

(***************************************************************************)
(* Staff, bans and invitations.                                            *)
(***************************************************************************)
MayAddModerator(r, src, a) == IsCreator(r, src) /\ ~IsModerator(r, a)

WithModerator(r, a) == [r EXCEPT !.moderators = PushBack(@, a)]

MayRemoveModerator(r, src, a) == IsCreator(r, src) /\ IsModerator(r, a)

WithoutModerator(r, a) == [r EXCEPT !.moderators = Erase(@, a)]

\* Mutant: the duplicate check of AddBanned is dropped.
MayAddBannedTwice(r, src, a) == IsModerator(r, src)

MayAddBanned(r, src, a) == IsModerator(r, src) /\ ~IsBanned(r, a)

\* A ban does not put the avatar out of the room.
WithBan(r, a) == [r EXCEPT !.banned = PushBack(@, a)]

MayRemoveBanned(r, src, a) == IsModerator(r, src) /\ IsBanned(r, a)

WithoutBan(r, a) == [r EXCEPT !.banned = Erase(@, a)]

\* Mutant: the creator may invite without being a moderator.
MayAddInviteAsCreator(r, src, a) ==
    (IsModerator(r, src) \/ IsCreator(r, src)) /\ ~IsInvited(r, a)

MayAddInvite(r, src, a) == IsModerator(r, src) /\ ~IsInvited(r, a)

WithInvite(r, a) == [r EXCEPT !.invited = PushBack(@, a)]

MayRemoveInvite(r, src, a) == IsModerator(r, src) /\ IsInvited(r, a)

WithoutInvite(r, a) == [r EXCEPT !.invited = Erase(@, a)]
=============================================================================
