-------------------------- MODULE MCChatRoomService --------------------------
(***************************************************************************)
(* Finite instances of ChatRoomService.                                    *)
(***************************************************************************)
EXTENDS ChatRoomService, TLC

CONSTANTS a1, a2, r1, r2, n1, n2

Avatars == Permutations(Avatar)

\* One address under each of two nodes.
TwoNodes == [addr \in Address |-> IF addr = r1 THEN n1 ELSE n2]

Ephemeral == [attributes |-> {}, locked |-> TRUE]
Private == [attributes |-> {"PRIVATE"}, locked |-> FALSE]
Persistent == [attributes |-> {"PERSISTENT"}, locked |-> FALSE]
PrivatePersistent == [attributes |-> RoomAttributes, locked |-> FALSE]

AllKinds == {Ephemeral, Private, PrivatePersistent}

(***************************************************************************)
(* The region explored: rooms at one address with both avatars, or rooms   *)
(* at both addresses while one avatar is nowhere to be seen, no message is *)
(* sent and what is private is stored too.  A step out of it is not taken. *)
(***************************************************************************)
Mentions(room, a) ==
    \/ room.creator = a
    \/ IsInRoom(room, a) \/ IsModerator(room, a) \/ IsBanned(room, a) \/ IsInvited(room, a)

OneAddress == \A x \in rooms \cup roomTable : x.addr = r1

OneAvatar ==
    \E a \in Avatar :
        /\ \A room \in rooms :
            /\ ~Mentions(room, a)
            /\ room.messageId = 1
            /\ IsPrivate(room) <=> IsPersistent(room)
        /\ \A row \in roomTable : row.creator # a /\ "PRIVATE" \in row.attributes

SmallSpec == Init /\ [][Next /\ (OneAddress \/ OneAvatar)']_vars
=============================================================================
