---------------------------- MODULE RoomDirectory ----------------------------
(***************************************************************************)
(* What the room part of the gateway promises to a game server: at each    *)
(* address there is at most one room, with SETS of members, moderators,    *)
(* banned and invited avatars; requests act on the room at the address     *)
(* they name, under the privileges below; and a room comes into being      *)
(* either by being created or, stripped of its members and lists, out of   *)
(* storage.  Room ids, vectors, rows and lost answers are not mentioned.   *)
(***************************************************************************)
CONSTANTS Avatar, Address, Kind

VARIABLE dir    \* dir[addr]: the room at addr, or Absent

Absent == [members |-> {}]

Roster ==
    [creator: Avatar, kind: Kind, members: SUBSET Avatar,
     moderators: SUBSET Avatar, banned: SUBSET Avatar, invited: SUBSET Avatar]

Present(addr) == dir[addr] # Absent

Init == dir = [addr \in Address |-> Absent]

\* The room at addr, and no other, is as the roster says from now on.
Become(addr, roster) ==
    /\ dir'[addr] = roster
    /\ \A other \in Address \ {addr} : dir'[other] = dir[other]

Fresh(creator, kind) ==
    [creator |-> creator, kind |-> kind, members |-> {},
     moderators |-> {creator}, banned |-> {}, invited |-> {}]

Open(addr, creator, kind) == ~Present(addr) /\ Become(addr, Fresh(creator, kind))

Close(addr) == Present(addr) /\ Become(addr, Absent)

\* Entry: not banned; a locked room asks for the password; a private one for
\* an invitation, except of its creator.
Enter(addr, a, knowsPassword) ==
    LET room == dir[addr] IN
    /\ a \notin room.banned \cup room.members
    /\ room.kind.locked => knowsPassword
    /\ "PRIVATE" \in room.kind.attributes => a \in room.invited \cup {room.creator}
    /\ Become(addr, [room EXCEPT !.members = @ \cup {a}])

\* Leaving, being kicked and logging out: a is in none of the rooms at S.
Depart(a, S) ==
    dir' = [addr \in Address |->
              IF addr \in S /\ Present(addr)
              THEN [dir[addr] EXCEPT !.members = @ \ {a}]
              ELSE dir[addr]]

\* The creator appoints and dismisses moderators.
Appoint(addr, src, a) ==
    LET room == dir[addr] IN
    src = room.creator
        /\ Become(addr, [room EXCEPT !.moderators = @ \cup {a}])

Dismiss(addr, src, a) ==
    LET room == dir[addr] IN
    src = room.creator
        /\ Become(addr, [room EXCEPT !.moderators = @ \ {a}])

\* Moderators ban, pardon, invite and uninvite.
Ban(addr, src, a) ==
    LET room == dir[addr] IN
    src \in room.moderators
        /\ Become(addr, [room EXCEPT !.banned = @ \cup {a}])

Pardon(addr, src, a) ==
    LET room == dir[addr] IN
    src \in room.moderators
        /\ Become(addr, [room EXCEPT !.banned = @ \ {a}])

Invite(addr, src, a) ==
    LET room == dir[addr] IN
    src \in room.moderators
        /\ Become(addr, [room EXCEPT !.invited = @ \cup {a}])

Uninvite(addr, src, a) ==
    LET room == dir[addr] IN
    src \in room.moderators
        /\ Become(addr, [room EXCEPT !.invited = @ \ {a}])

\* Everything in memory is replaced by bare rooms of a persistent kind.
Bare(creator, kind) == [Fresh(creator, kind) EXCEPT !.moderators = {}]

Reload ==
    \A addr \in Address :
        \/ dir'[addr] = Absent
        \/ \E a \in Avatar, kind \in Kind :
              /\ "PERSISTENT" \in kind.attributes
              /\ dir'[addr] = Bare(a, kind)

Next ==
    \/ \E addr \in Address :
        \/ \E a \in Avatar, kind \in Kind : Open(addr, a, kind)
        \/ /\ Present(addr)
           /\ \/ Close(addr)
              \/ \E a \in Avatar, knowsPassword \in BOOLEAN : Enter(addr, a, knowsPassword)
              \/ \E src, a \in Avatar :
                  \/ Appoint(addr, src, a) \/ Dismiss(addr, src, a)
                  \/ Ban(addr, src, a) \/ Pardon(addr, src, a)
                  \/ Invite(addr, src, a) \/ Uninvite(addr, src, a)
    \/ \E a \in Avatar, S \in SUBSET Address : Depart(a, S)
    \/ DOMAIN dir' = Address /\ Reload

Spec == Init /\ [][Next]_dir
=============================================================================
