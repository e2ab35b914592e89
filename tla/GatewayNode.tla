------------------------------ MODULE GatewayNode ------------------------------
(***************************************************************************)
(* What game servers hear of a chat room: the connections of a gateway     *)
(* (Node.hpp, NodeClient.cpp, GatewayNode.cpp), the updates it sends       *)
(* (GatewayClient.cpp) and the handlers that send them (Protocol.cpp).     *)
(*                                                                         *)
(* A game server is known by the address of its avatars.  The login of its *)
(* SYSTEM avatar enters the connection it came on in clientAddressMap_,    *)
(* which later updates for that address go to.  The map holds raw          *)
(* pointers and is never cleaned: Tick destroys the clients of lost        *)
(* connections, and a client created later may lie where one was freed.    *)
(*                                                                         *)
(* One room id is modelled, as the updates of different rooms are          *)
(* independent and a process never uses an id again (RoomIdsKeepMeaning of *)
(* ChatRoomService): the room appears once and goes once in the life of a  *)
(* process.  Who may enter, kick or destroy is ChatRoom's business: here   *)
(* any request may succeed.                                                *)
(*                                                                         *)
(* The UDP library (a stub in this repository) and the game servers are    *)
(* modelled from how src/ uses them: channel cUdpChannelReliable1 keeps    *)
(* the order and loses messages only with the connection; a server keeps   *)
(* a list of the room's avatars in a session, while one of its own is      *)
(* among them.                                                             *)
(***************************************************************************)
EXTENDS Naturals, Sequences, FiniteSets, Functions

CONSTANTS
    Server,       \* addresses of game servers
    Avatar,
    AddressOf,    \* AddressOf[a]: the server of avatar a
    Creator,      \* the avatar that creates the room
    Client,       \* places where a GatewayClient may be allocated
    None,         \* no client
    MaxUnderWay   \* bound: messages on their way, on all connections together

ASSUME GatewayNodeAssumption ==
    /\ IsFiniteSet(Server)
    /\ AddressOf \in [Avatar -> Server] /\ Creator \in Avatar
    /\ None \notin Client
    /\ MaxUnderWay \in Nat

VARIABLES
    clients,            \* by place: the state of the client there and its server
    clientAddressMap,   \* clientAddressMap_
    room,               \* is the room in rooms_, not yet, or why not any more
    avatars,            \* avatars_ of the room
    pipe,               \* messages sent on a connection and not yet received
    view,               \* the room's avatars as each server believes
    session,            \* the client a server logged its SYSTEM avatar in on, if
                        \* that connection has been open ever since (history)
    synced              \* has the server fetched the room in this session and
                        \* had an avatar in it since (history)

vars == <<clients, clientAddressMap, room, avatars, pipe, view, session, synced>>

ClientState == {"free", "open", "lost"}

Message == [type: {"MEnterRoom", "MLeaveRoom", "MKickAvatar", "MDestroyRoom",
                   "GetRoom", "LoginAvatar"},
            avatars: SUBSET Avatar]

TypeOK ==
    /\ clients \in [Client -> [state: ClientState, server: Server]]
    /\ clientAddressMap \in [Server -> Client \cup {None}]
    /\ room \in {"none", "there", "destroyed", "emptied"} /\ avatars \subseteq Avatar
    /\ pipe \in [Client -> Seq(Message)]
    /\ view \in [Server -> SUBSET Avatar]
    /\ session \in [Server -> Client \cup {None}]
    /\ synced \subseteq Server

\* A place without an open client: whose it was plays no part any more.
Without(state) == [state |-> state, server |-> AddressOf[Creator]]

Init ==
    /\ clients = [c \in Client |-> Without("free")]
    /\ clientAddressMap = [s \in Server |-> None]
    /\ room = "none" /\ avatars = {}
    /\ pipe = [c \in Client |-> <<>>]
    /\ view = [s \in Server |-> {}]
    /\ session = [s \in Server |-> None]
    /\ synced = {}

Own(s) == {a \in Avatar : AddressOf[a] = s}

Msg(type, who) == [type |-> type, avatars |-> who]

-----------------------------------------------------------------------------
(***************************************************************************)
(* Sending                                                                 *)
(***************************************************************************)
\* NodeClient::Send on the client at place c.  On a lost connection nothing
\* arrives; a place that was freed is undefined to use, and what is there may
\* take no notice, or be the client of another server.  (Or the process
\* dies: Crash.)
Sent(p, c, m) ==
    IF c # None /\ clients[c].state = "open" THEN [p EXCEPT ![c] = Append(@, m)] ELSE p

\* SendTo for each address in turn.  Distinct addresses may lead to one place.
SentTo(addresses, m) ==
    [c \in Client |->
        IF clients[c].state = "open"
        THEN pipe[c] \o [k \in 1..Cardinality({s \in addresses : clientAddressMap[s] = c}) |-> m]
        ELSE pipe[c]]

\* The bound on messages under way, which may all be on one connection: a step
\* that would send more waits until some have been received.
Bounded(p) == FoldFunction(LAMBDA messages, n : Len(messages) + n, 0, p) <= MaxUnderWay

\* GetConnectedAddresses.
ConnectedAddresses(members) == {AddressOf[a] : a \in members}

\* GetRemoteAddresses: the creator's address is left out.
RemoteAddresses(members) == ConnectedAddresses(members) \ {AddressOf[Creator]}

Unconnected == UNCHANGED <<clients, clientAddressMap, session>>

-----------------------------------------------------------------------------
(***************************************************************************)
(* Requests on rooms                                                       *)
(***************************************************************************)
\* CREATEROOM.  The creator is not in the room, and nobody is told.
CreateRoom ==
    /\ room = "none"
    /\ room' = "there" /\ avatars' = {}
    /\ UNCHANGED <<pipe, view, synced>> /\ Unconnected

\* ENTERROOM: the update goes to the servers of all who are in now.
EnterRoom(a) ==
    /\ room = "there" /\ a \notin avatars
    /\ avatars' = avatars \cup {a}
    /\ pipe' = SentTo(ConnectedAddresses(avatars'), Msg("MEnterRoom", {a}))
    /\ Bounded(pipe')
    /\ UNCHANGED <<room, view, synced>> /\ Unconnected

\* Mutant: the addresses are collected after the avatar has left.
LeaveRoomLate(a) ==
    /\ room = "there"
    /\ avatars' = avatars \ {a}
    /\ pipe' = SentTo(ConnectedAddresses(avatars'), Msg("MLeaveRoom", {a}))
    /\ Bounded(pipe')
    /\ UNCHANGED <<room, view, synced>> /\ Unconnected

\* LEAVEROOM, also by an avatar that is not in the room; LOGOUTAVATAR does the
\* same for the rooms the avatar is in.  The addresses are taken before.
LeaveRoom(a) ==
    /\ room = "there"
    /\ avatars' = avatars \ {a}
    /\ pipe' = SentTo(ConnectedAddresses(avatars), Msg("MLeaveRoom", {a}))
    /\ Bounded(pipe')
    /\ UNCHANGED <<room, view, synced>> /\ Unconnected

\* Mutant: the addresses are collected after the avatar was kicked.
KickAvatarLate(a) ==
    /\ room = "there" /\ a \in avatars
    /\ avatars' = avatars \ {a}
    /\ pipe' = SentTo(ConnectedAddresses(avatars'), Msg("MKickAvatar", {a}))
    /\ Bounded(pipe')
    /\ UNCHANGED <<room, view, synced>> /\ Unconnected

\* KICKAVATAR.
KickAvatar(a) ==
    /\ room = "there" /\ a \in avatars
    /\ avatars' = avatars \ {a}
    /\ pipe' = SentTo(ConnectedAddresses(avatars), Msg("MKickAvatar", {a}))
    /\ Bounded(pipe')
    /\ UNCHANGED <<room, view, synced>> /\ Unconnected

\* DESTROYROOM.
DestroyRoom ==
    /\ room = "there"
    /\ room' = "destroyed" /\ avatars' = {}
    /\ pipe' = SentTo(RemoteAddresses(avatars), Msg("MDestroyRoom", {}))
    /\ Bounded(pipe')
    /\ UNCHANGED <<view, synced>> /\ Unconnected

\* FAILOVER_RELOGINAVATAR of an avatar that is in the room announces it again.
Relogin(a) ==
    /\ room = "there" /\ a \in avatars
    /\ pipe' = SentTo(ConnectedAddresses(avatars), Msg("MEnterRoom", {a}))
    /\ Bounded(pipe')
    /\ UNCHANGED <<room, avatars, view, synced>> /\ Unconnected

\* GETROOM from server s, answered on the connection it came on.
GetRoom(s) ==
    /\ room = "there" /\ session[s] # None
    /\ pipe' = Sent(pipe, session[s], Msg("GetRoom", avatars))
    /\ Bounded(pipe')
    /\ UNCHANGED <<room, avatars, view, synced>> /\ Unconnected

-----------------------------------------------------------------------------
(***************************************************************************)
(* Connections                                                             *)
(***************************************************************************)
\* OnConnectRequest: a client is made at a free place.
OnConnectRequest(s, c) ==
    /\ clients[c].state = "free"
    /\ clients' = [clients EXCEPT ![c] = [state |-> "open", server |-> s]]
    /\ UNCHANGED <<clientAddressMap, room, avatars, pipe, view, session, synced>>

\* A SYSTEM avatar logs in over client c, with LOGINAVATAR or
\* FAILOVER_RELOGINAVATAR: RegisterClientAddress, and LoadRoomsFromStorage,
\* which empties rooms_ of all nodes and brings back the stored rooms under new
\* ids.  No server is told.  A server that starts a session has no list, and
\* drops what it has heard before the answer to the login.
SystemLogin(c) ==
    LET s == clients[c].server
    IN  /\ clients[c].state = "open"
        /\ clientAddressMap' = [clientAddressMap EXCEPT ![s] = c]
        /\ room' = (IF room = "there" THEN "emptied" ELSE room) /\ avatars' = {}
        /\ session' = [session EXCEPT ![s] = c]
        /\ view' = [view EXCEPT ![s] = {}] /\ synced' = synced \ {s}
        /\ pipe' = Sent(pipe, c, Msg("LoginAvatar", {}))
        /\ Bounded(pipe')
        /\ UNCHANGED clients

\* The connection of client c is lost, with what was under way on it.
Disconnected(c) ==
    /\ clients[c].state = "open"
    /\ clients' = [clients EXCEPT ![c] = Without("lost")]
    /\ pipe' = [pipe EXCEPT ![c] = <<>>]
    /\ session' = [s \in Server |-> IF session[s] = c THEN None ELSE session[s]]
    /\ synced' = synced \ {s \in Server : session[s] = c}
    /\ view' = [s \in Server |-> IF session[s] = c THEN {} ELSE view[s]]
    /\ UNCHANGED <<clientAddressMap, room, avatars>>

\* Mutant: only connections that are open are looked at.
TickKeepsLost ==
    /\ \E c \in Client : clients[c].state = "lost"
    /\ UNCHANGED vars

\* Node::Tick destroys the clients of lost connections.
Tick ==
    /\ \E c \in Client : clients[c].state = "lost"
    /\ clients' = [c \in Client |->
          IF clients[c].state = "lost" THEN Without("free") ELSE clients[c]]
    /\ UNCHANGED <<clientAddressMap, room, avatars, pipe, view, session, synced>>

\* What a server's list becomes with message m.
Updated(list, m) ==
    CASE m.type = "MEnterRoom" -> list \cup m.avatars
      [] m.type \in {"MLeaveRoom", "MKickAvatar"} -> list \ m.avatars
      [] m.type \in {"MDestroyRoom", "LoginAvatar"} -> {}
      [] m.type = "GetRoom" -> m.avatars

\* The server at the other end of client c receives a message.  Lists belong to
\* the session, so a message on another connection changes none.  The server
\* drops its list when none of its avatars is in it any more.
Receive(c) ==
    /\ pipe[c] # <<>>
    /\ pipe' = [pipe EXCEPT ![c] = Tail(@)]
    /\ LET s == clients[c].server
           m == Head(pipe[c])
           list == Updated(view[s], m)
           keep == list \cap Own(s) # {}
       IN  IF session[s] = c
           THEN /\ view' = [view EXCEPT ![s] = IF keep THEN list ELSE {}]
                /\ synced' = IF ~keep THEN synced \ {s}
                             ELSE IF m.type = "GetRoom" THEN synced \cup {s} ELSE synced
           ELSE UNCHANGED <<view, synced>>
    /\ UNCHANGED <<clients, clientAddressMap, room, avatars, session>>

\* The process dies and is started again, without memory.
Crash ==
    /\ clients' = [c \in Client |-> Without("free")]
    /\ clientAddressMap' = [s \in Server |-> None]
    /\ room' = "none" /\ avatars' = {}
    /\ pipe' = [c \in Client |-> <<>>]
    /\ session' = [s \in Server |-> None] /\ synced' = {}
    /\ view' = [s \in Server |-> {}]

Next ==
    \/ CreateRoom \/ DestroyRoom
    \/ \E a \in Avatar : EnterRoom(a) \/ LeaveRoom(a) \/ KickAvatar(a) \/ Relogin(a)
    \/ \E s \in Server : GetRoom(s)
    \/ \E s \in Server, c \in Client : OnConnectRequest(s, c)
    \/ \E c \in Client : SystemLogin(c) \/ Disconnected(c) \/ Receive(c)
    \/ Tick
    \/ Crash

Spec == Init /\ [][Next]_vars

\* main calls Tick over and over, and the channel delivers what was sent.
Fairness == WF_vars(Tick) /\ \A c \in Client : WF_vars(Receive(c))

-----------------------------------------------------------------------------
(***************************************************************************)
(* Properties                                                              *)
(***************************************************************************)
\* Server s is in a session, and has received all it was sent in it.
Drained(s) == session[s] # None /\ pipe[session[s]] = <<>>

\* A server in a session that has an avatar in the room, and has received what
\* it was sent, shows nobody in the room who is not, shows its own who are,
\* and once it has fetched the room shows exactly who is there.  Avatars of
\* other servers enter, leave, are kicked, and log in again meanwhile; older
\* connections of the server end; places of destroyed clients are used again.
ViewsAgree ==
    room = "there" =>
        \A s \in Server : Drained(s) /\ avatars \cap Own(s) # {} =>
            /\ avatars \cap Own(s) \subseteq view[s]
            /\ view[s] \subseteq avatars
            /\ s \in synced => view[s] = avatars

\* After a room was destroyed on request, no server in a session still shows
\* it, but for the creator's, which the code expects to have asked for it.
DestructionTold ==
    room = "destroyed" =>
        \A s \in Server : Drained(s) /\ view[s] # {} => s = AddressOf[Creator]

\* What servers show is right when they have received all they were sent, while
\* the room is there and after it was destroyed on request.
ViewsSound == TypeOK /\ ViewsAgree /\ DestructionTold

\* An avatar that left the room disappears from each server's list.
GhostsVanish ==
    \A s \in Server, a \in Avatar :
        (room = "there" /\ a \in view[s] /\ a \notin avatars)
            ~> (room # "there" \/ a \notin view[s] \/ a \in avatars)

\* The clients of lost connections are destroyed, those lost meanwhile too.
LostClientsDestroyed ==
    (\E c \in Client : clients[c].state = "lost")
        ~> \A c \in Client : clients[c].state # "lost"

\* In the end things settle: no server goes on showing an avatar that left, and no
\* client of a lost connection stays.
Settles == GhostsVanish /\ LostClientsDestroyed
=============================================================================
