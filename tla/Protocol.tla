------------------------------- MODULE Protocol -------------------------------
(***************************************************************************)
(* The requests of the gateway as data: what each reads, what its handler  *)
(* does in which order, and what its answer carries (protocol/*.hpp,       *)
(* Protocol.cpp).                                                          *)
(*                                                                         *)
(* A handler is a set of paths, as it may branch on what it finds; a path  *)
(* is a sequence of steps.  What a step does to rooms, avatars and         *)
(* messages is the business of other modules; here it has an outcome.      *)
(* Left out: the data of the fields, and logging.                          *)
(***************************************************************************)
EXTENDS Naturals, Sequences

-----------------------------------------------------------------------------
(***************************************************************************)
(* Steps                                                                   *)
(***************************************************************************)
\* A step of kind op is about the objects "on", which all but "find", "need" and
\* "make" dereference.  It uses the fields "by" of the request, and puts the
\* fields "puts" of the response.  Outcomes: "done", "null" (nothing found),
\* "DATABASE" (MariaDBException, perhaps after a change), "dies" (the process
\* ends, by an exception nobody catches or undefined behaviour in what the step
\* calls), or the code of a ChatResultException.  Any step may run out of
\* memory, which is left out.
Step(op, on, by, puts, outcomes) ==
    [op |-> op, on |-> on, by |-> by, puts |-> puts, outcomes |-> outcomes]

\* GetAvatar, which may have to load the avatar, and GetRoom, which does not.
FindAvatar(x, by) == Step("find", {x}, by, {}, {"done", "null", "DATABASE"})
FindRoom(by) == Step("find", {"room"}, by, {}, {"done", "null"})

\* "if (!x) throw ChatResultException".
Need(x, code) == Step("need", {x}, {}, {}, {code})

\* "if (!x) x = CreateAvatar(...)".
Make(x, by) == Step("make", {x}, by, {}, {"done", "DATABASE"})

\* Something is tested or fetched.
Check(on, by, outcomes) == Step("use", on, by, {}, {"done"} \cup outcomes)

\* A member of the response is given a value or a pointer that is read, here or
\* when the answer is written, from the objects on.
Put(field, on) == Step("use", on, {}, {field}, {"done"})

\* Something is changed; a ChatResultException leaves it as it was.
Change(on, by, outcomes) == Step("change", on, by, {}, {"done"} \cup outcomes)

\* Updates are written about the objects on and sent to game servers.  The process
\* may die: SendTo goes through pointers to clients that may be freed, and the
\* updates to friends walk lists that may hold a null contact, as those do that
\* were loaded while a friend could not be (ChatAvatarService.cpp:451).
Tell(on) == Step("tell", on, {}, {}, {"done", "dies"})

\* A path taken by requests in which the flag of the request is set or not.
Path(flag, steps) == [flag |-> flag, steps |-> steps]
Handler(steps) == {Path(FALSE, steps), Path(TRUE, steps)}

-----------------------------------------------------------------------------
(***************************************************************************)
(* What is read and written                                                *)
(***************************************************************************)
\* The fields of a request read always, those read only if a flag among them is
\* set and those read only if it is not, the fields of the answer written
\* whatever the result, and those written on SUCCESS alone.  Type and track
\* are read first, and come with the result first in the answer.
Messages(reads, ifSet, ifNot, always, onSuccess) ==
    [reads |-> reads, ifSet |-> ifSet, ifNot |-> ifNot,
     always |-> always, onSuccess |-> onSuccess]

\* A request without optional fields.
Plain(reads, always, onSuccess) == Messages(reads, {}, {}, always, onSuccess)

\* Members of responses that have a value as soon as the response is made.
Initialised == {"gotRoomObj", "rooms", "headers", "extraRooms"}

StaffFields ==
    {"srcAvatarId", "destAvatarName", "destAvatarAddress", "destRoomAddress", "srcAddress"}
ContactFields == {"srcAvatarId", "destName", "destAddress", "srcAddress"}
RoomFields == {"srcAvatarId", "roomAddress", "srcAddress"}

AddBanMessages == Plain(StaffFields, {"destRoomId"}, {})
AddFriendMessages == Plain(ContactFields \cup {"comment", "confirm"}, {}, {})
AddIgnoreMessages == Plain(ContactFields, {}, {})
AddInviteMessages == Plain(StaffFields, {"destRoomId"}, {})
AddModeratorMessages == Plain(StaffFields, {"destRoomId"}, {})
CreateRoomMessages ==
    Plain({"creatorId", "roomName", "roomTopic", "roomPassword", "roomAttributes",
           "roomMaxSize", "roomAddress", "srcAddress"}, {}, {"room", "extraRooms"})
DestroyAvatarMessages == Plain({"avatarId", "address"}, {}, {})
DestroyRoomMessages == Plain(RoomFields, {"roomId"}, {})
EnterRoomMessages ==
    Messages(RoomFields \cup {"roomPassword", "passiveCreate", "requestingEntry"},
             {"paramRoomTopic", "paramRoomAttributes", "paramRoomMaxSize"}, {},
             {"roomId", "gotRoomObj"}, {})
FailoverReLoginAvatarMessages ==
    Plain({"avatarId", "userId", "name", "address", "loginLocation", "loginPriority",
           "attributes"}, {}, {})
FriendStatusMessages == Plain({"srcAvatarId", "srcAddress"}, {}, {"srcAvatar"})
GetAnyAvatarMessages == Plain({"name", "address"}, {"isOnline"}, {"avatar"})
GetPersistentHeadersMessages == Plain({"avatarId", "category"}, {"headers"}, {})
GetPersistentMessageMessages == Plain({"srcAvatarId", "messageId"}, {}, {"message"})
GetRoomMessages == Plain({"roomAddress"}, {}, {"room", "extraRooms"})
GetRoomSummariesMessages == Plain({"startNodeAddress", "roomFilter"}, {"rooms"}, {})
IgnoreStatusMessages == Plain({"srcAvatarId", "srcAddress"}, {}, {"srcAvatar"})
KickAvatarMessages == Plain(StaffFields, {"destRoomId"}, {})
LeaveRoomMessages == Plain(RoomFields, {"roomId"}, {})
LoginAvatarMessages ==
    Plain({"userId", "name", "address", "loginLocation", "loginPriority", "loginAttributes"},
          {}, {"avatar"})
LogoutAvatarMessages == Plain({"avatarId"}, {}, {})
RemoveBanMessages == Plain(StaffFields, {"destRoomId"}, {})
RemoveFriendMessages == Plain(ContactFields, {}, {})
RemoveIgnoreMessages == Plain(ContactFields, {}, {})
RemoveInviteMessages == Plain(StaffFields, {"destRoomId"}, {})
RemoveModeratorMessages == Plain(StaffFields, {"destRoomId"}, {})
SendInstantMessageMessages == Plain(ContactFields \cup {"message", "oob"}, {}, {})
SendPersistentMessageMessages ==
    Messages({"avatarPresence", "destName", "destAddress", "subject", "msg", "oob",
              "category", "enforceInboxLimit", "categoryLimit"},
             {"srcAvatarId"}, {"srcName"}, {}, {"messageId"})
SendRoomMessageMessages ==
    Plain({"srcAvatarId", "destRoomAddress", "message", "oob", "srcAddress"}, {"roomId"}, {})
SetApiVersionMessages == Plain({"version"}, {"version"}, {})
SetAvatarAttributesMessages ==
    Plain({"avatarId", "avatarAttributes", "persistent", "srcAddress"}, {}, {"avatar"})
UpdatePersistentMessageMessages == Plain({"srcAvatarId", "messageId", "status"}, {}, {})
UpdatePersistentMessagesMessages ==
    Plain({"srcAvatarId", "currentStatus", "newStatus", "category"}, {}, {})

-----------------------------------------------------------------------------
(***************************************************************************)
(* What the handlers do                                                    *)
(***************************************************************************)
FindSource ==
    <<FindAvatar("srcAvatar", {"srcAvatarId"}), Need("srcAvatar", "SRCAVATARDOESNTEXIST")>>

FindDest ==
    <<FindAvatar("destAvatar", {"destName", "destAddress"}),
      Need("destAvatar", "DESTAVATARDOESNTEXIST")>>

FindRoomAt(field) == <<FindRoom({field}), Need("room", "ADDRESSNOTROOM")>>

\* The beginning of all requests about someone in a room.
FindStaff ==
    FindSource
    \o <<FindAvatar("destAvatar", {"destAvatarName", "destAvatarAddress"}),
         Need("destAvatar", "DESTAVATARDOESNTEXIST")>>
    \o FindRoomAt("destRoomAddress")
    \o <<Put("destRoomId", {"room"})>>

\* A request that changes the room's lists; codes that ChatRoom may throw.
StaffChange(outcomes) ==
    Handler(FindStaff \o
            <<Change({"room", "srcAvatar", "destAvatar"}, {}, {"ROOM_NOPRIVILEGES"} \cup outcomes)>>)

AddBan == StaffChange({"ROOM_DUPLICATEBAN", "DATABASE"})
AddInvite == StaffChange({"ROOM_DUPLICATEINVITE"})
RemoveBan == StaffChange({"ROOM_DESTAVATARNOTBANNED", "DATABASE"})
RemoveInvite == StaffChange({"ROOM_DESTAVATARNOTINVITED"})
RemoveModerator == StaffChange({"ROOM_DESTAVATARNOTMODERATOR", "DATABASE"})

\* In a room that was loaded, roomService_ is null.
AddModerator == StaffChange({"ROOM_DUPLICATEMODERATOR", "DATABASE", "dies"})

\* Mutant: the update is sent before the kick is allowed.
KickAvatarTellsFirst ==
    Handler(FindStaff \o
            <<Tell({"srcAvatar", "destAvatar", "room"}),
              Change({"room", "srcAvatar", "destAvatar"}, {},
                     {"ROOM_NOPRIVILEGES", "ROOM_NOTINROOM"})>>)

KickAvatar ==
    Handler(FindStaff \o
            <<Change({"room", "srcAvatar", "destAvatar"}, {},
                     {"ROOM_NOPRIVILEGES", "ROOM_NOTINROOM"}),
              Tell({"srcAvatar", "destAvatar", "room"})>>)

\* The creator is looked up and not tested; the room's constructor reads it.
CreateRoom ==
    Handler(<<FindAvatar("creator", {"creatorId"}),
              Check({}, {"roomAddress", "roomName"}, {"ROOM_ALREADYEXISTS"}),
              Change({"creator"}, {"roomName", "roomTopic", "roomPassword", "roomAttributes",
                                   "roomMaxSize", "roomAddress", "srcAddress"}, {}),
              Put("room", {})>>)

\* ChatRoomService::DestroyRoom may read freed memory.
DestroyRoom ==
    Handler(FindSource \o FindRoomAt("roomAddress") \o
            <<Put("roomId", {"room"}), Change({"room"}, {}, {"DATABASE", "dies"}),
              Tell({"srcAvatar"})>>)

EnterRoom ==
    Handler(FindSource \o FindRoomAt("roomAddress") \o
            <<Put("roomId", {"room"}),
              Change({"room", "srcAvatar"}, {"roomPassword"},
                     {"ROOM_PRIVATEROOM", "ROOM_BANNEDAVATAR", "ROOM_ALREADYINROOM"}),
              Tell({"srcAvatar", "room"})>>)

LeaveRoom ==
    Handler(FindSource \o FindRoomAt("roomAddress") \o
            <<Put("roomId", {"room"}), Change({"room", "srcAvatar"}, {}, {}),
              Tell({"srcAvatar", "room"})>>)

GetRoom ==
    Handler(<<FindRoom({"roomAddress"}), Need("room", "ADDRESSDOESNTEXIST"), Put("room", {"room"})>>)

GetRoomSummaries ==
    Handler(<<Check({}, {"startNodeAddress", "roomFilter"}, {}), Put("rooms", {})>>)

SendRoomMessage ==
    Handler(FindSource \o FindRoomAt("destRoomAddress") \o
            <<Put("roomId", {"room"}), Change({"room"}, {"message", "oob"}, {}),
              Tell({"srcAvatar", "room"})>>)

\* Friends and ignores: the friend who is online is told of.  A list of friends
\* that is searched or written may hold a null contact.
AddFriend ==
    LET added == FindSource \o FindDest
                 \o <<Change({"srcAvatar", "destAvatar"}, {}, {"DATABASE", "dies"})>>
    IN  Handler(added) \cup Handler(added \o <<Tell({"srcAvatar", "destAvatar"})>>)

AddIgnore ==
    Handler(FindSource \o FindDest
            \o <<Change({"srcAvatar", "destAvatar"}, {}, {"DATABASE", "dies"})>>)

\* Mutant: the wrong avatar is tested.
RemoveFriendWrongTest ==
    Handler(FindSource \o
            <<FindAvatar("destAvatar", {"destName", "destAddress"}),
              Need("srcAvatar", "DESTAVATARDOESNTEXIST"),
              Change({"srcAvatar", "destAvatar"}, {}, {"DATABASE", "dies"})>>)

RemoveFriend ==
    Handler(FindSource \o FindDest
            \o <<Change({"srcAvatar", "destAvatar"}, {}, {"DATABASE", "dies"})>>)

\* The second test is of srcAvatar again; destAvatar is read if anyone is
\* ignored.  Lists of ignored avatars are never loaded, and hold no null.
RemoveIgnore ==
    LET found == FindSource \o <<FindAvatar("destAvatar", {"destName", "destAddress"}),
                                 Need("srcAvatar", "DESTAVATARDOESNTEXIST")>>
    IN  Handler(found \o <<Change({"srcAvatar", "destAvatar"}, {}, {"DATABASE"})>>)
        \cup Handler(found \o <<Check({"srcAvatar"}, {}, {})>>)

\* The answer is written contact by contact.
FriendStatus ==
    Handler(FindSource \o <<Step("use", {"srcAvatar"}, {}, {"srcAvatar"}, {"done", "dies"})>>)

IgnoreStatus == Handler(FindSource \o <<Put("srcAvatar", {"srcAvatar"})>>)

\* Mutant: isOnline is not passed on.
GetAnyAvatarBlank ==
    Handler(<<FindAvatar("avatar", {"name", "address"}), Need("avatar", "SRCAVATARDOESNTEXIST"),
              Put("avatar", {"avatar"})>>)

GetAnyAvatar ==
    Handler(<<FindAvatar("avatar", {"name", "address"}), Need("avatar", "SRCAVATARDOESNTEXIST"),
              Put("isOnline", {"avatar"}), Put("avatar", {"avatar"})>>)

\* The login of an avatar, for the website too: that of a SYSTEM avatar, which
\* loads the rooms and where a std::runtime_error is thrown, and of others.
Login(attributes) ==
    LET online == <<FindAvatar("avatar", {"name", "address"}),
                    Make("avatar", {"name", "address", "userId", "loginLocation", attributes}),
                    Change({"avatar"}, {}, {}), Change({"avatar"}, {}, {"DATABASE"})>>
    IN  {online \o <<Change({"avatar"}, {"address"}, {"dies"})>>,
         online \o <<Tell({"avatar"})>>}

LoginAvatar ==
    UNION {Handler(steps \o <<Put("avatar", {"avatar"})>>) : steps \in Login("loginAttributes")}

FailoverReLoginAvatar ==
    UNION {Handler(steps) \cup Handler(steps \o <<Tell({"avatar"})>>) : steps \in Login("attributes")}

\* The avatar is not tested.  It leaves its rooms one by one; friends and the
\* rooms' game servers are told before the website's database may refuse.
LogoutAvatar ==
    LET found == <<FindAvatar("avatar", {"avatarId"})>>
        left == <<Change({"avatar"}, {}, {}), Tell({"avatar"})>>
        offline == <<Tell({"avatar"}), Change({"avatar"}, {}, {}), Change({"avatar"}, {}, {"DATABASE"})>>
    IN  Handler(found \o offline) \cup Handler(found \o left \o offline)

\* No request leads here.
DestroyAvatar ==
    Handler(<<FindAvatar("avatar", {"avatarId"}), Need("avatar", "SRCAVATARDOESNTEXIST"),
              Change({"avatar"}, {}, {}), Tell({"avatar"}), Change({"avatar"}, {}, {"DATABASE"})>>)

SetAvatarAttributes ==
    LET found == <<FindAvatar("avatar", {"avatarId"}), Need("avatar", "SRCAVATARDOESNTEXIST"),
                   Put("avatar", {"avatar"}), Check({"avatar"}, {"avatarAttributes"}, {})>>
        set == found \o <<Change({"avatar"}, {"avatarAttributes", "persistent"}, {})>>
    IN  Handler(found) \cup Handler(set)
        \cup Handler(set \o <<Change({"avatar"}, {}, {"DATABASE"})>>)

SetApiVersion ==
    Handler(<<Put("version", {}), Check({}, {"version"}, {"WRONGCHATSERVERFORREQUEST"})>>)

SendInstantMessage ==
    Handler(FindSource \o FindDest \o
            <<Check({"srcAvatar", "destAvatar"}, {"message", "oob"}, {"IGNORING"}),
              Tell({"srcAvatar", "destAvatar"})>>)

\* Sending mail: the message is stored, copied for the website, and announced.
FromAvatar == FindSource \o <<Check({"srcAvatar", "destAvatar"}, {}, {"IGNORING"})>>
StoreMail ==
    <<Change({"destAvatar"}, {"subject", "category", "msg", "oob"}, {"DATABASE"})>>
AnnounceMail ==
    <<Change({"destAvatar"}, {}, {"DATABASE"}), Put("messageId", {}), Tell({"destAvatar"})>>

\* Mutant: the sender is looked up whether or not the request names one.
SendPersistentMessageAnySource ==
    Handler(FindDest \o FromAvatar \o StoreMail \o AnnounceMail)

\* Mutant: whether the sender is ignored is found out after storing.
SendPersistentMessageLateTest ==
    {Path(TRUE, FindDest \o StoreMail \o FromAvatar \o AnnounceMail),
     Path(FALSE, FindDest \o <<Check({}, {"srcName"}, {})>> \o StoreMail \o AnnounceMail)}

\* The flag is avatarPresence.
SendPersistentMessage ==
    {Path(TRUE, FindDest \o FromAvatar \o StoreMail \o AnnounceMail),
     Path(FALSE, FindDest \o <<Check({}, {"srcName"}, {})>> \o StoreMail \o AnnounceMail)}

GetPersistentHeaders ==
    Handler(<<Check({}, {"avatarId"}, {"DATABASE"}), Put("headers", {})>>)

\* A message that is NEW is marked READ.
GetPersistentMessage ==
    LET read == <<Check({}, {"srcAvatarId", "messageId"}, {"DATABASE", "PMSGNOTFOUND"})>>
    IN  Handler(read \o <<Put("message", {})>>)
        \cup Handler(read \o <<Change({}, {}, {"DATABASE"}), Put("message", {})>>)

UpdatePersistentMessage == Handler(<<Change({}, {"srcAvatarId", "messageId", "status"}, {"DATABASE"})>>)

UpdatePersistentMessages ==
    Handler(<<Change({}, {"srcAvatarId", "category", "newStatus"}, {"DATABASE"})>>)
=============================================================================
