--------------------------- MODULE RequestHandling ---------------------------
(***************************************************************************)
(* One connection of a gateway: requests are read, dispatched, handled and *)
(* answered one at a time (GatewayClient::OnIncoming and                   *)
(* HandleIncomingMessage), each step of a handler (Protocol) with every    *)
(* outcome it can have.  A failure ends the handler, never undoes what it  *)
(* did.                                                                    *)
(*                                                                         *)
(* Requests arrive in the order sent (external: the reliable channel of    *)
(* the UDP library) and may wait while one is handled; the process may die *)
(* while a request is read or handled, and systemd starts it again.        *)
(***************************************************************************)
EXTENDS Protocol

CONSTANTS
    Codes,        \* the request types a client sends, as numbers
    MaxRequests   \* bound: requests of one connection

ASSUME RequestsAssumption == Codes \subseteq Nat /\ MaxRequests \in Nat

VARIABLES
    asked,    \* history: the codes the client sent; its place is the track
    next,     \* how many of them have been read
    work,     \* the request being handled, or NoWork
    outbox,   \* the answers, in the order sent
    dead      \* <<>>, or the type of the request the process died of and how:
              \* of an object not found ("null"), or of a step ("dies")

vars == <<asked, next, work, outbox, dead>>

-----------------------------------------------------------------------------
\* The enumerations are numbered from 0 in this order; those after FILTERMESSAGE_EX
\* are the registrar's.
RequestTypes ==
    <<"LOGINAVATAR", "LOGOUTAVATAR", "DESTROYAVATAR", "GETAVATAR", "CREATEROOM", "DESTROYROOM",
      "SENDINSTANTMESSAGE", "SENDROOMMESSAGE", "SENDBROADCASTMESSAGE", "ADDFRIEND", "REMOVEFRIEND",
      "FRIENDSTATUS", "ADDIGNORE", "REMOVEIGNORE", "ENTERROOM", "LEAVEROOM", "ADDMODERATOR",
      "REMOVEMODERATOR", "ADDBAN", "REMOVEBAN", "ADDINVITE", "REMOVEINVITE", "KICKAVATAR",
      "SETROOMPARAMS", "GETROOM", "GETROOMSUMMARIES", "SENDPERSISTENTMESSAGE",
      "GETPERSISTENTHEADERS", "GETPERSISTENTMESSAGE", "UPDATEPERSISTENTMESSAGE",
      "UNREGISTERROOM", "IGNORESTATUS", "FAILOVER_RELOGINAVATAR", "FAILOVER_RECREATEROOM",
      "CONFIRMFRIEND", "GETAVATARKEYWORDS", "SETAVATARKEYWORDS", "SEARCHAVATARKEYWORDS",
      "GETFANCLUBHANDLE", "UPDATEPERSISTENTMESSAGES", "FINDAVATARBYUID", "CHANGEROOMOWNER",
      "SETAPIVERSION", "ADDTEMPORARYMODERATOR", "REMOVETEMPORARYMODERATOR", "GRANTVOICE",
      "REVOKEVOICE", "SETAVATARATTRIBUTES", "ADDSNOOPAVATAR", "REMOVESNOOPAVATAR",
      "ADDSNOOPROOM", "REMOVESNOOPROOM", "GETSNOOPLIST", "PARTIALPERSISTENTHEADERS",
      "COUNTPERSISTENTMESSAGES", "PURGEPERSISTENTMESSAGES", "SETFRIENDCOMMENT",
      "TRANSFERAVATAR", "CHANGEPERSISTENTFOLDER", "ALLOWROOMENTRY", "SETAVATAREMAIL",
      "SETAVATARINBOXLIMIT", "SENDMULTIPLEPERSISTENTMESSAGES", "GETMULTIPLEPERSISTENTMESSAGES",
      "ALTERPERISTENTMESSAGE", "GETANYAVATAR", "TEMPORARYAVATAR", "AVATARLIST",
      "SETAVATARSTATUSMESSAGE", "CONFIRMFRIEND_RECIPROCATE", "ADDFRIEND_RECIPROCATE",
      "REMOVEFRIEND_RECIPROCATE", "FILTERMESSAGE", "FILTERMESSAGE_EX">>

\* Mutant: an enumerator is missing.
ResponseTypesMissOne == SubSeq(RequestTypes, 1, 3) \o SubSeq(RequestTypes, 5, Len(RequestTypes))

\* Two names that no answer has are spelt otherwise.
ResponseTypes ==
    [RequestTypes EXCEPT ![65] = "ALTERPERSISTENTMESSAGE", ![69] = "SETSTATUSMESSAGE"]

Code(types, type) == (CHOOSE i \in DOMAIN types : types[i] = type) - 1

\* The request of a type, as it is read, and its answer, as it is written.
MessagesOf ==
    [ADDBAN |-> AddBanMessages, ADDFRIEND |-> AddFriendMessages, ADDIGNORE |-> AddIgnoreMessages,
     ADDINVITE |-> AddInviteMessages, ADDMODERATOR |-> AddModeratorMessages,
     CREATEROOM |-> CreateRoomMessages, DESTROYAVATAR |-> DestroyAvatarMessages,
     DESTROYROOM |-> DestroyRoomMessages, ENTERROOM |-> EnterRoomMessages,
     FAILOVER_RELOGINAVATAR |-> FailoverReLoginAvatarMessages,
     FRIENDSTATUS |-> FriendStatusMessages, GETANYAVATAR |-> GetAnyAvatarMessages,
     GETPERSISTENTHEADERS |-> GetPersistentHeadersMessages,
     GETPERSISTENTMESSAGE |-> GetPersistentMessageMessages, GETROOM |-> GetRoomMessages,
     GETROOMSUMMARIES |-> GetRoomSummariesMessages, IGNORESTATUS |-> IgnoreStatusMessages,
     KICKAVATAR |-> KickAvatarMessages, LEAVEROOM |-> LeaveRoomMessages,
     LOGINAVATAR |-> LoginAvatarMessages, LOGOUTAVATAR |-> LogoutAvatarMessages,
     REMOVEBAN |-> RemoveBanMessages, REMOVEFRIEND |-> RemoveFriendMessages,
     REMOVEIGNORE |-> RemoveIgnoreMessages, REMOVEINVITE |-> RemoveInviteMessages,
     REMOVEMODERATOR |-> RemoveModeratorMessages,
     SENDINSTANTMESSAGE |-> SendInstantMessageMessages,
     SENDPERSISTENTMESSAGE |-> SendPersistentMessageMessages,
     SENDROOMMESSAGE |-> SendRoomMessageMessages, SETAPIVERSION |-> SetApiVersionMessages,
     SETAVATARATTRIBUTES |-> SetAvatarAttributesMessages,
     UPDATEPERSISTENTMESSAGE |-> UpdatePersistentMessageMessages,
     UPDATEPERSISTENTMESSAGES |-> UpdatePersistentMessagesMessages]

\* The paths of the constructor of Protocol.cpp that handles a type.
HandlerOf ==
    [ADDBAN |-> AddBan, ADDFRIEND |-> AddFriend, ADDIGNORE |-> AddIgnore, ADDINVITE |-> AddInvite,
     ADDMODERATOR |-> AddModerator, CREATEROOM |-> CreateRoom, DESTROYAVATAR |-> DestroyAvatar,
     DESTROYROOM |-> DestroyRoom, ENTERROOM |-> EnterRoom,
     FAILOVER_RELOGINAVATAR |-> FailoverReLoginAvatar, FRIENDSTATUS |-> FriendStatus,
     GETANYAVATAR |-> GetAnyAvatar, GETPERSISTENTHEADERS |-> GetPersistentHeaders,
     GETPERSISTENTMESSAGE |-> GetPersistentMessage, GETROOM |-> GetRoom,
     GETROOMSUMMARIES |-> GetRoomSummaries, IGNORESTATUS |-> IgnoreStatus,
     KICKAVATAR |-> KickAvatar, LEAVEROOM |-> LeaveRoom, LOGINAVATAR |-> LoginAvatar,
     LOGOUTAVATAR |-> LogoutAvatar, REMOVEBAN |-> RemoveBan, REMOVEFRIEND |-> RemoveFriend,
     REMOVEIGNORE |-> RemoveIgnore, REMOVEINVITE |-> RemoveInvite,
     REMOVEMODERATOR |-> RemoveModerator, SENDINSTANTMESSAGE |-> SendInstantMessage,
     SENDPERSISTENTMESSAGE |-> SendPersistentMessage, SENDROOMMESSAGE |-> SendRoomMessage,
     SETAPIVERSION |-> SetApiVersion, SETAVATARATTRIBUTES |-> SetAvatarAttributes,
     UPDATEPERSISTENTMESSAGE |-> UpdatePersistentMessage,
     UPDATEPERSISTENTMESSAGES |-> UpdatePersistentMessages]

\* The cases of the switch: none for DESTROYAVATAR, which has a handler.
Cases == DOMAIN HandlerOf \ {"DESTROYAVATAR"}

TypeOfCode(code) ==
    IF code + 1 \in DOMAIN RequestTypes THEN RequestTypes[code + 1] ELSE "unknown"

Dispatched(code) == TypeOfCode(code) \in Cases

\* The requests without a text among their fields.
WithoutText == {"LOGOUTAVATAR", "GETPERSISTENTMESSAGE", "SETAPIVERSION", "UPDATEPERSISTENTMESSAGE"}

-----------------------------------------------------------------------------
NoWork == [type |-> "none"]

Init ==
    /\ asked = <<>>
    /\ next = 0
    /\ work = NoWork
    /\ outbox = <<>>
    /\ dead = <<>>

\* The client sends a request.
Ask(code) ==
    /\ dead = <<>> /\ Len(asked) < MaxRequests
    /\ asked' = Append(asked, code)
    /\ UNCHANGED <<next, work, outbox, dead>>

\* Mutant: the answer has no result until one is given.
NewWorkUnset(type, track, path) ==
    [type |-> type, track |-> track, flag |-> path.flag, steps |-> path.steps, null |-> {},
     puts |-> Initialised, result |-> "none", changed |-> FALSE, told |-> FALSE]

\* A request that was read, with its answer: null are the objects not found.
NewWork(type, track, path) ==
    [type |-> type, track |-> track, flag |-> path.flag, steps |-> path.steps, null |-> {},
     puts |-> Initialised, result |-> "SUCCESS", changed |-> FALSE, told |-> FALSE]

\* The oldest request is read and its handler found; one of an unknown type is
\* logged and dropped.  The length of a text, 32 bits, may be anything or never
\* have come (NodeClient): making room for it throws, where nobody catches.
OnIncoming ==
    /\ dead = <<>> /\ work = NoWork /\ next < Len(asked)
    /\ next' = next + 1
    /\ LET code == asked[next + 1]
           type == TypeOfCode(code)
       IN  IF Dispatched(code)
           THEN \E path \in HandlerOf[type] :
                    /\ work' = NewWork(type, next + 1, path)
                    /\ dead' = <<>> \/ (type \notin WithoutText /\ dead' = <<type, "dies">>)
           ELSE UNCHANGED <<work, dead>>
    /\ UNCHANGED <<asked, outbox>>

\* What the next step of a handler does when it ends well.
Done(step) ==
    [work EXCEPT !.steps = Tail(@), !.puts = @ \cup step.puts,
                 !.null = IF step.op = "make" THEN @ \ step.on ELSE @,
                 !.changed = @ \/ step.op \in {"make", "change"},
                 !.told = @ \/ step.op = "tell"]

\* The exception of a step ends the handler; its code is the result.
Thrown(step, code) ==
    [work EXCEPT !.steps = <<>>, !.result = code,
                 !.changed = @ \/ (code = "DATABASE" /\ step.op \in {"make", "change"})]

\* Only what was not found is needed or made.
Skips(step) == step.op \in {"need", "make"} /\ step.on \cap work.null = {}

\* Does the step read an object that was not found?
Dereferences(step) ==
    step.op \in {"use", "change", "tell"} /\ step.on \cap work.null # {}

\* A step of the handler ends with the outcome.
Ends(step, outcome) ==
    CASE outcome = "done" -> work' = Done(step) /\ UNCHANGED dead
      [] outcome = "null" -> work' = [Done(step) EXCEPT !.null = @ \cup step.on] /\ UNCHANGED dead
      [] outcome = "dies" -> dead' = <<work.type, "dies">> /\ UNCHANGED work
      [] OTHER -> work' = Thrown(step, outcome) /\ UNCHANGED dead

\* One step of the handler.
Perform ==
    /\ dead = <<>> /\ work # NoWork /\ work.steps # <<>>
    /\ LET step == Head(work.steps)
       IN  \/ /\ Skips(step)
              /\ work' = [work EXCEPT !.steps = Tail(@)]
              /\ UNCHANGED dead
           \/ /\ Dereferences(step)
              /\ dead' = <<work.type, "null">>
              /\ UNCHANGED work
           \/ /\ ~Skips(step) /\ ~Dereferences(step)
              /\ \E outcome \in step.outcomes : Ends(step, outcome)
    /\ UNCHANGED <<asked, next, outbox>>

\* The fields of the answer that are written.
Written ==
    LET messages == MessagesOf[work.type]
    IN  messages.always \cup (IF work.result = "SUCCESS" THEN messages.onSuccess ELSE {})

\* Mutant: a request that is refused gets no answer.
SendOnlySuccess ==
    /\ dead = <<>> /\ work # NoWork /\ work.steps = <<>>
    /\ outbox' = IF work.result = "SUCCESS"
                 THEN Append(outbox, [code |-> Code(ResponseTypes, work.type), track |-> work.track,
                                      result |-> work.result, blank |-> Written \ work.puts])
                 ELSE outbox
    /\ work' = NoWork
    /\ UNCHANGED <<asked, next, dead>>

\* The handler has returned: the answer is written, with the fields it has no
\* value for too, which hold whatever was there.
Send ==
    /\ dead = <<>> /\ work # NoWork /\ work.steps = <<>>
    /\ outbox' = Append(outbox, [code |-> Code(ResponseTypes, work.type), track |-> work.track,
                                 result |-> work.result, blank |-> Written \ work.puts])
    /\ work' = NoWork
    /\ UNCHANGED <<asked, next, dead>>

\* The connection ends, between requests, or the process that died is started
\* again: the client connects anew.
Reconnect ==
    /\ work = NoWork \/ dead # <<>>
    /\ asked' = <<>> /\ next' = 0 /\ work' = NoWork /\ outbox' = <<>> /\ dead' = <<>>

Next ==
    \/ \E code \in Codes : Ask(code)
    \/ OnIncoming
    \/ Perform
    \/ Send
    \/ Reconnect

Spec == Init /\ [][Next]_vars

\* The main loop gives each packet that arrived to OnIncoming, which returns when
\* the answer has been sent.  Nothing is promised of clients.
Fairness == WF_vars(OnIncoming) /\ WF_vars(Perform) /\ WF_vars(Send)

FairSpec == Spec /\ Fairness

-----------------------------------------------------------------------------
\* Results an answer can have: SUCCESS, what a handler throws, or DATABASE.
OutcomesOf(path) == UNION {path.steps[i].outcomes : i \in DOMAIN path.steps}
Outcomes == UNION {OutcomesOf(path) : path \in UNION {HandlerOf[type] : type \in Cases}}
Results == {"SUCCESS"} \cup (Outcomes \ {"done", "null", "dies"})

\* The state has its type; in particular, whatever a handler did, its answer has
\* one of the results of the enumeration (HandleIncomingMessage).
TypeOK ==
    /\ asked \in Seq(Codes) /\ Len(asked) <= MaxRequests
    /\ next \in 0 .. Len(asked)
    /\ work # NoWork => work.type \in Cases /\ work.result \in Results
    /\ \A i \in DOMAIN outbox : outbox[i].result \in Results
    /\ dead # <<>> => work # NoWork

\* The places in "asked" that were answered, and those that have been read and have
\* a handler.
Answered == {outbox[i].track : i \in DOMAIN outbox}
Read == {i \in 1 .. next : Dispatched(asked[i])}

\* Answers are in the order of the requests, one for each that was dispatched
\* but for the one in work, with its track and its number: the client matches
\* them by these alone, and the numbers are two enumerations kept in step by
\* hand (OnIncoming).
AnswersInOrder ==
    /\ Answered = (IF work = NoWork THEN Read ELSE Read \ {next})
    /\ \A i, j \in DOMAIN outbox : i < j => outbox[i].track < outbox[j].track
    /\ \A i \in DOMAIN outbox : outbox[i].code = asked[outbox[i].track]

\* An answer of SUCCESS carries no field that the handler left without a value:
\* the structures of protocol/*.hpp do not initialise most of them.
SuccessIsComplete ==
    \A i \in DOMAIN outbox : outbox[i].result = "SUCCESS" => outbox[i].blank = {}

\* Nobody is told of what was refused, but of a logout that the website's
\* database refuses: friends and rooms were told before it is asked.
RefusalsAreSilent ==
    work # NoWork /\ work.result # "SUCCESS" /\ work.told => work.type = "LOGOUTAVATAR"

\* A request that is refused for what it asks, not because of the database,
\* has changed nothing: handlers test first and change then.
RefusalsChangeNothing ==
    work # NoWork /\ work.result \notin {"SUCCESS", "DATABASE"} => ~work.changed

\* A handler that reads an object it did not find ends the process, and every
\* connection with it.  Three do, which do not test an avatar, and none of them
\* after it has changed something or told others, who would be left with a part
\* of the request.  (Not the only way to die: that is any step that "dies".)
UntestedUseComesFirst ==
    dead # <<>> /\ dead[2] = "null" =>
        dead[1] \in {"LOGOUTAVATAR", "REMOVEIGNORE", "CREATEROOM"} /\ ~work.changed /\ ~work.told

\* A handler uses no field of the request that was not read: which are read
\* depends on a flag of the request (SendPersistentMessage, EnterRoom).
ReadBeforeUse ==
    work # NoWork /\ work.steps # <<>> =>
        LET messages == MessagesOf[work.type]
        IN  Head(work.steps).by \subseteq
                messages.reads \cup (IF work.flag THEN messages.ifSet ELSE messages.ifNot)

\* Answers are right: of their types, each to its request, in order, and complete
\* if they are of success.
AnswersSound == TypeOK /\ AnswersInOrder /\ SuccessIsComplete

\* A refusal leaves no trace, in memory, in the tables or with other players, but
\* for what the database refuses after it was done.
RefusalsLeaveNoTrace == RefusalsAreSilent /\ RefusalsChangeNothing

\* Handlers use only what was found, but for three that do so first of all, and only
\* what was read.
UsesOnlyWhatIsThere == UntestedUseComesFirst /\ ReadBeforeUse

\* Every request with a case is answered, unless the process dies or the
\* connection ends first; no failure of a handler leaves its client waiting.
Served ==
    \A i \in 1 .. MaxRequests :
        (i <= Len(asked) /\ Dispatched(asked[i]))
            ~> \/ \E k \in DOMAIN outbox : outbox[k].track = i
               \/ dead # <<>>
               \/ asked = <<>>
=============================================================================
