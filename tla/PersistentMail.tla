---------------------------- MODULE PersistentMail ----------------------------
(***************************************************************************)
(* Mail: the handlers of protocol/Protocol.cpp that work on the table      *)
(* `persistent_message` through PersistentMessageService.cpp, and the copy *)
(* of every message that WebsiteIntegrationService.cpp keeps for the       *)
(* website.  Several gateways may share the database.                      *)
(*                                                                         *)
(* One step is one statement: a gateway carries out one request at a time, *)
(* but the statements of different gateways interleave.  work[g] is where  *)
(* the handler running in gateway g stands between two statements.  What a *)
(* handler does after its last statement belongs to that step.             *)
(*                                                                         *)
(* A statement may fail, and may be carried out with its answer lost; both *)
(* end the handler with the answer DATABASE.  A gateway may die at any     *)
(* time.  A request that is refused, only reads (GETPERSISTENTHEADERS), or *)
(* fails in its first statement changes nothing and has no action.         *)
(***************************************************************************)
EXTENDS Naturals, Sequences

CONSTANTS
    Gateway,
    Avatar,
    HasUser,      \* the avatars whose user id is not 0
    Category,
    Serves,       \* pairs <<g, a>>: requests of avatar a arrive at gateway g
    MaxMail       \* bound: messages ever stored

ASSUME PersistentMailAssumption ==
    /\ HasUser \subseteq Avatar
    /\ Serves \subseteq Gateway \X Avatar
    /\ MaxMail \in Nat

VARIABLES
    messages,     \* table `persistent_message`: messages[id]
    webMail,      \* table web_persistent_message: webMail[message_id]
    linked,       \* the avatars in the website's table of user links
    work,         \* work[g]: the handler that gateway g is in the middle of
    answered      \* pairs <<a, id>>: a request to send mail to a was answered
                  \* SUCCESS with this message id

vars == <<messages, webMail, linked, work, answered>>

PersistentState == {"NEW", "UNREAD", "READ", "TRASH", "DELETED"}

Idle == [call |-> "none"]

\* The calls left to make: two for a message that was stored, or one for a
\* message that was read.
Doing == [call: {"EnsureUserLink", "RecordMessage", "MarkRead"}, avatar: Avatar, id: Nat]

TypeOK ==
    /\ messages \in Seq([avatar: Avatar, category: Category, status: PersistentState])
    /\ DOMAIN webMail \subseteq DOMAIN messages
    /\ \A id \in DOMAIN webMail : webMail[id] \in [avatar: Avatar, status: PersistentState]
    /\ linked \subseteq Avatar
    /\ work \in [Gateway -> {Idle} \cup Doing]
    /\ \A g \in Gateway : work[g] # Idle => work[g].id \in DOMAIN messages
    /\ answered \subseteq Avatar \X DOMAIN messages

Init ==
    /\ messages = <<>>
    /\ webMail = <<>>
    /\ linked = {}
    /\ work = [g \in Gateway |-> Idle]
    /\ answered = {}

-----------------------------------------------------------------------------
(***************************************************************************)
(* Sending: StoreMessage, EnsureUserLink, and the insert of the copy.      *)
(***************************************************************************)
Goes(g, call, a, id) ==
    work' = [work EXCEPT ![g] = [call |-> call, avatar |-> a, id |-> id]]

Ends(g) == work' = [work EXCEPT ![g] = Idle]

\* Mutant: a failed insert is not noticed, and the next id is assumed.
StoreMessageUnchecked(g, a, category) ==
    /\ messages' = messages
    /\ Goes(g, "EnsureUserLink", a, Len(messages) + 1)

\* The id is the one MariaDB assigned in this connection.
StoreMessage(g, a, category) ==
    /\ messages' = Append(messages, [avatar |-> a, category |-> category, status |-> "NEW"])
    /\ \/ Goes(g, "EnsureUserLink", a, Len(messages'))
       \/ Ends(g)                                          \* answer lost

SendPersistentMessage(g, a, category) ==
    /\ work[g] = Idle
    /\ Len(messages) < MaxMail
    /\ StoreMessage(g, a, category)
    /\ UNCHANGED <<webMail, linked, answered>>

\* Mutant: a failed link is not noticed.
EnsureUserLinkUnchecked(g) ==
    /\ work[g].call = "EnsureUserLink"
    /\ Goes(g, "RecordMessage", work[g].avatar, work[g].id)
    /\ linked' \in {linked, linked \cup ({work[g].avatar} \cap HasUser)}
    /\ UNCHANGED <<messages, webMail, answered>>

EnsureUserLink(g) ==
    /\ work[g].call = "EnsureUserLink"
    /\ \/ /\ linked' = linked \cup ({work[g].avatar} \cap HasUser)
          /\ Goes(g, "RecordMessage", work[g].avatar, work[g].id)
       \/ /\ work[g].avatar \in HasUser                    \* failed, or answer lost
          /\ linked' \in {linked, linked \cup {work[g].avatar}}
          /\ Ends(g)
    /\ UNCHANGED <<messages, webMail, answered>>

Copied(a, id) ==
    [i \in DOMAIN webMail \cup {id} |->
        IF i = id THEN [avatar |-> a, status |-> "NEW"] ELSE webMail[i]]

\* Mutant: the sender is answered SUCCESS even if the copy was not made.
RecordPersistentMessageUnchecked(g) ==
    /\ work[g].call = "RecordMessage"
    /\ webMail' \in {webMail, Copied(work[g].avatar, work[g].id)}
    /\ answered' = answered \cup {<<work[g].avatar, work[g].id>>}
    /\ Ends(g)
    /\ UNCHANGED <<messages, linked>>

RecordPersistentMessage(g) ==
    /\ work[g].call = "RecordMessage"
    /\ \/ /\ webMail' = Copied(work[g].avatar, work[g].id)
          /\ answered' = answered \cup {<<work[g].avatar, work[g].id>>}
       \/ /\ webMail' \in {webMail, Copied(work[g].avatar, work[g].id)}
          /\ UNCHANGED answered                            \* failed, or answer lost
    /\ Ends(g)
    /\ UNCHANGED <<messages, linked>>

-----------------------------------------------------------------------------
(***************************************************************************)
(* Reading and filing.  Every statement names both the avatar and the      *)
(* message (or category), so another avatar's id matches no row.           *)
(***************************************************************************)
\* Mutant: the row is found by its id alone.
FoundById(a, id) == id \in DOMAIN messages

Found(a, id) == id \in DOMAIN messages /\ messages[id].avatar = a

UpdateMessageStatus(a, id, status) ==
    messages' = IF Found(a, id) THEN [messages EXCEPT ![id].status = status] ELSE messages

\* Mutant: the status of what was read is not looked at.
GetPersistentMessageAlways(g, a, id) ==
    /\ work[g] = Idle
    /\ Found(a, id)
    /\ Goes(g, "MarkRead", a, id)
    /\ UNCHANGED <<messages, webMail, linked, answered>>

\* The first statement: only a message that was NEW needs the second.
GetPersistentMessage(g, a, id) ==
    /\ work[g] = Idle
    /\ Found(a, id) /\ messages[id].status = "NEW"
    /\ Goes(g, "MarkRead", a, id)
    /\ UNCHANGED <<messages, webMail, linked, answered>>

\* The second statement, which may fail.
MarkRead(g) ==
    /\ work[g].call = "MarkRead"
    /\ \/ UpdateMessageStatus(work[g].avatar, work[g].id, "READ")
       \/ UNCHANGED messages
    /\ Ends(g)
    /\ UNCHANGED <<webMail, linked, answered>>

UpdatePersistentMessage(g, a, id, status) ==
    /\ work[g] = Idle
    /\ UpdateMessageStatus(a, id, status)
    /\ UNCHANGED <<webMail, linked, work, answered>>

\* BulkUpdateMessageStatus; the request's currentStatus is not looked at.
UpdatePersistentMessages(g, a, category, status) ==
    /\ work[g] = Idle
    /\ messages' = [id \in DOMAIN messages |->
          IF messages[id].avatar = a /\ messages[id].category = category
          THEN [messages[id] EXCEPT !.status = status] ELSE messages[id]]
    /\ UNCHANGED <<webMail, linked, work, answered>>

-----------------------------------------------------------------------------
Crash(g) ==
    /\ Ends(g)
    /\ UNCHANGED <<messages, webMail, linked, answered>>

Owner(g, a) ==
    /\ <<g, a>> \in Serves
    /\ \/ \E id \in 1..MaxMail :
             \/ GetPersistentMessage(g, a, id)
             \/ \E status \in PersistentState : UpdatePersistentMessage(g, a, id, status)
       \/ \E category \in Category, status \in PersistentState :
             UpdatePersistentMessages(g, a, category, status)

Next ==
    \E g \in Gateway :
        \/ \E a \in Avatar, category \in Category : SendPersistentMessage(g, a, category)
        \/ EnsureUserLink(g)
        \/ RecordPersistentMessage(g)
        \/ \E a \in Avatar : Owner(g, a)
        \/ MarkRead(g)
        \/ Crash(g)

Spec == Init /\ [][Next]_vars

-----------------------------------------------------------------------------
(***************************************************************************)
(* Properties                                                              *)
(***************************************************************************)
\* A sender who was answered SUCCESS with a message id can rely on it: the
\* message is in the mailbox of the avatar it was sent to and on the website
\* under the same id, whatever other gateways stored in between.
AnsweredIsCopied ==
    \A a \in Avatar, id \in DOMAIN messages : <<a, id>> \in answered =>
        /\ messages[id].avatar = a
        /\ id \in DOMAIN webMail /\ webMail[id].avatar = a

\* A message on the website belongs to a character that the website can
\* find: its avatar is linked to its user, if it has one.
CopiesAreLinked == {webMail[id].avatar : id \in DOMAIN webMail} \cap HasUser \subseteq linked

\* The tables have their types, and the copies are linked.
CopiesSound == TypeOK /\ CopiesAreLinked

Filed(id) == id \in DOMAIN messages' /\ messages'[id].status # messages[id].status

\* Only its owner files a message: while each gateway that serves an avatar is
\* in the middle of something other than marking this message read, no request
\* of another avatar, on whatever gateway, changes the message.
OwnerFiles ==
    [][\A id \in DOMAIN messages : Filed(id) =>
          \E g \in Gateway :
             /\ <<g, messages[id].avatar>> \in Serves
             /\ work[g] \in {Idle, [call |-> "MarkRead", avatar |-> messages[id].avatar, id |-> id]}]_vars

\* Opening a message never undoes its filing: the second statement of the
\* handler only changes a message that is still NEW, so what was moved to the
\* trash or deleted stays there.  This needs an avatar's requests to arrive at
\* one gateway: with two, one may delete the message between the statements
\* of the other.
ReadingKeepsFiled ==
    [][\A g \in Gateway, id \in DOMAIN messages :
        work[g] # Idle /\ work'[g] = Idle /\ Filed(id) => messages[id].status = "NEW"]_vars

\* README.md:284 says of the website: "Render mailboxes in sync with the game".
\* So when no handler is at work, the copy of a message should have its status.
\* The code writes the status once, when the message is stored.
MailboxesInSync ==
    (\A g \in Gateway : work[g] = Idle) =>
        \A id \in DOMAIN webMail : webMail[id].status = messages[id].status
=============================================================================
