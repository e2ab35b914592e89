------------------------- MODULE PersistentMail_proofs -------------------------
(***************************************************************************)
(* Proofs about PersistentMail, for any gateways, avatars and mailboxes.   *)
(* The inductive invariant adds to the two state properties what a handler *)
(* remembers between two statements: the message it works on still belongs *)
(* to its avatar, and that avatar is linked before the copy is made.       *)
(* Opening a message needs a second invariant, which holds only when no    *)
(* avatar is served by two gateways.                                       *)
(***************************************************************************)
EXTENDS PersistentMail, SequenceTheorems, TLAPS

\* A handler works on a message of its avatar.
WorksOnOwn ==
    \A g \in Gateway : work[g] # Idle => messages[work[g].id].avatar = work[g].avatar

\* An avatar is linked before its message is copied.
LinksFirst ==
    \A g \in Gateway :
        work[g].call = "RecordMessage" /\ work[g].avatar \in HasUser => work[g].avatar \in linked

\* A copy names the owner of its message.
CopiesOwned == \A id \in DOMAIN webMail : webMail[id].avatar = messages[id].avatar

\* Only the gateway of an avatar marks its messages read.
ServesWhatItReads ==
    \A g \in Gateway : work[g].call = "MarkRead" => <<g, work[g].avatar>> \in Serves

IInv ==
    /\ TypeOK /\ CopiesAreLinked /\ AnsweredIsCopied
    /\ WorksOnOwn /\ LinksFirst /\ CopiesOwned /\ ServesWhatItReads

Mail == [avatar: Avatar, category: Category, status: PersistentState]

-----------------------------------------------------------------------------
\* The initial states satisfy the inductive invariant.
LEMMA InitInv == Init => IInv
<1> SUFFICES ASSUME Init PROVE IInv
  OBVIOUS
<1> USE DEF Init
<1>1. TypeOK
  <2>1. messages \in Seq(Mail)
    BY EmptySeq DEF Mail
  <2>2. DOMAIN webMail = {}
    BY EmptySeq
  <2> QED  BY <2>1, <2>2 DEF TypeOK, Mail, Idle
<1>2. DOMAIN webMail = {}
  BY EmptySeq
<1>3. CopiesAreLinked /\ AnsweredIsCopied /\ CopiesOwned
  BY <1>2 DEF CopiesAreLinked, AnsweredIsCopied, CopiesOwned
<1>4. WorksOnOwn /\ LinksFirst /\ ServesWhatItReads
  BY DEF WorksOnOwn, LinksFirst, ServesWhatItReads, Idle
<1> QED  BY <1>1, <1>3, <1>4 DEF IInv

\* The messages of two states: none is lost, and none changes its owner.
Keeps == /\ messages' \in Seq(Mail)
         /\ DOMAIN messages \subseteq DOMAIN messages'
         /\ \A id \in DOMAIN messages : messages'[id].avatar = messages[id].avatar

\* Storing a message leaves the others alone.
LEMMA StoreKeeps ==
    ASSUME TypeOK, NEW a \in Avatar, NEW category \in Category,
           messages' = Append(messages, [avatar |-> a, category |-> category, status |-> "NEW"])
    PROVE  /\ Keeps
           /\ Len(messages') \in DOMAIN messages'
           /\ messages'[Len(messages')].avatar = a
           /\ \A id \in DOMAIN messages : messages'[id] = messages[id]
<1> DEFINE m == [avatar |-> a, category |-> category, status |-> "NEW"]
<1>1. m \in Mail /\ m.avatar = a
  BY DEF Mail, PersistentState
<1>2. messages \in Seq(Mail) /\ messages' = Append(messages, m)
  BY DEF TypeOK, Mail
<1> HIDE DEF m
<1>3. /\ messages' \in Seq(Mail)
      /\ Len(messages') = Len(messages) + 1
      /\ \A i \in 1..Len(messages) : messages'[i] = messages[i]
      /\ messages'[Len(messages) + 1] = m
  BY <1>1, <1>2, AppendProperties
<1>4. /\ DOMAIN messages = 1..Len(messages) /\ Len(messages) \in Nat
      /\ DOMAIN messages' = 1..Len(messages')
  BY <1>2, <1>3, LenProperties
<1> QED  BY <1>1, <1>3, <1>4 DEF Keeps

\* Filing changes only the status of one message of the avatar.
LEMMA UpdateKeeps ==
    ASSUME TypeOK, NEW a, NEW id, NEW status \in PersistentState,
           UpdateMessageStatus(a, id, status)
    PROVE  /\ Keeps /\ DOMAIN messages' = DOMAIN messages
           /\ \A i \in DOMAIN messages :
                 messages'[i] # messages[i] => i = id /\ messages[i].avatar = a
<1>0. messages \in Seq(Mail) /\ DOMAIN messages = 1..Len(messages)
  BY LenProperties DEF TypeOK, Mail
<1>1. CASE Found(a, id)
  <2> DEFINE m == [messages[id] EXCEPT !.status = status]
  <2>1. id \in DOMAIN messages /\ messages[id] \in Mail /\ messages[id].avatar = a
    BY <1>0, <1>1, ElementOfSeq DEF Found
  <2>2. m \in Mail /\ m.avatar = a
    BY <2>1 DEF Mail
  <2>3. messages' = [messages EXCEPT ![id] = m]
    BY <1>1 DEF UpdateMessageStatus
  <2> HIDE DEF m
  <2>4. messages' \in Seq(Mail) /\ DOMAIN messages' = DOMAIN messages
    BY <1>0, <2>1, <2>2, <2>3, ExceptSeq
  <2> QED  BY <2>1, <2>2, <2>3, <2>4 DEF Keeps
<1>2. CASE ~Found(a, id)
  BY <1>0, <1>2 DEF UpdateMessageStatus, Keeps
<1> QED  BY <1>1, <1>2

\* So does filing a whole category.
LEMMA BulkKeeps ==
    ASSUME TypeOK, NEW g, NEW a, NEW category, NEW status \in PersistentState,
           UpdatePersistentMessages(g, a, category, status)
    PROVE  /\ Keeps /\ DOMAIN messages' = DOMAIN messages
           /\ \A i \in DOMAIN messages : messages'[i] # messages[i] => messages[i].avatar = a
<1> DEFINE m(i) == IF messages[i].avatar = a /\ messages[i].category = category
                   THEN [messages[i] EXCEPT !.status = status] ELSE messages[i]
<1>1. messages \in Seq(Mail) /\ DOMAIN messages = 1..Len(messages) /\ Len(messages) \in Nat
  BY LenProperties DEF TypeOK, Mail
<1>2. \A i \in 1..Len(messages) : messages[i] \in Mail
  BY <1>1, ElementOfSeq
<1>3. \A i \in 1..Len(messages) : m(i) \in Mail /\ m(i).avatar = messages[i].avatar
  BY <1>2 DEF Mail
<1>4. messages' = [i \in 1..Len(messages) |-> m(i)]
  BY <1>1 DEF UpdatePersistentMessages
<1>5. \A i \in 1..Len(messages) : m(i) # messages[i] => messages[i].avatar = a
  OBVIOUS
<1> HIDE DEF m
<1>6. messages' \in Seq(Mail)
  BY <1>1, <1>3, <1>4, SeqDef
<1> QED  BY <1>1, <1>3, <1>4, <1>5, <1>6 DEF Keeps

\* What a step on the messages alone leaves of the invariant, if none is lost
\* and none changes its owner.
LEMMA KeepsInv ==
    ASSUME IInv, Keeps, UNCHANGED <<webMail, linked, answered>>
    PROVE  /\ CopiesAreLinked' /\ AnsweredIsCopied' /\ CopiesOwned'
           /\ \A g \in Gateway : work[g] # Idle =>
                 /\ work[g].id \in DOMAIN messages'
                 /\ messages'[work[g].id].avatar = work[g].avatar
           /\ work' \in [Gateway -> {Idle} \cup Doing]
              /\ (\A g \in Gateway : work'[g] # Idle => work'[g].id \in DOMAIN messages') => TypeOK'
<1> USE DEF IInv, Keeps
<1>1. CopiesAreLinked'
  BY DEF CopiesAreLinked
<1>2. AnsweredIsCopied'
  BY DEF TypeOK, AnsweredIsCopied
<1>3. CopiesOwned'
  BY DEF TypeOK, CopiesOwned
<1>4. \A g \in Gateway : work[g] # Idle =>
         /\ work[g].id \in DOMAIN messages'
         /\ messages'[work[g].id].avatar = work[g].avatar
  BY DEF TypeOK, WorksOnOwn
<1>5. DOMAIN webMail \subseteq DOMAIN messages' /\ answered \subseteq Avatar \X DOMAIN messages'
  BY DEF TypeOK
<1>6. ASSUME work' \in [Gateway -> {Idle} \cup Doing],
             \A g \in Gateway : work'[g] # Idle => work'[g].id \in DOMAIN messages'
      PROVE  TypeOK'
  BY <1>5, <1>6 DEF TypeOK, Mail
<1> QED  BY <1>1, <1>2, <1>3, <1>4, <1>6

\* So does one that only moves one handler on, to a call that is right to make.
LEMMA MovesInv ==
    ASSUME IInv, Keeps, UNCHANGED <<webMail, linked, answered>>,
           NEW g \in Gateway, NEW w \in {Idle} \cup Doing, work' = [work EXCEPT ![g] = w],
           w # Idle => /\ w.id \in DOMAIN messages' /\ messages'[w.id].avatar = w.avatar
                       /\ w.call = "MarkRead" => <<g, w.avatar>> \in Serves
                       /\ w.call = "RecordMessage" /\ w.avatar \in HasUser => w.avatar \in linked
    PROVE  IInv'
<1>1. work' \in [Gateway -> {Idle} \cup Doing] /\ work'[g] = w
      /\ \A h \in Gateway : h # g => work'[h] = work[h]
  BY DEF IInv, TypeOK
<1>2. \A h \in Gateway : work'[h] # Idle =>
         work'[h].id \in DOMAIN messages' /\ messages'[work'[h].id].avatar = work'[h].avatar
  BY <1>1, KeepsInv
<1>3. WorksOnOwn' /\ TypeOK'
  BY <1>1, <1>2, KeepsInv DEF WorksOnOwn
<1>4. LinksFirst'
  BY <1>1 DEF IInv, LinksFirst, Idle
<1>5. ServesWhatItReads'
  BY <1>1 DEF IInv, ServesWhatItReads, Idle
<1> QED  BY <1>3, <1>4, <1>5, KeepsInv DEF IInv

\* A handler that ends does no harm.
LEMMA EndsInv ==
    ASSUME IInv, Keeps, UNCHANGED <<webMail, linked, answered>>, NEW g \in Gateway, Ends(g)
    PROVE  IInv'
  BY MovesInv DEF Ends

\* A step that leaves the table keeps all mail.
LEMMA NothingLost == ASSUME TypeOK, UNCHANGED messages PROVE Keeps
  BY DEF TypeOK, Keeps, Mail

\* A message is stored.
LEMMA SendInv ==
    ASSUME IInv, NEW g \in Gateway, NEW a \in Avatar, NEW category \in Category,
           SendPersistentMessage(g, a, category)
    PROVE  IInv'
<1> USE DEF SendPersistentMessage
<1>1. /\ Keeps /\ Len(messages') \in DOMAIN messages'
      /\ messages'[Len(messages')].avatar = a
  BY StoreKeeps DEF IInv, StoreMessage
<1>2. CASE Goes(g, "EnsureUserLink", a, Len(messages'))
  <2> DEFINE w == [call |-> "EnsureUserLink", avatar |-> a, id |-> Len(messages')]
  <2>1. Len(messages') \in Nat
    BY <1>1, LenProperties DEF Keeps
  <2>2. /\ w \in Doing /\ w.call = "EnsureUserLink" /\ w.avatar = a /\ w.id = Len(messages')
        /\ work' = [work EXCEPT ![g] = w]
    BY <1>2, <2>1 DEF Doing, Goes
  <2> HIDE DEF w
  <2> QED  BY <1>1, <2>2, MovesInv
<1>3. CASE Ends(g)
  BY <1>1, <1>3, EndsInv
<1> QED  BY <1>2, <1>3 DEF StoreMessage

\* The link to the user is made, or fails, and the request with it.
LEMMA LinkInv ==
    ASSUME IInv, NEW g \in Gateway, EnsureUserLink(g) PROVE IInv'
<1> DEFINE a == work[g].avatar
           id == work[g].id
<1>1. /\ work[g].call = "EnsureUserLink" /\ UNCHANGED <<messages, webMail, answered>>
      /\ linked \subseteq linked' /\ linked' \subseteq linked \cup {a}
      /\ \/ Ends(g)
         \/ Goes(g, "RecordMessage", a, id) /\ (a \in HasUser => a \in linked')
  BY DEF EnsureUserLink
<1>2. work[g] \in Doing /\ a \in Avatar /\ id \in DOMAIN messages /\ messages[id].avatar = a
      /\ id \in Nat
  BY <1>1 DEF IInv, TypeOK, WorksOnOwn, Doing, Idle
<1>3. PICK w \in {Idle} \cup Doing :
         /\ work' = [work EXCEPT ![g] = w]
         /\ w # Idle => w.id = id /\ w.avatar = a /\ w.call = "RecordMessage"
                        /\ (a \in HasUser => a \in linked')
  <2> DEFINE v == [call |-> "RecordMessage", avatar |-> a, id |-> id]
  <2>1. v \in Doing /\ v.id = id /\ v.avatar = a /\ v.call = "RecordMessage"
    BY <1>2 DEF Doing
  <2> QED  BY <1>1, <2>1 DEF Ends, Goes
<1>4. work' \in [Gateway -> {Idle} \cup Doing] /\ work'[g] = w
      /\ \A h \in Gateway : h # g => work'[h] = work[h]
  BY <1>3 DEF IInv, TypeOK
<1> HIDE DEF a, id
<1>5. TypeOK'
  BY <1>1, <1>2, <1>3, <1>4 DEF IInv, TypeOK
<1>6. WorksOnOwn'
  BY <1>1, <1>2, <1>3, <1>4 DEF IInv, WorksOnOwn
<1>7. LinksFirst'
  BY <1>1, <1>3, <1>4 DEF IInv, LinksFirst, Idle
<1>8. ServesWhatItReads'
  BY <1>1, <1>3, <1>4 DEF IInv, ServesWhatItReads, Idle
<1>9. CopiesAreLinked' /\ AnsweredIsCopied' /\ CopiesOwned'
  BY <1>1 DEF IInv, CopiesAreLinked, AnsweredIsCopied, CopiesOwned
<1> QED  BY <1>5, <1>6, <1>7, <1>8, <1>9 DEF IInv

\* The copy is made, or fails, and the request is answered.
LEMMA RecordInv ==
    ASSUME IInv, NEW g \in Gateway, RecordPersistentMessage(g) PROVE IInv'
<1> DEFINE a == work[g].avatar
           id == work[g].id
<1>1. /\ work[g].call = "RecordMessage" /\ UNCHANGED <<messages, linked>> /\ Ends(g)
      /\ \/ webMail' = Copied(a, id) /\ answered' = answered \cup {<<a, id>>}
         \/ webMail' \in {webMail, Copied(a, id)} /\ UNCHANGED answered
  BY DEF RecordPersistentMessage
<1>2. /\ work[g] \in Doing /\ a \in Avatar /\ id \in DOMAIN messages /\ messages[id].avatar = a
      /\ a \in HasUser => a \in linked
  BY <1>1 DEF IInv, TypeOK, WorksOnOwn, LinksFirst, Doing, Idle
<1>3. work' \in [Gateway -> {Idle} \cup Doing] /\ work'[g] = Idle
      /\ \A h \in Gateway : h # g => work'[h] = work[h]
  BY <1>1 DEF IInv, TypeOK, Ends
<1>4. WorksOnOwn' /\ LinksFirst' /\ ServesWhatItReads'
  BY <1>1, <1>3 DEF IInv, WorksOnOwn, LinksFirst, ServesWhatItReads, Idle
<1>5. /\ DOMAIN Copied(a, id) = DOMAIN webMail \cup {id}
      /\ Copied(a, id)[id] = [avatar |-> a, status |-> "NEW"]
      /\ \A i \in DOMAIN webMail : i # id => Copied(a, id)[i] = webMail[i]
  BY DEF Copied
<1>6. [avatar |-> a, status |-> "NEW"] \in [avatar: Avatar, status: PersistentState]
  BY <1>2 DEF PersistentState
<1>7. [avatar |-> a, status |-> "NEW"].avatar = a
  OBVIOUS
<1> HIDE DEF a, id
<1>8. TypeOK'
  <2>1. DOMAIN webMail' \subseteq DOMAIN messages
    BY <1>1, <1>2, <1>5 DEF IInv, TypeOK
  <2>2. \A i \in DOMAIN webMail' : webMail'[i] \in [avatar: Avatar, status: PersistentState]
    BY <1>1, <1>5, <1>6 DEF IInv, TypeOK
  <2>3. answered' \subseteq Avatar \X DOMAIN messages
    BY <1>1, <1>2 DEF IInv, TypeOK
  <2> QED  BY <1>1, <1>3, <2>1, <2>2, <2>3 DEF IInv, TypeOK
<1>9. CopiesOwned'
  BY <1>1, <1>2, <1>5, <1>7 DEF IInv, CopiesOwned
<1>10. CopiesAreLinked'
  BY <1>1, <1>2, <1>5, <1>7 DEF IInv, CopiesAreLinked
<1>11. AnsweredIsCopied'
  BY <1>1, <1>2, <1>5, <1>7 DEF IInv, AnsweredIsCopied
<1> QED  BY <1>4, <1>8, <1>9, <1>10, <1>11 DEF IInv

\* A message is read.
LEMMA GetInv ==
    ASSUME IInv, NEW g \in Gateway, NEW a \in Avatar, <<g, a>> \in Serves,
           NEW id \in 1..MaxMail, GetPersistentMessage(g, a, id)
    PROVE  IInv'
<1> DEFINE w == [call |-> "MarkRead", avatar |-> a, id |-> id]
<1>1. /\ id \in DOMAIN messages /\ messages[id].avatar = a
      /\ UNCHANGED <<messages, webMail, linked, answered>> /\ work' = [work EXCEPT ![g] = w]
  BY DEF GetPersistentMessage, Found, Goes
<1>2. w \in Doing /\ w.id = id /\ w.avatar = a /\ w.call = "MarkRead"
  BY PersistentMailAssumption DEF Doing
<1> HIDE DEF w
<1>3. Keeps
  BY <1>1, NothingLost DEF IInv
<1> QED  BY <1>1, <1>2, <1>3, MovesInv

\* A message that was read is marked.
LEMMA MarkReadInv ==
    ASSUME IInv, NEW g \in Gateway, MarkRead(g) PROVE IInv'
<1>1. Keeps
  BY UpdateKeeps, NothingLost DEF MarkRead, IInv, PersistentState
<1> QED  BY <1>1, EndsInv DEF MarkRead

\* Filing keeps the invariant: it leaves the handlers where they are.
LEMMA FilingInv ==
    ASSUME IInv, Keeps, UNCHANGED <<webMail, linked, work, answered>>, NEW g \in Gateway,
           work[g] = Idle
    PROVE  IInv'
<1>1. work' = [work EXCEPT ![g] = Idle]
  BY DEF IInv, TypeOK
<1> QED  BY <1>1, MovesInv

\* Every step keeps the inductive invariant.
LEMMA StepInv == IInv /\ [Next]_vars => IInv'
<1> SUFFICES ASSUME IInv, [Next]_vars PROVE IInv'
  OBVIOUS
<1>1. ASSUME NEW g \in Gateway, NEW a \in Avatar, NEW category \in Category,
             SendPersistentMessage(g, a, category)
      PROVE  IInv'
  BY <1>1, SendInv
<1>2. ASSUME NEW g \in Gateway, NEW a \in Avatar, Owner(g, a) PROVE IInv'
  <2>1. ASSUME NEW id \in 1..MaxMail, GetPersistentMessage(g, a, id) PROVE IInv'
    BY <1>2, <2>1, GetInv DEF Owner
  <2>2. ASSUME NEW id, NEW status \in PersistentState, UpdatePersistentMessage(g, a, id, status)
        PROVE  IInv'
    BY <2>2, UpdateKeeps, FilingInv DEF UpdatePersistentMessage, IInv
  <2>3. ASSUME NEW category, NEW status \in PersistentState,
               UpdatePersistentMessages(g, a, category, status)
        PROVE  IInv'
    <3>1. Keeps
      BY <2>3, BulkKeeps DEF IInv
    <3> QED  BY <2>3, <3>1, FilingInv DEF UpdatePersistentMessages
  <2> QED  BY <1>2, <2>1, <2>2, <2>3 DEF Owner
<1>3. ASSUME NEW g \in Gateway, Crash(g) PROVE IInv'
  BY <1>3, NothingLost, EndsInv DEF Crash, IInv
<1>4. CASE UNCHANGED vars
  <2>1. Keeps
    BY <1>4, NothingLost DEF vars, IInv
  <2> QED
    BY <1>4, <2>1, KeepsInv DEF vars, IInv, TypeOK, WorksOnOwn, LinksFirst, ServesWhatItReads
<1> QED  BY <1>1, <1>2, <1>3, <1>4, LinkInv, RecordInv, MarkReadInv DEF Next

\* Every reachable state satisfies the inductive invariant.
LEMMA Invariance == Spec => []IInv
  BY InitInv, StepInv, PTL DEF Spec

\* The tables have their types, and every copy on the website belongs to a
\* character the website can find, whatever statements fail and whichever
\* gateways die between two of them.
THEOREM CopiesAreSound == Spec => []CopiesSound
<1>1. IInv => CopiesSound
  BY DEF IInv, CopiesSound
<1> QED  BY <1>1, Invariance, PTL

\* A sender answered SUCCESS can rely on the message id: the message and its
\* copy stay with the avatar it was sent to.
THEOREM AnswersReliable == Spec => []AnsweredIsCopied
<1>1. IInv => AnsweredIsCopied
  BY DEF IInv
<1> QED  BY <1>1, Invariance, PTL

-----------------------------------------------------------------------------
\* What a step that files a message was: a gateway that serves its owner
\* carried out a request to file it, or marked it read and ended.
LEMMA WhoFiles ==
    ASSUME IInv, Next, NEW id \in DOMAIN messages, Filed(id)
    PROVE  \E g \in Gateway :
              /\ <<g, messages[id].avatar>> \in Serves
              /\ \/ work[g] = Idle /\ UNCHANGED work
                 \/ /\ work[g] = [call |-> "MarkRead", avatar |-> messages[id].avatar, id |-> id]
                    /\ Ends(g)
<1> USE DEF IInv
<1>1. messages' # messages
  BY DEF Filed
<1>2. ASSUME NEW g \in Gateway, NEW a \in Avatar, NEW category \in Category,
             SendPersistentMessage(g, a, category)
      PROVE  FALSE
  BY <1>1, <1>2, StoreKeeps DEF SendPersistentMessage, StoreMessage, Filed
<1>3. ASSUME NEW g \in Gateway, MarkRead(g)
      PROVE  /\ <<g, messages[id].avatar>> \in Serves /\ Ends(g)
             /\ work[g] = [call |-> "MarkRead", avatar |-> messages[id].avatar, id |-> id]
  <2>1. /\ work[g].call = "MarkRead" /\ Ends(g)
        /\ UpdateMessageStatus(work[g].avatar, work[g].id, "READ")
    BY <1>1, <1>3 DEF MarkRead
  <2>2. work[g] \in Doing /\ <<g, work[g].avatar>> \in Serves
    BY <2>1 DEF TypeOK, Idle, ServesWhatItReads
  <2>3. "READ" \in PersistentState
    BY DEF PersistentState
  <2>4. id = work[g].id /\ messages[id].avatar = work[g].avatar
    BY <2>1, <2>3, UpdateKeeps DEF Filed
  <2> QED  BY <2>1, <2>2, <2>4 DEF Doing
<1>4. ASSUME NEW g \in Gateway, NEW a \in Avatar, Owner(g, a)
      PROVE  <<g, messages[id].avatar>> \in Serves /\ work[g] = Idle /\ UNCHANGED work
  <2>1. <<g, a>> \in Serves
    BY <1>4 DEF Owner
  <2>2. ASSUME NEW i, NEW status \in PersistentState, UpdatePersistentMessage(g, a, i, status)
        PROVE  messages[id].avatar = a /\ work[g] = Idle /\ UNCHANGED work
    BY <2>2, UpdateKeeps DEF UpdatePersistentMessage, Filed
  <2>3. ASSUME NEW category, NEW status \in PersistentState,
               UpdatePersistentMessages(g, a, category, status)
        PROVE  messages[id].avatar = a /\ work[g] = Idle /\ UNCHANGED work
    <3>1. messages[id].avatar = a
      BY <2>3, BulkKeeps DEF Filed
    <3> QED  BY <2>3, <3>1 DEF UpdatePersistentMessages
  <2> QED  BY <1>1, <1>4, <2>1, <2>2, <2>3 DEF Owner, GetPersistentMessage
<1> QED
  BY <1>1, <1>2, <1>3, <1>4
  DEF Next, EnsureUserLink, RecordPersistentMessage, Crash

\* Only its owner files a message, whatever the gateways interleave: a handler
\* that was given the id of another avatar's message changes nothing.
THEOREM OnlyOwnersFile == Spec => OwnerFiles
<1>1. ASSUME IInv, [Next]_vars, NEW id \in DOMAIN messages, Filed(id)
      PROVE  \E g \in Gateway :
                /\ <<g, messages[id].avatar>> \in Serves
                /\ work[g] \in {Idle,
                      [call |-> "MarkRead", avatar |-> messages[id].avatar, id |-> id]}
  <2>1. Next
    BY <1>1 DEF vars, Filed
  <2> QED  BY <1>1, <2>1, WhoFiles
<1>2. IInv /\ [Next]_vars =>
         \A id \in DOMAIN messages : Filed(id) =>
            \E g \in Gateway :
               /\ <<g, messages[id].avatar>> \in Serves
               /\ work[g] \in {Idle,
                     [call |-> "MarkRead", avatar |-> messages[id].avatar, id |-> id]}
  BY <1>1
<1> QED  BY <1>2, Invariance, PTL DEF Spec, OwnerFiles

-----------------------------------------------------------------------------
\* The requests of an avatar arrive at one gateway.
ServedByOne ==
    \A g, h \in Gateway, a \in Avatar : <<g, a>> \in Serves /\ <<h, a>> \in Serves => g = h

\* What a gateway is about to mark read is still new.
ReadsNew ==
    \A g \in Gateway : work[g].call = "MarkRead" => messages[work[g].id].status = "NEW"

\* No other handler can file the message in between.
LEMMA StepReadsNew ==
    ASSUME ServedByOne, IInv, ReadsNew, [Next]_vars PROVE ReadsNew'
<1> SUFFICES ASSUME NEW g \in Gateway, work'[g].call = "MarkRead"
             PROVE  messages'[work'[g].id].status = "NEW"
  BY DEF ReadsNew
<1> USE DEF IInv
<1>1. CASE work[g] = work'[g]
  <2> DEFINE id == work[g].id
  <2>1. /\ id \in DOMAIN messages /\ messages[id].avatar = work[g].avatar
        /\ <<g, work[g].avatar>> \in Serves /\ messages[id].status = "NEW"
        /\ work[g].avatar \in Avatar /\ work[g] # Idle
    BY <1>1 DEF TypeOK, WorksOnOwn, ServesWhatItReads, ReadsNew, Idle, Doing
  <2>2. id \in DOMAIN messages'
    <3>1. IInv'
      BY StepInv
    <3>2. work'[g] # Idle
      BY DEF Idle
    <3> QED  BY <1>1, <3>1, <3>2 DEF TypeOK
  <2>3. ~Filed(id)
    <3> SUFFICES ASSUME Filed(id) PROVE FALSE
      OBVIOUS
    <3>1. Next
      BY DEF vars, Filed
    <3>2. PICK h \in Gateway :
             /\ <<h, messages[id].avatar>> \in Serves
             /\ \/ work[h] = Idle /\ UNCHANGED work
                \/ Ends(h)
      BY <2>1, <3>1, WhoFiles
    <3>3. h = g
      BY <2>1, <3>2 DEF ServedByOne
    <3>4. work'[g] = Idle
      BY <2>1, <3>2, <3>3 DEF Ends, TypeOK
    <3> QED  BY <3>4 DEF Idle
  <2> QED  BY <1>1, <2>1, <2>2, <2>3 DEF Filed
<1>2. CASE work[g] # work'[g]
  <2>1. Next
    BY <1>2 DEF vars
  <2>2. PICK h \in Gateway, a \in Avatar, id \in 1..MaxMail : GetPersistentMessage(h, a, id)
    <3>1. ASSUME NEW h \in Gateway, Ends(h) PROVE FALSE
      BY <1>2, <3>1 DEF Ends, TypeOK, Idle
    <3>2. ASSUME NEW h \in Gateway, NEW call, NEW a, NEW id, Goes(h, call, a, id)
          PROVE  call = "MarkRead"
      BY <1>2, <3>2 DEF Goes, TypeOK
    <3>3. ASSUME NEW h \in Gateway, NEW a, NEW category, SendPersistentMessage(h, a, category)
          PROVE  FALSE
      BY <3>1, <3>2, <3>3 DEF SendPersistentMessage, StoreMessage
    <3>4. ASSUME NEW h \in Gateway, EnsureUserLink(h) PROVE FALSE
      BY <3>1, <3>2, <3>4 DEF EnsureUserLink
    <3> QED
      BY <1>2, <2>1, <3>1, <3>3, <3>4
      DEF Next, RecordPersistentMessage, MarkRead, Crash, Owner, UpdatePersistentMessage,
          UpdatePersistentMessages
  <2>3. h = g /\ work'[g].id = id
    BY <1>2, <2>2 DEF GetPersistentMessage, Goes, TypeOK
  <2> QED  BY <2>2, <2>3 DEF GetPersistentMessage
<1> QED  BY <1>1, <1>2

\* Opening a message never undoes its filing, if the avatar's requests arrive
\* at one gateway: what its handler found NEW is NEW when it is marked read.
THEOREM ReadingIsSafe == ServedByOne => (Spec => ReadingKeepsFiled)
<1> SUFFICES ASSUME ServedByOne PROVE Spec => ReadingKeepsFiled
  OBVIOUS
<1>1. Init => ReadsNew
  BY DEF Init, ReadsNew, Idle
<1>2. IInv /\ ReadsNew /\ [Next]_vars => ReadsNew'
  BY StepReadsNew
<1>3. ASSUME IInv, ReadsNew, [Next]_vars, NEW g \in Gateway, NEW id \in DOMAIN messages,
             work[g] # Idle, work'[g] = Idle, Filed(id)
      PROVE  messages[id].status = "NEW"
  <2>1. Next
    BY <1>3 DEF vars, Filed
  <2>2. PICK h \in Gateway :
           work[h] = [call |-> "MarkRead", avatar |-> messages[id].avatar, id |-> id]
    BY <1>3, <2>1, WhoFiles
  <2> QED  BY <1>3, <2>2 DEF ReadsNew
<1>4. IInv /\ ReadsNew /\ [Next]_vars =>
         \A g \in Gateway, id \in DOMAIN messages :
            work[g] # Idle /\ work'[g] = Idle /\ Filed(id) => messages[id].status = "NEW"
  BY <1>3
<1> QED  BY <1>1, <1>2, <1>4, Invariance, PTL DEF Spec, ReadingKeepsFiled
=============================================================================
