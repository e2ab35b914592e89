-------------------------- MODULE GatewayNode_proofs --------------------------
(***************************************************************************)
(* ViewsSound holds for any game servers, avatars, and places of clients,  *)
(* whatever is under way.  A server's list is right when it has received   *)
(* everything; the inductive invariant says what it will be by then: the   *)
(* run of the list over the messages still under way ends as the room is.  *)
(***************************************************************************)
EXTENDS GatewayNode, SequenceTheorems, FiniteSetTheorems, WellFoundedInduction, TLAPS

\* What server s believes: its list, and {s} if it has fetched the room.
Belief == [list: SUBSET Avatar, fetched: SUBSET Server]

BeliefOf(s) == [list |-> view[s], fetched |-> synced \cap {s}]

Nothing == [list |-> {}, fetched |-> {}]

\* Belief b of server s after message m.
Hears(s, b, m) ==
    LET list == Updated(b.list, m)
    IN  IF list \cap Own(s) = {} THEN Nothing
        ELSE [list |-> list, fetched |-> IF m.type = "GetRoom" THEN {s} ELSE b.fetched]

\* Belief b of server s becomes e with the messages of p.
Run(s, b, p, e) ==
    \E R \in [0..Len(p) -> Belief] :
        /\ R[0] = b /\ R[Len(p)] = e
        /\ \A i \in 1..Len(p) : R[i] = Hears(s, R[i - 1], p[i])

\* What s will believe when it has received everything.
Final(s, e) ==
    /\ e.list \cap Own(s) = {} => e = Nothing
    /\ room = "there" =>
          /\ e.list \cap Own(s) = avatars \cap Own(s)
          /\ e.list \subseteq avatars
          /\ e.fetched # {} => e.list = avatars
    /\ room = "none" => e = Nothing
    /\ room = "destroyed" /\ s # AddressOf[Creator] => e = Nothing

Settling ==
    \A s \in Server : session[s] # None =>
        \E e \in Belief : Run(s, BeliefOf(s), pipe[session[s]], e) /\ Final(s, e)

\* A session lasts as long as its connection, and is where updates go.
Sessions ==
    \A s \in Server : session[s] # None =>
        /\ clientAddressMap[s] = session[s]
        /\ clients[session[s]].state = "open" /\ clients[session[s]].server = s

IInv == TypeOK /\ Sessions /\ Settling

-----------------------------------------------------------------------------
(***************************************************************************)
(* Runs.                                                                   *)
(***************************************************************************)
\* Hearing a message makes a belief of a belief.
LEMMA HearsType ==
    ASSUME NEW s \in Server, NEW b \in Belief, NEW m \in Message
    PROVE  /\ Hears(s, b, m) \in Belief
           /\ Hears(s, b, m).list \cap Own(s) = {} => Hears(s, b, m) = Nothing
<1>1. Updated(b.list, m) \in SUBSET Avatar
  BY DEF Belief, Message, Updated
<1> QED  BY <1>1 DEF Hears, Belief, Nothing

\* No messages, no change.
LEMMA RunNone ==
    ASSUME NEW s, NEW b \in Belief
    PROVE  Run(s, b, <<>>, b) /\ \A e \in Belief : Run(s, b, <<>>, e) => e = b
<1>1. Len(<<>>) = 0
  BY EmptySeq
<1>2. Run(s, b, <<>>, b)
  <2> DEFINE R == [i \in 0..0 |-> b]
  <2>1. R \in [0..0 -> Belief] /\ R[0] = b /\ \A i \in 1..0 : R[i] = Hears(s, R[i - 1], <<>>[i])
    OBVIOUS
  <2> HIDE DEF R
  <2> QED  BY <1>1, <2>1 DEF Run
<1>3. \A e \in Belief : Run(s, b, <<>>, e) => e = b
  BY <1>1 DEF Run
<1> QED  BY <1>2, <1>3

\* The first message of a run can be taken off or put on.
LEMMA RunFirst ==
    ASSUME NEW s \in Server, NEW b \in Belief, NEW p \in Seq(Message), p # <<>>,
           NEW e \in Belief
    PROVE  Run(s, b, p, e) <=> Run(s, Hears(s, b, Head(p)), Tail(p), e)
<1> DEFINE n == Len(p)
           q == Tail(p)
           c == Hears(s, b, Head(p))
<1>1. /\ n \in Nat \ {0} /\ p \in [1..n -> Message] /\ Head(p) = p[1]
      /\ q \in Seq(Message) /\ Len(q) = n - 1
      /\ \A i \in 1..(n - 1) : q[i] = p[i + 1]
  BY HeadTailProperties, LenProperties, EmptySeq
<1>2. c = Hears(s, b, p[1]) /\ c \in Belief
  BY <1>1, HearsType
<1>3. Len(p) = n
  OBVIOUS
<1> HIDE DEF n, q, c
<1>4. ASSUME Run(s, b, p, e) PROVE Run(s, c, q, e)
  <2>1. PICK R \in [0..n -> Belief] :
           /\ R[0] = b /\ R[n] = e
           /\ \A i \in 1..n : R[i] = Hears(s, R[i - 1], p[i])
    BY <1>3, <1>4 DEF Run
  <2> DEFINE Q == [i \in 0..(n - 1) |-> R[i + 1]]
  <2>2. Q \in [0..(n - 1) -> Belief] /\ Q[n - 1] = e
    BY <1>1, <2>1
  <2>3. Q[0] = c
    BY <1>1, <1>2, <2>1
  <2>4. ASSUME NEW i \in 1..(n - 1) PROVE Q[i] = Hears(s, Q[i - 1], q[i])
    <3>1. i + 1 \in 1..n /\ (i + 1) - 1 = i /\ (i - 1) + 1 = i /\ i - 1 \in 0..(n - 1)
      BY <1>1
    <3>2. R[i + 1] = Hears(s, R[i], p[i + 1])
      BY <2>1, <3>1
    <3> QED  BY <1>1, <3>1, <3>2
  <2> HIDE DEF Q
  <2> QED  BY <1>1, <2>2, <2>3, <2>4 DEF Run
<1>5. ASSUME Run(s, c, q, e) PROVE Run(s, b, p, e)
  <2>1. PICK Q \in [0..(n - 1) -> Belief] :
           /\ Q[0] = c /\ Q[n - 1] = e
           /\ \A i \in 1..(n - 1) : Q[i] = Hears(s, Q[i - 1], q[i])
    BY <1>1, <1>5 DEF Run
  <2> DEFINE R == [i \in 0..n |-> IF i = 0 THEN b ELSE Q[i - 1]]
  <2>2. R \in [0..n -> Belief] /\ R[0] = b /\ R[n] = e
    BY <1>1, <2>1
  <2>3. ASSUME NEW i \in 1..n PROVE R[i] = Hears(s, R[i - 1], p[i])
    <3>1. CASE i = 1
      BY <1>1, <1>2, <2>1, <3>1
    <3>2. CASE i # 1
      <4>1. i - 1 \in 1..(n - 1) /\ (i - 1) + 1 = i /\ i - 1 \in 0..n
        BY <1>1, <3>2
      <4>2. Q[i - 1] = Hears(s, Q[(i - 1) - 1], q[i - 1]) /\ q[i - 1] = p[i]
        BY <1>1, <2>1, <4>1
      <4>3. R[i] = Q[i - 1] /\ R[i - 1] = Q[(i - 1) - 1]
        BY <1>1, <4>1
      <4> QED  BY <4>2, <4>3
    <3> QED  BY <3>1, <3>2
  <2> HIDE DEF R
  <2> QED  BY <1>3, <2>2, <2>3 DEF Run
<1> QED  BY <1>4, <1>5 DEF c, q

\* Messages that change no more than one of them does may be put at the end in
\* any number.
LEMMA RunLast ==
    ASSUME NEW s \in Server, NEW b \in Belief, NEW p \in Seq(Message), NEW e \in Belief,
           Run(s, b, p, e), NEW m \in Message, NEW k \in Nat \ {0},
           k = 1 \/ Hears(s, Hears(s, e, m), m) = Hears(s, e, m)
    PROVE  Run(s, b, p \o [j \in 1..k |-> m], Hears(s, e, m))
<1> DEFINE n == Len(p)
           t == [j \in 1..k |-> m]
           q == p \o t
           x == Hears(s, e, m)
<1>1. t \in Seq(Message) /\ Len(t) = k /\ \A j \in 1..k : t[j] = m
  BY SeqDef
<1> HIDE DEF t
<1>2. /\ q \in Seq(Message) /\ Len(q) = n + k /\ n \in Nat
      /\ \A i \in 1..(n + k) : q[i] = IF i <= n THEN p[i] ELSE t[i - n]
  BY <1>1, ConcatProperties, LenProperties
<1>3. x \in Belief /\ (k = 1 \/ Hears(s, x, m) = x)
  BY HearsType
<1>4. PICK R \in [0..n -> Belief] :
         /\ R[0] = b /\ R[n] = e
         /\ \A i \in 1..n : R[i] = Hears(s, R[i - 1], p[i])
  BY DEF Run
<1> HIDE DEF n, q
<1> DEFINE Q == [i \in 0..(n + k) |-> IF i <= n THEN R[i] ELSE x]
<1>5. Q \in [0..(n + k) -> Belief] /\ Q[0] = b /\ Q[n + k] = x
  BY <1>2, <1>3, <1>4
<1>6. ASSUME NEW i \in 1..(n + k) PROVE Q[i] = Hears(s, Q[i - 1], q[i])
  <2>1. CASE i <= n
    BY <1>2, <1>4, <2>1
  <2>2. CASE i = n + 1
    <3>1. q[i] = m
      BY <1>1, <1>2, <2>2
    <3>2. Q[i] = x /\ Q[i - 1] = e
      BY <1>2, <1>4, <2>2
    <3> QED  BY <3>1, <3>2
  <2>3. CASE i > n + 1
    <3>1. q[i] = m /\ k # 1
      BY <1>1, <1>2, <2>3
    <3>2. Q[i] = x /\ Q[i - 1] = x
      BY <1>2, <2>3
    <3> QED  BY <1>3, <3>1, <3>2
  <2> QED  BY <1>2, <2>1, <2>2, <2>3
<1> HIDE DEF Q, x
<1>7. Run(s, b, q, x)
  BY <1>2, <1>5, <1>6 DEF Run
<1> QED  BY <1>7 DEF q, x, t

\* The least element of a set of naturals.
LEMMA SmallestIn ==
    ASSUME NEW T \in SUBSET Nat, T # {}
    PROVE  \E x \in T : \A y \in T : x <= y
<1> DEFINE R == {p \in Nat \X Nat : p[1] < p[2]}
<1>1. OpToRel(<, Nat) = R
  BY DEF OpToRel
<1>2. IsWellFoundedOn(R, Nat)
  BY <1>1, NatLessThanWellFounded
<1>3. \A x, y \in Nat : y < x => <<y, x>> \in R
  OBVIOUS
<1> HIDE DEF R
<1>4. PICK x \in T : \A y \in T : ~(<<y, x>> \in R)
  BY <1>2, WFMin
<1>5. \A y \in T : ~(y < x)
  BY <1>3, <1>4
<1>6. \A y \in T : x <= y
  BY <1>5
<1> QED  BY <1>6

\* Induction, over a set of naturals.
LEMMA InductionIn ==
    ASSUME NEW T \in SUBSET Nat, 0 \in T, \A n \in T : n + 1 \in T
    PROVE  T = Nat
<1> SUFFICES ASSUME Nat \ T # {} PROVE FALSE
  OBVIOUS
<1>1. PICK x \in Nat \ T : \A y \in Nat \ T : x <= y
  BY SmallestIn
<1>2. x # 0 /\ x - 1 \in Nat /\ x - 1 \in T
  BY <1>1
<1> QED  BY <1>1, <1>2

\* Whatever is under way, it leads somewhere.
LEMMA RunExists ==
    ASSUME NEW s \in Server, NEW b \in Belief, NEW p \in Seq(Message)
    PROVE  \E e \in Belief : Run(s, b, p, e)
<1> DEFINE Leads(q) == \A x \in Belief : \E e \in Belief : Run(s, x, q, e)
           T == {n \in Nat : \A q \in Seq(Message) : Len(q) = n => Leads(q)}
<1>1. 0 \in T
  <2>1. ASSUME NEW q \in Seq(Message), Len(q) = 0 PROVE Leads(q)
    <3>1. q = <<>>
      BY <2>1, EmptySeq
    <3> QED  BY <3>1, RunNone
  <2> QED  BY <2>1
<1>2. ASSUME NEW n \in T PROVE n + 1 \in T
  <2>1. ASSUME NEW q \in Seq(Message), Len(q) = n + 1, NEW x \in Belief
        PROVE  \E e \in Belief : Run(s, x, q, e)
    <3>1. q # <<>>
      BY <2>1, EmptySeq
    <3>2. Head(q) \in Message /\ Tail(q) \in Seq(Message) /\ Len(Tail(q)) = n
      BY <2>1, <3>1, HeadTailProperties
    <3>3. Hears(s, x, Head(q)) \in Belief
      BY <3>2, HearsType
    <3>4. PICK e \in Belief : Run(s, Hears(s, x, Head(q)), Tail(q), e)
      BY <3>2, <3>3
    <3> QED  BY <3>1, <3>4, RunFirst
  <2> QED  BY <2>1
<1> HIDE DEF T
<1>3. T = Nat
  <2>1. T \in SUBSET Nat
    BY DEF T
  <2> QED  BY <1>1, <1>2, <2>1, InductionIn
<1>4. Len(p) \in Nat
  BY LenProperties
<1> QED  BY <1>3, <1>4 DEF T

-----------------------------------------------------------------------------
(***************************************************************************)
(* Updates.                                                                *)
(***************************************************************************)
\* An update reaches the sessions of the servers it is addressed to, perhaps
\* several times, and perhaps other sessions.
LEMMA SentRun ==
    ASSUME TypeOK, Sessions, NEW addresses \in SUBSET Server, NEW m \in Message,
           NEW s \in Server, session[s] # None,
           NEW b \in Belief, NEW e \in Belief, Run(s, b, pipe[session[s]], e),
           Hears(s, Hears(s, e, m), m) = Hears(s, e, m)
    PROVE  \E x \in {Hears(s, e, m)} \cup (IF s \in addresses THEN {} ELSE {e}) :
               Run(s, b, SentTo(addresses, m)[session[s]], x)
<1> DEFINE c == session[s]
           A == {t \in addresses : clientAddressMap[t] = c}
           k == Cardinality(A)
<1>1. /\ c \in Client /\ clients[c].state = "open" /\ clientAddressMap[s] = c
      /\ pipe[c] \in Seq(Message)
  BY DEF TypeOK, Sessions
<1>2. IsFiniteSet(A) /\ k \in Nat
  BY GatewayNodeAssumption, FS_Subset, FS_CardinalityType
<1>3. SentTo(addresses, m)[c] = pipe[c] \o [j \in 1..k |-> m]
  BY <1>1 DEF SentTo
<1>4. s \in addresses => k # 0
  BY <1>1, <1>2, FS_EmptySet
<1> HIDE DEF c, A, k
<1>5. CASE k = 0
  <2>1. [j \in 1..k |-> m] = <<>>
    BY <1>5
  <2>2. SentTo(addresses, m)[c] = pipe[c]
    BY <1>1, <1>3, <2>1, ConcatEmptySeq
  <2> QED  BY <1>4, <1>5, <2>2 DEF c
<1>6. CASE k # 0
  <2>1. Run(s, b, pipe[c] \o [j \in 1..k |-> m], Hears(s, e, m))
    BY <1>1, <1>2, <1>6, RunLast DEF c
  <2> QED  BY <1>3, <2>1 DEF c
<1> QED  BY <1>5, <1>6

\* What is sent are messages.
LEMMA SentType ==
    ASSUME TypeOK, NEW addresses \in SUBSET Server, NEW m \in Message
    PROVE  SentTo(addresses, m) \in [Client -> Seq(Message)]
<1>1. ASSUME NEW c \in Client PROVE SentTo(addresses, m)[c] \in Seq(Message)
  <2> DEFINE A == {t \in addresses : clientAddressMap[t] = c}
             t == [j \in 1..Cardinality(A) |-> m]
  <2>1. Cardinality(A) \in Nat
    BY GatewayNodeAssumption, FS_Subset, FS_CardinalityType
  <2>2. t \in Seq(Message)
    <3> HIDE DEF A
    <3> QED  BY <2>1, SeqDef
  <2>3. SentTo(addresses, m)[c] = IF clients[c].state = "open" THEN pipe[c] \o t ELSE pipe[c]
    BY DEF SentTo
  <2>4. pipe[c] \in Seq(Message)
    BY DEF TypeOK
  <2> HIDE DEF t
  <2> QED  BY <2>2, <2>3, <2>4, ConcatProperties
<1> QED  BY <1>1 DEF SentTo

\* A change of the room that is announced leaves the lists on their way to be
\* right, if hearing of it makes right lists right, and those who do not hear of
\* it need not.
LEMMA Announced ==
    ASSUME IInv, NEW addresses \in SUBSET Server, NEW m \in Message,
           pipe' = SentTo(addresses, m), UNCHANGED <<view, synced>>, Unconnected,
           \A s \in Server, e \in Belief : Final(s, e) =>
               /\ Hears(s, Hears(s, e, m), m) = Hears(s, e, m)
               /\ Final(s, Hears(s, e, m))'
               /\ s \notin addresses => Final(s, e)'
    PROVE  Settling' /\ Sessions' /\ pipe' \in [Client -> Seq(Message)]
<1>1. Sessions' /\ pipe' \in [Client -> Seq(Message)]
  BY SentType DEF IInv, Sessions, Unconnected
<1>2. ASSUME NEW s \in Server, session'[s] # None
      PROVE  (\E e \in Belief : Run(s, BeliefOf(s), pipe[session[s]], e) /\ Final(s, e))'
  <2>1. session[s] # None /\ session'[s] = session[s] /\ BeliefOf(s)' = BeliefOf(s)
    BY <1>2 DEF Unconnected, BeliefOf
  <2>2. PICK e \in Belief : Run(s, BeliefOf(s), pipe[session[s]], e) /\ Final(s, e)
    BY <2>1 DEF IInv, Settling
  <2>3. BeliefOf(s) \in Belief
    BY DEF IInv, TypeOK, BeliefOf, Belief
  <2>4. PICK x \in {Hears(s, e, m)} \cup (IF s \in addresses THEN {} ELSE {e}) :
            Run(s, BeliefOf(s), SentTo(addresses, m)[session[s]], x)
    BY <2>1, <2>2, <2>3, SentRun DEF IInv
  <2>5. x \in Belief /\ Final(s, x)'
    BY <2>2, HearsType
  <2>6. Run(s, BeliefOf(s)', pipe'[session'[s]], x)
    BY <2>1, <2>4
  <2> QED  BY <2>5, <2>6 DEF Run
<1> QED  BY <1>1, <1>2 DEF Settling

\* A server whose list is right and that has no avatar in the room shows nobody.
LEMMA FinalNothing ==
    ASSUME NEW s \in Server, NEW e \in Belief, Final(s, e), room = "there",
           avatars \cap Own(s) = {}
    PROVE  e = Nothing
BY DEF Final

\* Entering or announcing again: whoever has an avatar in the room hears of it.
LEMMA EnterInv ==
    ASSUME IInv, NEW a \in Avatar, room = "there", UNCHANGED room,
           avatars' = avatars \cup {a},
           pipe' = SentTo(ConnectedAddresses(avatars'), Msg("MEnterRoom", {a})),
           UNCHANGED <<view, synced>>, Unconnected
    PROVE  IInv'
<1> DEFINE m == Msg("MEnterRoom", {a})
           A == ConnectedAddresses(avatars')
<1>1. avatars \subseteq Avatar /\ avatars' \subseteq Avatar
  BY DEF IInv, TypeOK
<1>2. m \in Message /\ m.type = "MEnterRoom" /\ m.avatars = {a}
  BY DEF Msg, Message
<1>3. A \in SUBSET Server /\ \A s \in Server : s \in A <=> avatars' \cap Own(s) # {}
  BY <1>1, GatewayNodeAssumption DEF ConnectedAddresses, Own
<1>4. ASSUME NEW s \in Server, NEW e \in Belief, Final(s, e)
      PROVE  /\ Hears(s, Hears(s, e, m), m) = Hears(s, e, m)
             /\ Final(s, Hears(s, e, m))'
             /\ s \notin A => Final(s, e)'
  <2>1. \A b \in Belief : Updated(b.list, m) = b.list \cup {a}
    BY <1>2 DEF Updated
  <2>2. Nothing \in Belief /\ Nothing.list = {} /\ Nothing.fetched = {}
    BY DEF Nothing, Belief
  <2>3. e.list \cap Own(s) = avatars \cap Own(s) /\ e.list \subseteq avatars
        /\ (e.fetched # {} => e.list = avatars)
    BY <1>4 DEF Final
  <2>4. CASE avatars' \cap Own(s) # {}
    <3>1. (e.list \cup {a}) \cap Own(s) = avatars' \cap Own(s)
      BY <2>3
    <3>2. Hears(s, e, m) = [list |-> e.list \cup {a}, fetched |-> e.fetched]
      BY <1>2, <2>1, <2>4, <3>1 DEF Hears
    <3> DEFINE x == [list |-> e.list \cup {a}, fetched |-> e.fetched]
    <3>3. x \in Belief /\ x.list = e.list \cup {a} /\ x.fetched = e.fetched
      BY DEF Belief
    <3>4. Hears(s, x, m) = x
      <4>1. Updated(x.list, m) = x.list
        BY <2>1, <3>3
      <4>2. Hears(s, x, m) = [list |-> x.list, fetched |-> x.fetched]
        BY <1>2, <4>1, <2>4, <3>1, <3>3 DEF Hears
      <4> QED  BY <4>2, <3>3
    <3> HIDE DEF x
    <3>5. Final(s, x)'
      BY <2>3, <2>4, <3>1, <3>3 DEF Final
    <3>6. s \in A
      BY <1>3, <2>4
    <3> QED  BY <3>2, <3>4, <3>5, <3>6 DEF x
  <2>5. CASE avatars' \cap Own(s) = {}
    <3>1. e = Nothing
      BY <1>4, <2>5, FinalNothing
    <3>2. Hears(s, Nothing, m) = Nothing
      BY <1>2, <2>1, <2>2, <2>5 DEF Hears
    <3>3. Final(s, Nothing)'
      BY <2>2, <2>5 DEF Final
    <3> QED  BY <3>1, <3>2, <3>3
  <2> QED  BY <2>4, <2>5
<1> HIDE DEF m, A
<1>5. Settling' /\ Sessions' /\ pipe' \in [Client -> Seq(Message)]
  BY <1>2, <1>3, <1>4, Announced DEF m, A
<1> QED  BY <1>1, <1>5 DEF IInv, TypeOK, Unconnected

\* Leaving or being kicked: whoever had an avatar in the room hears of it.
LEMMA LeaveInv ==
    ASSUME IInv, NEW a \in Avatar, room = "there", UNCHANGED room,
           avatars' = avatars \ {a},
           NEW type \in {"MLeaveRoom", "MKickAvatar"},
           pipe' = SentTo(ConnectedAddresses(avatars), Msg(type, {a})),
           UNCHANGED <<view, synced>>, Unconnected
    PROVE  IInv'
<1> DEFINE m == Msg(type, {a})
           A == ConnectedAddresses(avatars)
<1>1. avatars \subseteq Avatar /\ avatars' \subseteq Avatar
  BY DEF IInv, TypeOK
<1>2. m \in Message /\ m.type \in {"MLeaveRoom", "MKickAvatar"} /\ m.avatars = {a}
  BY DEF Msg, Message
<1>3. A \in SUBSET Server /\ \A s \in Server : s \in A <=> avatars \cap Own(s) # {}
  BY <1>1, GatewayNodeAssumption DEF ConnectedAddresses, Own
<1>4. ASSUME NEW s \in Server, NEW e \in Belief, Final(s, e)
      PROVE  /\ Hears(s, Hears(s, e, m), m) = Hears(s, e, m)
             /\ Final(s, Hears(s, e, m))'
             /\ s \notin A => Final(s, e)'
  <2>1. \A b \in Belief : Updated(b.list, m) = b.list \ {a}
    BY <1>2 DEF Updated
  <2>2. Nothing \in Belief /\ Nothing.list = {} /\ Nothing.fetched = {}
    BY DEF Nothing, Belief
  <2>3. e.list \cap Own(s) = avatars \cap Own(s) /\ e.list \subseteq avatars
        /\ (e.fetched # {} => e.list = avatars)
    BY <1>4 DEF Final
  <2>4. Hears(s, Nothing, m) = Nothing
    BY <1>2, <2>1, <2>2 DEF Hears
  <2>5. CASE avatars' \cap Own(s) # {}
    <3>1. (e.list \ {a}) \cap Own(s) = avatars' \cap Own(s)
      BY <2>3
    <3>2. Hears(s, e, m) = [list |-> e.list \ {a}, fetched |-> e.fetched]
      BY <1>2, <2>1, <2>5, <3>1 DEF Hears
    <3> DEFINE x == [list |-> e.list \ {a}, fetched |-> e.fetched]
    <3>3. x \in Belief /\ x.list = e.list \ {a} /\ x.fetched = e.fetched
      BY DEF Belief
    <3>4. Hears(s, x, m) = x
      <4>1. Updated(x.list, m) = x.list
        BY <2>1, <3>3
      <4>2. Hears(s, x, m) = [list |-> x.list, fetched |-> x.fetched]
        BY <1>2, <4>1, <2>5, <3>1, <3>3 DEF Hears
      <4> QED  BY <4>2, <3>3
    <3> HIDE DEF x
    <3>5. Final(s, x)'
      BY <2>3, <2>5, <3>1, <3>3 DEF Final
    <3>6. s \in A
      BY <1>3, <2>5
    <3> QED  BY <3>2, <3>4, <3>5, <3>6 DEF x
  <2>6. CASE avatars' \cap Own(s) = {}
    <3>1. Hears(s, e, m) = Nothing
      BY <2>1, <2>3, <2>6 DEF Hears
    <3>2. Final(s, Nothing)'
      BY <2>2, <2>6 DEF Final
    <3>3. s \notin A => e = Nothing
      BY <1>3, <1>4, FinalNothing
    <3> QED  BY <2>4, <3>1, <3>2, <3>3
  <2> QED  BY <2>5, <2>6
<1> HIDE DEF m, A
<1>5. Settling' /\ Sessions' /\ pipe' \in [Client -> Seq(Message)]
  BY <1>2, <1>3, <1>4, Announced DEF m, A
<1> QED  BY <1>1, <1>5 DEF IInv, TypeOK, Unconnected

\* Destroying: whoever had an avatar in the room hears of it, but for the
\* creator's server.
LEMMA DestroyInv ==
    ASSUME IInv, DestroyRoom
    PROVE  IInv'
<1> DEFINE m == Msg("MDestroyRoom", {})
           A == RemoteAddresses(avatars)
<1>0. /\ room = "there" /\ room' = "destroyed" /\ avatars' = {} /\ Unconnected
      /\ UNCHANGED <<view, synced>> /\ pipe' = SentTo(A, m)
  BY DEF DestroyRoom
<1>1. avatars \subseteq Avatar /\ avatars' \subseteq Avatar
  BY <1>0 DEF IInv, TypeOK
<1>2. m \in Message /\ m.type = "MDestroyRoom" /\ m.avatars = {}
  BY DEF Msg, Message
<1>3. /\ A \in SUBSET Server
      /\ \A s \in Server : s \in A <=> avatars \cap Own(s) # {} /\ s # AddressOf[Creator]
  BY <1>1, GatewayNodeAssumption DEF RemoteAddresses, ConnectedAddresses, Own
<1>4. ASSUME NEW s \in Server, NEW e \in Belief, Final(s, e)
      PROVE  /\ Hears(s, Hears(s, e, m), m) = Hears(s, e, m)
             /\ Final(s, Hears(s, e, m))'
             /\ s \notin A => Final(s, e)'
  <2>1. \A b \in Belief : Updated(b.list, m) = {}
    BY <1>2 DEF Updated
  <2>2. Nothing \in Belief /\ Nothing.list = {} /\ Nothing.fetched = {}
    BY DEF Nothing, Belief
  <2>3. Hears(s, e, m) = Nothing /\ Hears(s, Nothing, m) = Nothing
    BY <2>1, <2>2 DEF Hears
  <2>4. Final(s, Nothing)'
    BY <1>0, <2>2 DEF Final
  <2>5. CASE s \notin A
    <3>1. s # AddressOf[Creator] => e = Nothing
      BY <1>0, <1>3, <1>4, <2>5, FinalNothing
    <3>2. Final(s, e)'
      BY <1>0, <1>4, <3>1 DEF Final
    <3> QED  BY <2>3, <2>4, <3>2
  <2> QED  BY <2>3, <2>4, <2>5
<1> HIDE DEF m, A
<1>5. Settling' /\ Sessions' /\ pipe' \in [Client -> Seq(Message)]
  BY <1>0, <1>2, <1>3, <1>4, Announced
<1> QED  BY <1>0, <1>1, <1>5 DEF IInv, TypeOK, Unconnected

\* Where nothing moves and the room's change is no concern, lists stay right.
LEMMA Unmoved ==
    ASSUME Settling, NEW s \in Server, session[s] # None, session'[s] = session[s],
           BeliefOf(s)' = BeliefOf(s), pipe'[session[s]] = pipe[session[s]],
           \A e \in Belief : Final(s, e) => Final(s, e)'
    PROVE  (\E e \in Belief : Run(s, BeliefOf(s), pipe[session[s]], e) /\ Final(s, e))'
<1>1. PICK e \in Belief : Run(s, BeliefOf(s), pipe[session[s]], e) /\ Final(s, e)
  BY DEF Settling
<1>2. Run(s, BeliefOf(s)', pipe'[session'[s]], e)
  BY <1>1
<1> QED  BY <1>1, <1>2 DEF Run

\* One message put at the end.
LEMMA RunOneMore ==
    ASSUME NEW s \in Server, NEW b \in Belief, NEW p \in Seq(Message), NEW e \in Belief,
           Run(s, b, p, e), NEW m \in Message
    PROVE  Run(s, b, Append(p, m), Hears(s, e, m))
<1>1. \A k \in Nat \ {0} : k = 1 => Run(s, b, p \o [j \in 1..k |-> m], Hears(s, e, m))
  BY RunLast
<1>2. [j \in 1..1 |-> m] = <<m>>
  OBVIOUS
<1>3. Append(p, m) = p \o <<m>>
  BY AppendIsConcat
<1>4. Run(s, b, p \o [j \in 1..1 |-> m], Hears(s, e, m))
  <2>1. 1 \in Nat \ {0} /\ 1 = 1
    OBVIOUS
  <2> QED  BY <1>1, <2>1, Zenon
<1> QED  BY <1>2, <1>3, <1>4

\* The room appears, empty, with nobody showing it.
LEMMA CreateInv ==
    ASSUME IInv, CreateRoom
    PROVE  IInv'
<1>0. room = "none" /\ room' = "there" /\ avatars' = {} /\ UNCHANGED <<pipe, view, synced>>
      /\ Unconnected
  BY DEF CreateRoom
<1>1. ASSUME NEW s \in Server, session'[s] # None
      PROVE  (\E e \in Belief : Run(s, BeliefOf(s), pipe[session[s]], e) /\ Final(s, e))'
  <2>1. ASSUME NEW e \in Belief, Final(s, e) PROVE Final(s, e)'
    <3>1. Nothing.list = {} /\ Nothing.fetched = {}
      BY DEF Nothing
    <3>2. e = Nothing
      BY <1>0, <2>1 DEF Final
    <3> QED  BY <1>0, <3>1, <3>2 DEF Final
  <2>2. session'[s] = session[s] /\ BeliefOf(s)' = BeliefOf(s)
    BY <1>0 DEF Unconnected, BeliefOf
  <2> QED  BY <1>0, <1>1, <2>1, <2>2, Unmoved DEF IInv
<1> QED  BY <1>0, <1>1 DEF IInv, TypeOK, Sessions, Settling, Unconnected

\* The answer to GETROOM shows the room as it is.
LEMMA GetInv ==
    ASSUME IInv, NEW t \in Server, GetRoom(t)
    PROVE  IInv'
<1> DEFINE m == Msg("GetRoom", avatars)
           c == session[t]
<1>0. /\ room = "there" /\ c # None /\ UNCHANGED <<room, avatars, view, synced>>
      /\ Unconnected /\ pipe' = Sent(pipe, c, m)
  BY DEF GetRoom
<1>1. /\ c \in Client /\ clients[c].state = "open" /\ clients[c].server = t
      /\ pipe \in [Client -> Seq(Message)] /\ avatars \subseteq Avatar
  BY <1>0 DEF IInv, TypeOK, Sessions
<1>2. m \in Message /\ m.type = "GetRoom" /\ m.avatars = avatars
  BY <1>1 DEF Msg, Message
<1> HIDE DEF m
<1>3. pipe' = [pipe EXCEPT ![c] = Append(pipe[c], m)]
  BY <1>0, <1>1 DEF Sent
<1>4. pipe' \in [Client -> Seq(Message)]
  BY <1>1, <1>2, <1>3, AppendProperties
<1>5. ASSUME NEW s \in Server, session'[s] # None
      PROVE  (\E e \in Belief : Run(s, BeliefOf(s), pipe[session[s]], e) /\ Final(s, e))'
  <2>1. session'[s] = session[s] /\ BeliefOf(s)' = BeliefOf(s) /\ session[s] # None
    BY <1>0, <1>5 DEF Unconnected, BeliefOf
  <2>2. \A e \in Belief : Final(s, e) => Final(s, e)'
    BY <1>0 DEF Final
  <2>3. CASE s # t
    <3>1. session[s] # c
      BY <1>1, <2>1, <2>3 DEF IInv, Sessions
    <3>2. session[s] \in Client
      BY <2>1 DEF IInv, TypeOK
    <3>3. pipe'[session[s]] = pipe[session[s]]
      BY <1>1, <1>3, <3>1, <3>2
    <3> QED  BY <2>1, <2>2, <3>3, Unmoved DEF IInv
  <2>4. CASE s = t
    <3>1. PICK e \in Belief : Run(s, BeliefOf(s), pipe[c], e) /\ Final(s, e)
      BY <2>1, <2>4 DEF IInv, Settling
    <3>2. BeliefOf(s) \in Belief
      BY DEF IInv, TypeOK, BeliefOf, Belief
    <3>3. Run(s, BeliefOf(s), Append(pipe[c], m), Hears(s, e, m))
      BY <1>1, <1>2, <3>1, <3>2, RunOneMore
    <3>4. PICK x \in Belief : x = Hears(s, e, m)
      BY <1>2, HearsType
    <3>5. x = IF avatars \cap Own(s) = {} THEN Nothing
              ELSE [list |-> avatars, fetched |-> {s}]
      BY <1>2, <3>4 DEF Hears, Updated
    <3>6. x.list = (IF avatars \cap Own(s) = {} THEN {} ELSE avatars)
          /\ (avatars \cap Own(s) = {} => x.fetched = {})
      BY <3>5 DEF Nothing
    <3>7. Final(s, x)'
      BY <1>0, <3>5, <3>6 DEF Final
    <3>8. Run(s, BeliefOf(s)', pipe'[session'[s]], x)
      BY <1>1, <1>3, <2>1, <2>4, <3>3, <3>4
    <3> QED  BY <3>7, <3>8 DEF Run
  <2> QED  BY <2>3, <2>4
<1> QED  BY <1>0, <1>4, <1>5 DEF IInv, TypeOK, Sessions, Settling, Unconnected

\* A login begins a session with an empty list, and empties the rooms of all.
LEMMA LoginInv ==
    ASSUME IInv, NEW c \in Client, SystemLogin(c)
    PROVE  IInv'
<1> DEFINE s == clients[c].server
           m == Msg("LoginAvatar", {})
<1>0. /\ clients[c].state = "open" /\ UNCHANGED clients
      /\ clientAddressMap' = [clientAddressMap EXCEPT ![s] = c]
      /\ session' = [session EXCEPT ![s] = c]
      /\ room' = (IF room = "there" THEN "emptied" ELSE room) /\ avatars' = {}
      /\ view' = [view EXCEPT ![s] = {}] /\ synced' = synced \ {s}
      /\ pipe' = Sent(pipe, c, m)
  BY DEF SystemLogin
<1>1. s \in Server /\ pipe \in [Client -> Seq(Message)] /\ c # None
  BY GatewayNodeAssumption DEF IInv, TypeOK
<1>2. m \in Message /\ m.type = "LoginAvatar"
  BY DEF Msg, Message
<1> HIDE DEF m
<1>3. pipe' = [pipe EXCEPT ![c] = Append(pipe[c], m)]
  BY <1>0, <1>1 DEF Sent
<1>4. pipe' \in [Client -> Seq(Message)]
  BY <1>1, <1>2, <1>3, AppendProperties
<1>5. TypeOK'
  BY <1>0, <1>1, <1>4 DEF IInv, TypeOK
<1>6. Sessions'
  BY <1>0, <1>1 DEF IInv, TypeOK, Sessions
<1>7. ASSUME NEW t \in Server, session'[t] # None
      PROVE  (\E e \in Belief : Run(t, BeliefOf(t), pipe[session[t]], e) /\ Final(t, e))'
  <2>1. CASE t # s
    <3>1. session'[t] = session[t] /\ session[t] # None /\ session[t] \in Client
      BY <1>0, <1>1, <1>7, <2>1 DEF IInv, TypeOK
    <3>2. session[t] # c
      BY <2>1, <3>1 DEF IInv, Sessions
    <3>3. BeliefOf(t)' = BeliefOf(t)
      BY <1>0, <1>1, <2>1 DEF IInv, TypeOK, BeliefOf
    <3>4. pipe'[session[t]] = pipe[session[t]]
      BY <1>1, <1>3, <3>1, <3>2
    <3>5. \A e \in Belief : Final(t, e) => Final(t, e)'
      BY <1>0 DEF Final
    <3> QED  BY <3>1, <3>3, <3>4, <3>5, Unmoved DEF IInv
  <2>2. CASE t = s
    <3>1. session'[t] = c
      BY <1>0, <1>1, <2>2 DEF IInv, TypeOK
    <3>2. BeliefOf(t)' \in Belief
      BY <1>5 DEF TypeOK, BeliefOf, Belief
    <3> DEFINE b == BeliefOf(t)'
    <3> HIDE DEF b
    <3>3. pipe[c] \in Seq(Message) /\ b \in Belief
      BY <1>1, <3>2 DEF b
    <3>4. PICK e \in Belief : Run(t, b, pipe[c], e)
      BY <3>3, RunExists
    <3>5. Run(t, b, Append(pipe[c], m), Hears(t, e, m))
      BY <1>2, <3>3, <3>4, RunOneMore
    <3>6. Hears(t, e, m) = Nothing /\ Nothing \in Belief
      BY <1>2 DEF Hears, Updated, Nothing, Belief
    <3>7. Final(t, Nothing)'
      BY <1>0 DEF Final, Nothing
    <3>8. Run(t, BeliefOf(t)', pipe'[session'[t]], Nothing)
      BY <1>1, <1>3, <3>1, <3>5, <3>6 DEF b
    <3> QED  BY <3>6, <3>7, <3>8 DEF Run
  <2> QED  BY <2>1, <2>2
<1> QED  BY <1>5, <1>6, <1>7 DEF IInv, Settling

\* A place without an open client is one.
LEMMA WithoutType ==
    ASSUME NEW state \in {"free", "lost"}
    PROVE  Without(state) \in [state: ClientState, server: Server]
BY GatewayNodeAssumption DEF Without, ClientState

\* What a lost connection carried is lost with the session on it.
LEMMA DisconnectInv ==
    ASSUME IInv, NEW c \in Client, Disconnected(c)
    PROVE  IInv'
<1>0. /\ clients' = [clients EXCEPT ![c] = Without("lost")]
      /\ pipe' = [pipe EXCEPT ![c] = <<>>]
      /\ session' = [s \in Server |-> IF session[s] = c THEN None ELSE session[s]]
      /\ synced' = synced \ {s \in Server : session[s] = c}
      /\ view' = [s \in Server |-> IF session[s] = c THEN {} ELSE view[s]]
      /\ UNCHANGED <<clientAddressMap, room, avatars>>
  BY DEF Disconnected
<1>1. pipe' \in [Client -> Seq(Message)]
  BY <1>0, EmptySeq DEF IInv, TypeOK
<1>2. clients' \in [Client -> [state: ClientState, server: Server]]
      /\ \A d \in Client : d # c => clients'[d] = clients[d]
  BY <1>0, WithoutType DEF IInv, TypeOK
<1>3. TypeOK'
  BY <1>0, <1>1, <1>2 DEF IInv, TypeOK
<1>4. \A s \in Server : session'[s] # None =>
          session'[s] = session[s] /\ session[s] # c /\ session[s] \in Client
  BY <1>0 DEF IInv, TypeOK
<1>5. Sessions'
  BY <1>0, <1>2, <1>4 DEF IInv, Sessions
<1>6. ASSUME NEW s \in Server, session'[s] # None
      PROVE  (\E e \in Belief : Run(s, BeliefOf(s), pipe[session[s]], e) /\ Final(s, e))'
  <2>1. session'[s] = session[s] /\ session[s] # c /\ session[s] \in Client
    BY <1>4, <1>6
  <2>2. BeliefOf(s)' = BeliefOf(s)
    BY <1>0, <2>1 DEF BeliefOf
  <2>3. pipe'[session[s]] = pipe[session[s]]
    BY <1>0, <2>1 DEF IInv, TypeOK
  <2>4. \A e \in Belief : Final(s, e) => Final(s, e)'
    BY <1>0 DEF Final
  <2> QED  BY <1>6, <2>1, <2>2, <2>3, <2>4, Unmoved DEF IInv
<1> QED  BY <1>3, <1>5, <1>6 DEF IInv, Settling

\* A message that arrives is the first of those that were to arrive.
LEMMA ReceiveInv ==
    ASSUME IInv, NEW c \in Client, Receive(c)
    PROVE  IInv'
<1> DEFINE s == clients[c].server
           m == Head(pipe[c])
           list == Updated(view[s], m)
           keep == list \cap Own(s) # {}
<1>0. /\ pipe[c] # <<>> /\ pipe' = [pipe EXCEPT ![c] = Tail(pipe[c])]
      /\ IF session[s] = c
         THEN /\ view' = [view EXCEPT ![s] = IF keep THEN list ELSE {}]
              /\ synced' = IF ~keep THEN synced \ {s}
                           ELSE IF m.type = "GetRoom" THEN synced \cup {s} ELSE synced
         ELSE UNCHANGED <<view, synced>>
      /\ UNCHANGED <<clients, clientAddressMap, room, avatars, session>>
  BY DEF Receive
<1>1. /\ s \in Server /\ pipe[c] \in Seq(Message) /\ pipe \in [Client -> Seq(Message)]
      /\ m \in Message /\ Tail(pipe[c]) \in Seq(Message)
  BY <1>0, HeadTailProperties DEF IInv, TypeOK
<1> HIDE DEF m
<1>2. list \in SUBSET Avatar
  BY <1>1 DEF IInv, TypeOK, Updated, Message
<1> HIDE DEF list
<1>3. TypeOK'
  BY <1>0, <1>1, <1>2 DEF IInv, TypeOK
<1>4. Sessions'
  BY <1>0 DEF IInv, Sessions
<1>5. ASSUME NEW t \in Server, session'[t] # None
      PROVE  (\E e \in Belief : Run(t, BeliefOf(t), pipe[session[t]], e) /\ Final(t, e))'
  <2>1. session'[t] = session[t] /\ session[t] # None /\ session[t] \in Client
    BY <1>0, <1>5 DEF IInv, TypeOK
  <2>2. \A e \in Belief : Final(t, e) => Final(t, e)'
    BY <1>0 DEF Final
  <2>3. CASE session[t] # c
    <3>1. BeliefOf(t)' = BeliefOf(t)
      BY <1>0, <1>1, <2>3 DEF IInv, TypeOK, BeliefOf
    <3>2. pipe'[session[t]] = pipe[session[t]]
      BY <1>0, <1>1, <2>1, <2>3
    <3> QED  BY <2>1, <2>2, <2>3, <3>1, <3>2, Unmoved DEF IInv
  <2>4. CASE session[t] = c
    <3>1. t = s
      BY <2>1, <2>4 DEF IInv, Sessions
    <3> DEFINE b == BeliefOf(t)
    <3>2. b \in Belief /\ b.list = view[s] /\ b.fetched = synced \cap {s}
      BY <3>1 DEF IInv, TypeOK, BeliefOf, Belief
    <3>3. PICK e \in Belief : Run(t, b, pipe[c], e) /\ Final(t, e)
      BY <2>1, <2>4 DEF IInv, Settling
    <3>4. BeliefOf(t)' = [list |-> IF keep THEN list ELSE {},
                          fetched |-> IF ~keep THEN {}
                                      ELSE IF m.type = "GetRoom" THEN {s} ELSE synced \cap {s}]
      <4>1. view'[s] = IF keep THEN list ELSE {}
        BY <1>0, <1>1, <2>4, <3>1 DEF IInv, TypeOK
      <4>2. synced' \cap {s} = IF ~keep THEN {}
                               ELSE IF m.type = "GetRoom" THEN {s} ELSE synced \cap {s}
        BY <1>0, <2>4, <3>1
      <4> QED  BY <3>1, <4>1, <4>2 DEF BeliefOf
    <3>5. Hears(t, b, m) = BeliefOf(t)'
      BY <3>1, <3>2, <3>4 DEF Hears, Nothing, list
    <3> HIDE DEF b
    <3>6. Run(t, Hears(t, b, m), Tail(pipe[c]), e)
      BY <1>0, <1>1, <3>2, <3>3, RunFirst DEF m
    <3>7. Run(t, BeliefOf(t)', pipe'[session'[t]], e)
      BY <1>0, <1>1, <2>1, <2>4, <3>5, <3>6
    <3> QED  BY <2>2, <3>3, <3>7 DEF Run
  <2> QED  BY <2>3, <2>4
<1> QED  BY <1>3, <1>4, <1>5 DEF IInv, Settling

\* Where no message, list or session changes, nor the room, lists stay right.
LEMMA SettlingKept ==
    ASSUME Settling, UNCHANGED <<room, avatars, pipe, view, session, synced>>
    PROVE  Settling'
<1>1. ASSUME NEW s \in Server, session'[s] # None
      PROVE  (\E e \in Belief : Run(s, BeliefOf(s), pipe[session[s]], e) /\ Final(s, e))'
  <2>1. \A e \in Belief : Final(s, e) => Final(s, e)'
    BY DEF Final
  <2>2. session'[s] = session[s] /\ BeliefOf(s)' = BeliefOf(s)
    BY DEF BeliefOf
  <2> QED  BY <1>1, <2>1, <2>2, Unmoved
<1> QED  BY <1>1 DEF Settling

\* Clients that no session is on come and go.
LEMMA PlacesInv ==
    ASSUME IInv, Tick \/ \E s \in Server, c \in Client : OnConnectRequest(s, c)
    PROVE  IInv'
<1>0. UNCHANGED <<clientAddressMap, room, avatars, pipe, view, session, synced>>
  BY DEF Tick, OnConnectRequest
<1>1. /\ clients' \in [Client -> [state: ClientState, server: Server]]
      /\ \A c \in Client : clients[c].state = "open" =>
            clients'[c].state = "open" /\ clients'[c].server = clients[c].server
  <2>1. CASE Tick
    BY <2>1, WithoutType DEF IInv, TypeOK, Tick
  <2>2. ASSUME NEW s \in Server, NEW c \in Client, OnConnectRequest(s, c)
        PROVE  <1>1!:
    BY <2>2 DEF IInv, TypeOK, OnConnectRequest, ClientState
  <2> QED  BY <2>1, <2>2
<1>2. Settling'
  BY <1>0, SettlingKept DEF IInv
<1>3. Sessions'
  BY <1>0, <1>1 DEF IInv, TypeOK, Sessions
<1> QED  BY <1>0, <1>1, <1>2, <1>3 DEF IInv, TypeOK

\* A process that starts has no sessions.
LEMMA CrashInv ==
    ASSUME IInv, Crash
    PROVE  IInv'
<1>1. clients' \in [Client -> [state: ClientState, server: Server]]
  BY WithoutType DEF Crash
<1>2. pipe' \in [Client -> Seq(Message)]
  BY EmptySeq DEF Crash
<1>3. \A s \in Server : session'[s] = None
  BY DEF Crash
<1> QED  BY <1>1, <1>2, <1>3 DEF IInv, TypeOK, Sessions, Settling, Crash

-----------------------------------------------------------------------------
(***************************************************************************)
(* The invariant, and what it shows.                                       *)
(***************************************************************************)
\* Every step keeps the invariant.
LEMMA Inductive == IInv /\ [Next]_vars => IInv'
<1> SUFFICES ASSUME IInv, [Next]_vars PROVE IInv'
  OBVIOUS
<1>1. CASE CreateRoom
  BY <1>1, CreateInv
<1>2. CASE DestroyRoom
  BY <1>2, DestroyInv
<1>3. ASSUME NEW a \in Avatar, EnterRoom(a) PROVE IInv'
  <2>1. room = "there" /\ avatars' = avatars \cup {a} /\ UNCHANGED <<room, view, synced>>
        /\ Unconnected /\ pipe' = SentTo(ConnectedAddresses(avatars'), Msg("MEnterRoom", {a}))
    BY <1>3 DEF EnterRoom
  <2> QED  BY <2>1, EnterInv
<1>4. ASSUME NEW a \in Avatar, Relogin(a) PROVE IInv'
  <2>1. room = "there" /\ avatars' = avatars \cup {a} /\ avatars' = avatars
        /\ UNCHANGED <<room, view, synced>>
        /\ Unconnected /\ pipe' = SentTo(ConnectedAddresses(avatars), Msg("MEnterRoom", {a}))
    BY <1>4 DEF Relogin
  <2> QED  BY <2>1, EnterInv
<1>5. ASSUME NEW a \in Avatar, LeaveRoom(a) \/ KickAvatar(a) PROVE IInv'
  <2>1. PICK type \in {"MLeaveRoom", "MKickAvatar"} :
           /\ room = "there" /\ avatars' = avatars \ {a} /\ UNCHANGED <<room, view, synced>>
           /\ Unconnected /\ pipe' = SentTo(ConnectedAddresses(avatars), Msg(type, {a}))
    BY <1>5 DEF LeaveRoom, KickAvatar
  <2> QED  BY <2>1, LeaveInv
<1>6. ASSUME NEW s \in Server, GetRoom(s) PROVE IInv'
  BY <1>6, GetInv
<1>7. CASE Tick \/ \E s \in Server, c \in Client : OnConnectRequest(s, c)
  BY <1>7, PlacesInv
<1>8. ASSUME NEW c \in Client, SystemLogin(c) \/ Disconnected(c) \/ Receive(c) PROVE IInv'
  BY <1>8, LoginInv, DisconnectInv, ReceiveInv
<1>9. CASE Crash
  BY <1>9, CrashInv
<1>10. CASE UNCHANGED vars
  <2>1. UNCHANGED <<clients, clientAddressMap, room, avatars, pipe, view, session, synced>>
    BY <1>10 DEF vars
  <2>2. Settling'
    BY <2>1, SettlingKept DEF IInv
  <2> QED  BY <2>1, <2>2 DEF IInv, TypeOK, Sessions
<1> QED
  BY <1>1, <1>2, <1>3, <1>4, <1>5, <1>6, <1>7, <1>8, <1>9, <1>10 DEF Next

\* The invariant holds when the process starts.
LEMMA Initially == Init => IInv
<1> SUFFICES ASSUME Init PROVE IInv
  OBVIOUS
<1>1. clients \in [Client -> [state: ClientState, server: Server]]
  BY WithoutType DEF Init
<1>2. pipe \in [Client -> Seq(Message)]
  BY EmptySeq DEF Init
<1> QED  BY <1>1, <1>2 DEF Init, IInv, TypeOK, Sessions, Settling

\* When everything sent has been received, the list is what it was to become.
LEMMA InvariantMeans == IInv => ViewsSound
<1> SUFFICES ASSUME IInv PROVE ViewsSound
  OBVIOUS
<1>1. ASSUME NEW s \in Server, Drained(s)
      PROVE  Final(s, BeliefOf(s))
  <2>1. PICK e \in Belief : Run(s, BeliefOf(s), <<>>, e) /\ Final(s, e)
    BY <1>1 DEF IInv, Settling, Drained
  <2>2. BeliefOf(s) \in Belief
    BY DEF IInv, TypeOK, BeliefOf, Belief
  <2> QED  BY <2>1, <2>2, RunNone
<1>2. \A s \in Server : BeliefOf(s).list = view[s] /\ BeliefOf(s).fetched = synced \cap {s}
  BY DEF BeliefOf
<1>3. \A s \in Server : BeliefOf(s) = Nothing => view[s] = {}
  BY <1>2 DEF Nothing
<1>4. ViewsAgree
  BY <1>1, <1>2 DEF ViewsAgree, Final
<1>5. DestructionTold
  BY <1>1, <1>3 DEF DestructionTold, Final
<1> QED  BY <1>4, <1>5 DEF IInv, ViewsSound

\* Whatever the order of entering, leaving, kicking, destroying, logging in and
\* fetching, on connections that break and places of clients used again, a game
\* server that has received what it was sent shows the room as it is, and none
\* but the creator's shows a room that was destroyed (SendTo and the room handlers
\* of Protocol.cpp, RegisterClientAddress and OnConnectRequest).
THEOREM ViewsAreSound == Spec => []ViewsSound
<1>1. Spec => []IInv
  BY Initially, Inductive, PTL DEF Spec
<1> QED  BY <1>1, InvariantMeans, PTL
=============================================================================
