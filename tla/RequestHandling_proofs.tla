------------------------ MODULE RequestHandling_proofs ------------------------
(***************************************************************************)
(* Requests and answers, for any number of requests of any types, with the *)
(* handlers as they are: first what holds of each handler as a sequence of *)
(* steps, then what follows for a connection that performs them.  Last,    *)
(* NodeClient's streams, for any messages and any even number of values    *)
(* of a byte.                                                              *)
(***************************************************************************)
EXTENDS GatewayClient, SequenceTheorems, WellFoundedInduction, TLAPS

-----------------------------------------------------------------------------
(***************************************************************************)
(* Sequences of steps.                                                     *)
(***************************************************************************)
Elems(s) == {s[i] : i \in DOMAIN s}

IsSeq(s) == s \in Seq(Elems(s))

\* What was not found is asked for or made by the next step.
Tested(s) ==
    \A i \in DOMAIN s : "null" \in s[i].outcomes =>
        /\ i + 1 \in DOMAIN s
        /\ s[i + 1].op \in {"need", "make"} /\ s[i + 1].on = s[i].on

\* Steps that are never refused; and steps that only the database refuses, all of
\* which find what they look for.
Sure(s) == \A e \in Elems(s) : e.outcomes \subseteq {"done", "null", "dies"}
Admitted(s) == \A e \in Elems(s) : e.outcomes \subseteq {"done", "dies", "DATABASE"}

Quiet(s) == \A e \in Elems(s) : e.op # "tell"
Pure(s) == \A e \in Elems(s) : e.op \notin {"make", "change", "tell"}

\* What follows a step that tells somebody is sure; what follows that or a change,
\* admitted.
TellsLast(s) ==
    \A i, j \in DOMAIN s : i < j /\ s[i].op = "tell" => s[j].outcomes \subseteq {"done", "null", "dies"}
ChangesLate(s) ==
    \A i, j \in DOMAIN s : i < j /\ s[i].op \in {"make", "change", "tell"} =>
        s[j].outcomes \subseteq {"done", "dies", "DATABASE"}

\* A test ends the handler; what is tested or made is not looked for; nothing is
\* thrown with the code of success.
WellMade(e) ==
    /\ "SUCCESS" \notin e.outcomes
    /\ e.op = "need" => e.outcomes \cap {"done", "null", "dies"} = {}
    /\ e.op \in {"need", "make"} => "null" \notin e.outcomes /\ e.puts = {}

\* Literal sequences.
LEMMA ElemsOf ==
    /\ \A a : Elems(<<a>>) = {a} /\ IsSeq(<<a>>)
    /\ \A a, b : Elems(<<a, b>>) = {a, b} /\ IsSeq(<<a, b>>)
    /\ \A a, b, c : Elems(<<a, b, c>>) = {a, b, c} /\ IsSeq(<<a, b, c>>)
    /\ \A a, b, c, d : Elems(<<a, b, c, d>>) = {a, b, c, d} /\ IsSeq(<<a, b, c, d>>)
<1>1. /\ \A a : Elems(<<a>>) = {a}
      /\ \A a, b : Elems(<<a, b>>) = {a, b}
      /\ \A a, b, c : Elems(<<a, b, c>>) = {a, b, c}
      /\ \A a, b, c, d : Elems(<<a, b, c, d>>) = {a, b, c, d}
  BY DEF Elems
<1>2. /\ \A a : <<a>> \in Seq({a})
      /\ \A a, b : <<a, b>> \in Seq({a, b})
      /\ \A a, b, c : <<a, b, c>> \in Seq({a, b, c})
      /\ \A a, b, c, d : <<a, b, c, d>> \in Seq({a, b, c, d})
  OBVIOUS
<1> QED  BY <1>1, <1>2 DEF IsSeq

\* One sequence after another.
LEMMA Joined ==
    ASSUME NEW s, NEW q, IsSeq(s), IsSeq(q)
    PROVE  /\ IsSeq(s \o q)
           /\ Elems(s \o q) = Elems(s) \cup Elems(q)
           /\ Tested(s) /\ Tested(q) => Tested(s \o q)
           /\ TellsLast(s) /\ TellsLast(q) /\ (Quiet(s) \/ Sure(q)) => TellsLast(s \o q)
           /\ ChangesLate(s) /\ ChangesLate(q) /\ (Pure(s) \/ Admitted(q)) => ChangesLate(s \o q)
<1> DEFINE m == Len(s)
           n == Len(q)
           r == s \o q
           S == Elems(s) \cup Elems(q)
<1>0. s \in Seq(S) /\ q \in Seq(S)
  <2>1. \A T : T \subseteq S => Seq(T) \subseteq Seq(S)
    OBVIOUS
  <2> QED  BY <2>1 DEF IsSeq
<1> HIDE DEF S
<1>1. m \in Nat /\ n \in Nat /\ DOMAIN s = 1..m /\ DOMAIN q = 1..n
  BY <1>0, LenProperties
<1>2. /\ r \in Seq(S) /\ Len(r) = m + n
      /\ \A i \in 1..(m + n) : r[i] = IF i <= m THEN s[i] ELSE q[i - m]
  BY <1>0, ConcatProperties
<1>3. DOMAIN r = 1..(m + n)
  BY <1>2, LenProperties
<1> HIDE DEF m, n, r
<1>4. /\ \A i \in 1..m : i \in 1..(m + n) /\ r[i] = s[i]
      /\ \A i \in 1..n : m + i \in 1..(m + n) /\ r[m + i] = q[i]
  <2>1. \A i \in 1..n : m + i \in 1..(m + n) /\ ~(m + i <= m) /\ (m + i) - m = i
    BY <1>1
  <2> QED  BY <1>1, <1>2, <2>1
<1>5. \A i \in 1..(m + n) : i \in 1..m \/ \E j \in 1..n : i = m + j
  <2> SUFFICES ASSUME NEW i \in 1..(m + n), i \notin 1..m PROVE \E j \in 1..n : i = m + j
    OBVIOUS
  <2>1. i - m \in 1..n /\ i = m + (i - m)
    BY <1>1
  <2> QED  BY <2>1
<1>6. Elems(r) = Elems(s) \cup Elems(q)
  <2>1. ASSUME NEW i \in 1..(m + n) PROVE r[i] \in Elems(s) \cup Elems(q)
    BY <1>1, <1>4, <1>5 DEF Elems
  <2>2. \A i \in 1..m : s[i] \in Elems(r)
    BY <1>3, <1>4 DEF Elems
  <2>3. \A i \in 1..n : q[i] \in Elems(r)
    BY <1>3, <1>4 DEF Elems
  <2>4. \A e \in Elems(r) : e \in Elems(s) \cup Elems(q)
    BY <1>3, <2>1 DEF Elems
  <2>5. \A e \in Elems(s) \cup Elems(q) : e \in Elems(r)
    BY <1>1, <2>2, <2>3 DEF Elems
  <2> QED  BY <2>4, <2>5
<1>7. ASSUME Tested(s), Tested(q) PROVE Tested(r)
  <2> SUFFICES ASSUME NEW i \in 1..(m + n), "null" \in r[i].outcomes
               PROVE  /\ i + 1 \in 1..(m + n)
                      /\ r[i + 1].op \in {"need", "make"} /\ r[i + 1].on = r[i].on
    BY <1>3 DEF Tested
  <2>1. CASE i \in 1..m
    <3>1. i + 1 \in 1..m /\ s[i + 1].op \in {"need", "make"} /\ s[i + 1].on = s[i].on
      BY <1>1, <1>4, <1>7, <2>1 DEF Tested
    <3> QED  BY <1>4, <2>1, <3>1
  <2>2. ASSUME NEW j \in 1..n, i = m + j PROVE  /\ i + 1 \in 1..(m + n)
               /\ r[i + 1].op \in {"need", "make"} /\ r[i + 1].on = r[i].on
    <3>1. j + 1 \in 1..n /\ q[j + 1].op \in {"need", "make"} /\ q[j + 1].on = q[j].on
      BY <1>1, <1>4, <1>7, <2>2 DEF Tested
    <3>2. i + 1 = m + (j + 1)
      BY <1>1, <2>2
    <3> QED  BY <1>4, <2>2, <3>1, <3>2
  <2> QED  BY <1>5, <2>1, <2>2
<1>8. ASSUME NEW i \in 1..(m + n), NEW j \in 1..(m + n), i < j
      PROVE  \/ i \in 1..m /\ j \in 1..m
             \/ i \in 1..m /\ \E l \in 1..n : j = m + l
             \/ \E k, l \in 1..n : i = m + k /\ j = m + l /\ k < l
  BY <1>1, <1>5, <1>8
<1>9. ASSUME TellsLast(s), TellsLast(q), Quiet(s) \/ Sure(q) PROVE TellsLast(r)
  <2> SUFFICES ASSUME NEW i \in 1..(m + n), NEW j \in 1..(m + n), i < j, r[i].op = "tell"
               PROVE  r[j].outcomes \subseteq {"done", "null", "dies"}
    BY <1>3 DEF TellsLast
  <2>1. CASE i \in 1..m /\ j \in 1..m
    BY <1>1, <1>4, <1>9, <2>1 DEF TellsLast
  <2>2. ASSUME i \in 1..m, NEW l \in 1..n, j = m + l
        PROVE  r[j].outcomes \subseteq {"done", "null", "dies"}
    <3>1. r[i] = s[i] /\ s[i] \in Elems(s) /\ r[j] = q[l] /\ q[l] \in Elems(q)
      BY <1>1, <1>4, <2>2 DEF Elems
    <3> QED  BY <1>9, <3>1 DEF Quiet, Sure
  <2>3. ASSUME NEW k \in 1..n, NEW l \in 1..n, i = m + k, j = m + l, k < l
        PROVE  r[j].outcomes \subseteq {"done", "null", "dies"}
    <3>1. r[i] = q[k] /\ r[j] = q[l]
      BY <1>4, <2>3
    <3> QED  BY <1>1, <1>9, <2>3, <3>1 DEF TellsLast
  <2> QED  BY <1>8, <2>1, <2>2, <2>3
<1>10. ASSUME ChangesLate(s), ChangesLate(q), Pure(s) \/ Admitted(q) PROVE ChangesLate(r)
  <2> SUFFICES ASSUME NEW i \in 1..(m + n), NEW j \in 1..(m + n), i < j,
                      r[i].op \in {"make", "change", "tell"}
               PROVE  r[j].outcomes \subseteq {"done", "dies", "DATABASE"}
    BY <1>3 DEF ChangesLate
  <2>1. CASE i \in 1..m /\ j \in 1..m
    BY <1>1, <1>4, <1>10, <2>1 DEF ChangesLate
  <2>2. ASSUME i \in 1..m, NEW l \in 1..n, j = m + l
        PROVE  r[j].outcomes \subseteq {"done", "dies", "DATABASE"}
    <3>1. r[i] = s[i] /\ s[i] \in Elems(s) /\ r[j] = q[l] /\ q[l] \in Elems(q)
      BY <1>1, <1>4, <2>2 DEF Elems
    <3> QED  BY <1>10, <3>1 DEF Pure, Admitted
  <2>3. ASSUME NEW k \in 1..n, NEW l \in 1..n, i = m + k, j = m + l, k < l
        PROVE  r[j].outcomes \subseteq {"done", "dies", "DATABASE"}
    <3>1. r[i] = q[k] /\ r[j] = q[l]
      BY <1>4, <2>3
    <3> QED  BY <1>1, <1>10, <2>3, <3>1 DEF ChangesLate
  <2> QED  BY <1>8, <2>1, <2>2, <2>3
<1> QED  BY <1>2, <1>6, <1>7, <1>9, <1>10 DEF r, S, IsSeq

\* What is left when the first step is done.
LEMMA Rest ==
    ASSUME NEW s, IsSeq(s), s # <<>>
    PROVE  /\ Head(s) \in Elems(s) /\ IsSeq(Tail(s))
           /\ Elems(s) = {Head(s)} \cup Elems(Tail(s))
           /\ Tested(s) =>
                 /\ Tested(Tail(s))
                 /\ "null" \in Head(s).outcomes =>
                       /\ Tail(s) # <<>> /\ Head(Tail(s)).op \in {"need", "make"}
                       /\ Head(Tail(s)).on = Head(s).on
           /\ TellsLast(s) => TellsLast(Tail(s)) /\ (Head(s).op = "tell" => Sure(Tail(s)))
           /\ ChangesLate(s) =>
                 ChangesLate(Tail(s)) /\ (Head(s).op \in {"make", "change", "tell"} => Admitted(Tail(s)))
<1> DEFINE n == Len(s)
           q == Tail(s)
<1>1. n \in Nat /\ DOMAIN s = 1..n /\ n # 0
  BY LenProperties, EmptySeq DEF IsSeq
<1>2. /\ Head(s) = s[1] /\ q \in Seq(Elems(s)) /\ Len(q) = n - 1
      /\ \A i \in 1..(n - 1) : q[i] = s[i + 1]
  BY HeadTailProperties DEF IsSeq
<1>3. DOMAIN q = 1..(n - 1) /\ (q = <<>> <=> Len(q) = 0) /\ (q # <<>> => Head(q) = q[1])
  <2>1. q \in Seq(Elems(s))
    BY <1>2
  <2> HIDE DEF q
  <2>2. DOMAIN q = 1..Len(q) /\ (q = <<>> <=> Len(q) = 0)
    BY <2>1, LenProperties, EmptySeq
  <2>3. q # <<>> => Head(q) = q[1]
    BY <2>1, HeadTailProperties
  <2> QED  BY <1>2, <2>2, <2>3
<1> HIDE DEF n, q
<1>4. /\ 1 \in 1..n
      /\ \A i \in 1..(n - 1) : i + 1 \in 1..n /\ 1 < i + 1 /\ q[i] = s[i + 1]
      /\ \A i \in 1..n : i = 1 \/ (i - 1 \in 1..(n - 1) /\ q[i - 1] = s[i])
  <2>1. /\ 1 \in 1..n /\ \A i \in 1..(n - 1) : i + 1 \in 1..n /\ 1 < i + 1
    BY <1>1
  <2>2. \A i \in 1..n : i = 1 \/ (i - 1 \in 1..(n - 1) /\ (i - 1) + 1 = i)
    BY <1>1
  <2> QED  BY <1>2, <2>1, <2>2
<1>5. Head(s) \in Elems(s) /\ IsSeq(q)
  <2>1. \A i \in 1..(n - 1) : q[i] \in Elems(q)
    BY <1>3 DEF Elems
  <2>2. q \in Seq(Elems(q))
    BY <1>2, <1>3, <2>1, SeqDef
  <2> QED  BY <1>1, <1>2, <1>4, <2>2 DEF Elems, IsSeq
<1>6. Elems(s) = {Head(s)} \cup Elems(q)
  <2>1. ASSUME NEW i \in 1..n PROVE s[i] = Head(s) \/ s[i] \in Elems(q)
    <3>1. CASE i = 1
      BY <1>2, <3>1
    <3>2. CASE i # 1
      <4>1. i - 1 \in DOMAIN q /\ q[i - 1] = s[i]
        BY <1>3, <1>4, <3>2
      <4> QED  BY <4>1 DEF Elems
    <3> QED  BY <3>1, <3>2
  <2>2. ASSUME NEW i \in 1..(n - 1) PROVE q[i] \in Elems(s)
    <3>1. i + 1 \in DOMAIN s /\ q[i] = s[i + 1]
      BY <1>1, <1>4
    <3> QED  BY <3>1 DEF Elems
  <2>3. \A e \in Elems(s) : e = Head(s) \/ e \in Elems(q)
    <3>1. \A e \in Elems(s) : \E i \in 1..n : e = s[i]
      BY <1>1 DEF Elems
    <3> QED  BY <2>1, <3>1
  <2>4. \A e \in Elems(q) : e \in Elems(s)
    <3>1. \A e \in Elems(q) : \E i \in 1..(n - 1) : e = q[i]
      BY <1>3 DEF Elems
    <3> QED  BY <2>2, <3>1
  <2> QED  BY <1>5, <2>3, <2>4
<1>7. ASSUME Tested(s)
      PROVE  /\ Tested(q)
             /\ "null" \in Head(s).outcomes =>
                   q # <<>> /\ Head(q).op \in {"need", "make"} /\ Head(q).on = Head(s).on
  <2>1. ASSUME NEW i \in 1..(n - 1), "null" \in q[i].outcomes
        PROVE  i + 1 \in 1..(n - 1) /\ q[i + 1].op \in {"need", "make"} /\ q[i + 1].on = q[i].on
    <3>1. /\ (i + 1) + 1 \in 1..n
          /\ s[(i + 1) + 1].op \in {"need", "make"} /\ s[(i + 1) + 1].on = s[i + 1].on
      BY <1>1, <1>4, <1>7, <2>1 DEF Tested
    <3>2. i + 1 \in 1..(n - 1)
      BY <1>1, <3>1
    <3> QED  BY <1>4, <3>1, <3>2
  <2>2. ASSUME "null" \in Head(s).outcomes
        PROVE  q # <<>> /\ Head(q).op \in {"need", "make"} /\ Head(q).on = Head(s).on
    <3>1. 1 + 1 \in 1..n /\ s[1 + 1].op \in {"need", "make"} /\ s[1 + 1].on = s[1].on
      BY <1>1, <1>2, <1>4, <1>7, <2>2 DEF Tested
    <3>2. 1 \in 1..(n - 1) /\ n - 1 # 0
      BY <1>1, <3>1
    <3> QED  BY <1>2, <1>3, <1>4, <3>1, <3>2
  <2> QED  BY <1>3, <2>1, <2>2 DEF Tested
<1>8. \A i, j \in 1..(n - 1) : i < j => i + 1 < j + 1
  BY <1>1
<1>9. /\ \A i \in 1..(n - 1) : i + 1 \in DOMAIN s /\ 1 \in DOMAIN s /\ 1 < i + 1 /\ q[i] = s[i + 1]
      /\ \A e \in Elems(q) : \E i \in 1..(n - 1) : e = q[i]
  BY <1>1, <1>3, <1>4 DEF Elems
<1>10. ASSUME TellsLast(s) PROVE TellsLast(q) /\ (Head(s).op = "tell" => Sure(q))
  <2>1. \A i, j \in DOMAIN s : i < j /\ s[i].op = "tell" => s[j].outcomes \subseteq {"done", "null", "dies"}
    BY <1>10 DEF TellsLast
  <2>2. TellsLast(q)
    <3> SUFFICES ASSUME NEW i \in 1..(n - 1), NEW j \in 1..(n - 1), i < j, q[i].op = "tell"
                 PROVE  q[j].outcomes \subseteq {"done", "null", "dies"}
      BY <1>3 DEF TellsLast
    <3> QED  BY <1>8, <1>9, <2>1
  <2>3. Head(s).op = "tell" => Sure(q)
    BY <1>2, <1>9, <2>1 DEF Sure
  <2> QED  BY <2>2, <2>3
<1>11. ASSUME ChangesLate(s)
       PROVE  ChangesLate(q) /\ (Head(s).op \in {"make", "change", "tell"} => Admitted(q))
  <2>1. \A i, j \in DOMAIN s : i < j /\ s[i].op \in {"make", "change", "tell"} =>
            s[j].outcomes \subseteq {"done", "dies", "DATABASE"}
    BY <1>11 DEF ChangesLate
  <2>2. ChangesLate(q)
    <3> SUFFICES ASSUME NEW i \in 1..(n - 1), NEW j \in 1..(n - 1), i < j,
                        q[i].op \in {"make", "change", "tell"}
                 PROVE  q[j].outcomes \subseteq {"done", "dies", "DATABASE"}
      BY <1>3 DEF ChangesLate
    <3> QED  BY <1>8, <1>9, <2>1
  <2>3. Head(s).op \in {"make", "change", "tell"} => Admitted(q)
    BY <1>2, <1>9, <2>1 DEF Admitted
  <2> QED  BY <2>2, <2>3
<1> QED  BY <1>2, <1>5, <1>6, <1>7, <1>10, <1>11 DEF q

-----------------------------------------------------------------------------
(***************************************************************************)
(* The handlers.                                                           *)
(***************************************************************************)
\* The requests whose handlers use an avatar that they did not test.
Untested == {"LOGOUTAVATAR", "REMOVEIGNORE", "CREATEROOM"}

\* The fields that are there, and the fields that are due.
ReadOf(messages, flag) ==
    messages.reads \cup (IF flag THEN messages.ifSet ELSE messages.ifNot)
Due(messages) == messages.always \cup messages.onSuccess

Puts(s) == UNION {e.puts : e \in Elems(s)}

\* Steps s use what is there in the order in which it is safe to.
Orderly(type, fields, s) ==
    /\ IsSeq(s)
    /\ \A e \in Elems(s) : WellMade(e) /\ e.by \subseteq fields
    /\ type \notin Untested => Tested(s)
    /\ type # "LOGOUTAVATAR" => TellsLast(s)
    /\ ChangesLate(s)

Fits(type, path) ==
    /\ path.flag \in BOOLEAN
    /\ Orderly(type, ReadOf(MessagesOf[type], path.flag), path.steps)
    /\ Due(MessagesOf[type]) \subseteq Initialised \cup Puts(path.steps)

\* Among steps s, with the objects "null" not found, what changes something or tells
\* somebody uses every object that was not found or may not be.
UsedFirst(s, null) ==
    \A f \in Elems(s) : f.op \in {"make", "change", "tell"} =>
        /\ f.op # "make" /\ "null" \notin f.outcomes /\ null \subseteq f.on
        /\ \A e \in Elems(s) : "null" \in e.outcomes => e.on \subseteq f.on

\* Steps that look things up, and steps that go on from there.
Looks(s) == IsSeq(s) /\ Quiet(s) /\ Pure(s) /\ Tested(s)
Acts(type, s) ==
    /\ IsSeq(s) /\ ChangesLate(s)
    /\ type \notin Untested => Tested(s)
    /\ type # "LOGOUTAVATAR" => TellsLast(s)

\* Looking somebody up is allowed before anything.
LEMMA LooksFirst ==
    ASSUME NEW s, Looks(s)
    PROVE  /\ \A type : Acts(type, s)
           /\ \A q : Looks(q) => Looks(s \o q) /\ Elems(s \o q) = Elems(s) \cup Elems(q)
           /\ \A type, q : Acts(type, q) =>
                 Acts(type, s \o q) /\ Elems(s \o q) = Elems(s) \cup Elems(q)
<1>1. TellsLast(s) /\ ChangesLate(s)
  BY DEF Looks, Quiet, Pure, TellsLast, ChangesLate, Elems
<1>2. ASSUME NEW q, Looks(q) PROVE Looks(s \o q) /\ Elems(s \o q) = Elems(s) \cup Elems(q)
  BY <1>2, Joined DEF Looks, Quiet, Pure
<1>3. ASSUME NEW type, NEW q, Acts(type, q)
      PROVE  Acts(type, s \o q) /\ Elems(s \o q) = Elems(s) \cup Elems(q)
  BY <1>1, <1>3, Joined DEF Looks, Acts
<1> QED  BY <1>1, <1>2, <1>3 DEF Looks, Acts

\* The steps of two sequences together are those of both.
Together(s, q) == Elems(s \o q) = Elems(s) \cup Elems(q)

\* The same with what the steps are behind a name.
LEMMA ThenActs ==
    ASSUME NEW type, NEW s, NEW q, Looks(s), Acts(type, q)
    PROVE  Acts(type, s \o q) /\ Together(s, q)
BY LooksFirst DEF Together

\* What a step of each kind is.
LEMMA StepKinds ==
    /\ \A x, by : /\ FindAvatar(x, by).op = "find" /\ FindAvatar(x, by).on = {x}
                  /\ FindAvatar(x, by).by = by /\ FindAvatar(x, by).puts = {}
                  /\ FindAvatar(x, by).outcomes = {"done", "null", "DATABASE"}
    /\ \A by : /\ FindRoom(by).op = "find" /\ FindRoom(by).on = {"room"}
               /\ FindRoom(by).by = by /\ FindRoom(by).puts = {}
               /\ FindRoom(by).outcomes = {"done", "null"}
    /\ \A x, code : /\ Need(x, code).op = "need" /\ Need(x, code).on = {x}
                    /\ Need(x, code).by = {} /\ Need(x, code).puts = {}
                    /\ Need(x, code).outcomes = {code}
    /\ \A x, by : /\ Make(x, by).op = "make" /\ Make(x, by).on = {x}
                  /\ Make(x, by).by = by /\ Make(x, by).puts = {}
                  /\ Make(x, by).outcomes = {"done", "DATABASE"}
    /\ \A on, by, outcomes :
          /\ Check(on, by, outcomes).op = "use" /\ Check(on, by, outcomes).on = on
          /\ Check(on, by, outcomes).by = by /\ Check(on, by, outcomes).puts = {}
          /\ Check(on, by, outcomes).outcomes = {"done"} \cup outcomes
    /\ \A field, on :
          /\ Put(field, on).op = "use" /\ Put(field, on).on = on
          /\ Put(field, on).by = {} /\ Put(field, on).puts = {field}
          /\ Put(field, on).outcomes = {"done"}
    /\ \A on, by, outcomes :
          /\ Change(on, by, outcomes).op = "change" /\ Change(on, by, outcomes).on = on
          /\ Change(on, by, outcomes).by = by /\ Change(on, by, outcomes).puts = {}
          /\ Change(on, by, outcomes).outcomes = {"done"} \cup outcomes
    /\ \A on : /\ Tell(on).op = "tell" /\ Tell(on).on = on
               /\ Tell(on).by = {} /\ Tell(on).puts = {}
               /\ Tell(on).outcomes = {"done", "dies"}
BY DEF FindAvatar, FindRoom, Need, Make, Check, Put, Change, Tell, Step

\* Steps one of which may come after the other.
TestedBy(a, b) == "null" \in a.outcomes => b.op \in {"need", "make"} /\ b.on = a.on
TellsBefore(a, b) == a.op = "tell" => b.outcomes \subseteq {"done", "null", "dies"}
ChangesBefore(a, b) ==
    a.op \in {"make", "change", "tell"} => b.outcomes \subseteq {"done", "dies", "DATABASE"}

\* The order of steps in literal sequences.
LEMMA OrderOf ==
    /\ \A a : /\ TellsLast(<<a>>) /\ ChangesLate(<<a>>)
              /\ "null" \notin a.outcomes => Tested(<<a>>)
    /\ \A a, b :
          /\ TellsBefore(a, b) => TellsLast(<<a, b>>)
          /\ ChangesBefore(a, b) => ChangesLate(<<a, b>>)
          /\ TestedBy(a, b) /\ "null" \notin b.outcomes => Tested(<<a, b>>)
    /\ \A a, b, c :
          /\ TellsBefore(a, b) /\ TellsBefore(a, c) /\ TellsBefore(b, c) => TellsLast(<<a, b, c>>)
          /\ ChangesBefore(a, b) /\ ChangesBefore(a, c) /\ ChangesBefore(b, c) =>
                ChangesLate(<<a, b, c>>)
          /\ TestedBy(a, b) /\ TestedBy(b, c) /\ "null" \notin c.outcomes => Tested(<<a, b, c>>)
    /\ \A a, b, c, d :
          /\ /\ TellsBefore(a, b) /\ TellsBefore(a, c) /\ TellsBefore(a, d)
             /\ TellsBefore(b, c) /\ TellsBefore(b, d) /\ TellsBefore(c, d)
             => TellsLast(<<a, b, c, d>>)
          /\ /\ ChangesBefore(a, b) /\ ChangesBefore(a, c) /\ ChangesBefore(a, d)
             /\ ChangesBefore(b, c) /\ ChangesBefore(b, d) /\ ChangesBefore(c, d)
             => ChangesLate(<<a, b, c, d>>)
          /\ TestedBy(a, b) /\ TestedBy(b, c) /\ TestedBy(c, d) /\ "null" \notin d.outcomes =>
                Tested(<<a, b, c, d>>)
<1>1. ASSUME NEW a
      PROVE  /\ TellsLast(<<a>>) /\ ChangesLate(<<a>>)
             /\ "null" \notin a.outcomes => Tested(<<a>>)
  BY DEF TellsLast, ChangesLate, Tested
<1>2. ASSUME NEW a, NEW b
      PROVE  /\ TellsBefore(a, b) => TellsLast(<<a, b>>)
             /\ ChangesBefore(a, b) => ChangesLate(<<a, b>>)
             /\ TestedBy(a, b) /\ "null" \notin b.outcomes => Tested(<<a, b>>)
  BY DEF TellsLast, ChangesLate, Tested, TellsBefore, ChangesBefore, TestedBy
<1>3. ASSUME NEW a, NEW b, NEW c
      PROVE  /\ TellsBefore(a, b) /\ TellsBefore(a, c) /\ TellsBefore(b, c) => TellsLast(<<a, b, c>>)
             /\ ChangesBefore(a, b) /\ ChangesBefore(a, c) /\ ChangesBefore(b, c) =>
                   ChangesLate(<<a, b, c>>)
             /\ TestedBy(a, b) /\ TestedBy(b, c) /\ "null" \notin c.outcomes => Tested(<<a, b, c>>)
  BY DEF TellsLast, ChangesLate, Tested, TellsBefore, ChangesBefore, TestedBy
<1>4. ASSUME NEW a, NEW b, NEW c, NEW d
      PROVE  /\ /\ TellsBefore(a, b) /\ TellsBefore(a, c) /\ TellsBefore(a, d)
                /\ TellsBefore(b, c) /\ TellsBefore(b, d) /\ TellsBefore(c, d)
                => TellsLast(<<a, b, c, d>>)
             /\ /\ ChangesBefore(a, b) /\ ChangesBefore(a, c) /\ ChangesBefore(a, d)
                /\ ChangesBefore(b, c) /\ ChangesBefore(b, d) /\ ChangesBefore(c, d)
                => ChangesLate(<<a, b, c, d>>)
             /\ TestedBy(a, b) /\ TestedBy(b, c) /\ TestedBy(c, d) /\ "null" \notin d.outcomes =>
                   Tested(<<a, b, c, d>>)
  BY DEF TellsLast, ChangesLate, Tested, TellsBefore, ChangesBefore, TestedBy
<1> QED  BY <1>1, <1>2, <1>3, <1>4

\* What is looked for and asked for.
LEMMA Finding ==
    ASSUME NEW a, NEW b, a.op = "find", b.op = "need", b.on = a.on, "null" \notin b.outcomes
    PROVE  Looks(<<a, b>>) /\ Elems(<<a, b>>) = {a, b}
<1>1. Elems(<<a, b>>) = {a, b} /\ IsSeq(<<a, b>>)
  BY ElemsOf
<1>2. Tested(<<a, b>>)
  BY OrderOf DEF TestedBy
<1> QED  BY <1>1, <1>2 DEF Looks, Quiet, Pure

\* The beginnings of handlers.
LEMMA Beginnings ==
    /\ Looks(FindSource) /\ Looks(FindDest) /\ \A field : Looks(FindRoomAt(field))
    /\ Looks(FindStaff)
    /\ Elems(FindSource) = {FindAvatar("srcAvatar", {"srcAvatarId"}),
                            Need("srcAvatar", "SRCAVATARDOESNTEXIST")}
    /\ Elems(FindDest) = {FindAvatar("destAvatar", {"destName", "destAddress"}),
                          Need("destAvatar", "DESTAVATARDOESNTEXIST")}
    /\ \A field : Elems(FindRoomAt(field)) = {FindRoom({field}), Need("room", "ADDRESSNOTROOM")}
    /\ Elems(FindStaff) =
          {FindAvatar("srcAvatar", {"srcAvatarId"}), Need("srcAvatar", "SRCAVATARDOESNTEXIST"),
           FindAvatar("destAvatar", {"destAvatarName", "destAvatarAddress"}),
           Need("destAvatar", "DESTAVATARDOESNTEXIST"),
           FindRoom({"destRoomAddress"}), Need("room", "ADDRESSNOTROOM"),
           Put("destRoomId", {"room"})}

<1>1. \A x, by : \A code : code # "null" =>
         /\ Looks(<<FindAvatar(x, by), Need(x, code)>>)
         /\ Elems(<<FindAvatar(x, by), Need(x, code)>>) = {FindAvatar(x, by), Need(x, code)}
  <2> SUFFICES ASSUME NEW x, NEW by, NEW code, code # "null"
               PROVE  /\ Looks(<<FindAvatar(x, by), Need(x, code)>>)
                      /\ Elems(<<FindAvatar(x, by), Need(x, code)>>)
                           = {FindAvatar(x, by), Need(x, code)}
    OBVIOUS
  <2> DEFINE a == FindAvatar(x, by)
             b == Need(x, code)
  <2>0. /\ a.op = "find" /\ a.on = {x}
        /\ b.op = "need" /\ b.on = {x} /\ b.outcomes = {code}
    BY StepKinds
  <2>1. a.op = "find" /\ b.op = "need" /\ b.on = a.on /\ "null" \notin b.outcomes
    BY <2>0
  <2> HIDE DEF a, b
  <2>2. Looks(<<a, b>>) /\ Elems(<<a, b>>) = {a, b}
    BY <2>1, Finding
  <2> QED  BY <2>2 DEF a, b
<1>2. Looks(FindSource) /\ Looks(FindDest)
  BY <1>1 DEF FindSource, FindDest
<1>3. /\ Elems(FindSource) = {FindAvatar("srcAvatar", {"srcAvatarId"}),
                              Need("srcAvatar", "SRCAVATARDOESNTEXIST")}
      /\ Elems(FindDest) = {FindAvatar("destAvatar", {"destName", "destAddress"}),
                            Need("destAvatar", "DESTAVATARDOESNTEXIST")}
  BY <1>1 DEF FindSource, FindDest
<1>4. ASSUME NEW field
      PROVE  /\ Looks(FindRoomAt(field))
             /\ Elems(FindRoomAt(field)) = {FindRoom({field}), Need("room", "ADDRESSNOTROOM")}
  <2> DEFINE a == FindRoom({field})
             b == Need("room", "ADDRESSNOTROOM")
  <2>0. /\ a.op = "find" /\ a.on = {"room"}
        /\ b.op = "need" /\ b.on = {"room"} /\ b.outcomes = {"ADDRESSNOTROOM"}
    BY StepKinds
  <2>1. a.op = "find" /\ b.op = "need" /\ b.on = a.on /\ "null" \notin b.outcomes
    BY <2>0
  <2> HIDE DEF a, b
  <2>2. Looks(<<a, b>>) /\ Elems(<<a, b>>) = {a, b}
    BY <2>1, Finding
  <2> QED  BY <2>2 DEF a, b, FindRoomAt
<1>5. /\ Looks(FindStaff)
      /\ Elems(FindStaff) =
            {FindAvatar("srcAvatar", {"srcAvatarId"}), Need("srcAvatar", "SRCAVATARDOESNTEXIST"),
             FindAvatar("destAvatar", {"destAvatarName", "destAvatarAddress"}),
             Need("destAvatar", "DESTAVATARDOESNTEXIST"),
             FindRoom({"destRoomAddress"}), Need("room", "ADDRESSNOTROOM"),
             Put("destRoomId", {"room"})}
  <2> DEFINE dest == <<FindAvatar("destAvatar", {"destAvatarName", "destAvatarAddress"}),
                       Need("destAvatar", "DESTAVATARDOESNTEXIST")>>
             room == FindRoomAt("destRoomAddress")
             put == Put("destRoomId", {"room"})
  <2>1. /\ Looks(dest)
        /\ Elems(dest) = {FindAvatar("destAvatar", {"destAvatarName", "destAvatarAddress"}),
                          Need("destAvatar", "DESTAVATARDOESNTEXIST")}
    BY <1>1
  <2>2. Looks(<<put>>) /\ Elems(<<put>>) = {put}
    <3>1. put.op = "use" /\ put.outcomes = {"done"}
      BY StepKinds
    <3> HIDE DEF put
    <3>2. IsSeq(<<put>>) /\ Elems(<<put>>) = {put} /\ Tested(<<put>>)
      BY <3>1, ElemsOf, OrderOf
    <3> QED  BY <3>1, <3>2 DEF Looks, Quiet, Pure
  <2> HIDE DEF dest, room, put
  <2>3. Looks(FindSource \o dest) /\ Elems(FindSource \o dest) = Elems(FindSource) \cup Elems(dest)
    BY <1>2, <2>1, LooksFirst
  <2>4. /\ Looks((FindSource \o dest) \o room)
        /\ Elems((FindSource \o dest) \o room) = Elems(FindSource \o dest) \cup Elems(room)
    BY <1>4, <2>3, LooksFirst DEF room
  <2>5. /\ Looks(((FindSource \o dest) \o room) \o <<put>>)
        /\ Elems(((FindSource \o dest) \o room) \o <<put>>)
              = Elems((FindSource \o dest) \o room) \cup {put}
    BY <2>2, <2>4, LooksFirst
  <2>6. FindStaff = ((FindSource \o dest) \o room) \o <<put>>
    BY DEF FindStaff, dest, room, put
  <2>7. Elems(room) = {FindRoom({"destRoomAddress"}), Need("room", "ADDRESSNOTROOM")}
    BY <1>4 DEF room
  <2> QED  BY <1>3, <2>1, <2>3, <2>4, <2>5, <2>6, <2>7 DEF put
<1> QED  BY <1>2, <1>3, <1>4, <1>5

\* A step of a request of the type uses what was read.
Used(type, fields, e) == WellMade(e) /\ e.by \subseteq fields

\* Steps of each kind do, if their fields were read.
LEMMA KindsUsed ==
    ASSUME NEW type, NEW fields
    PROVE  /\ \A x, by : by \subseteq fields => Used(type, fields, FindAvatar(x, by))
           /\ \A by : by \subseteq fields => Used(type, fields, FindRoom(by))
           /\ \A x, code : code \notin {"done", "null", "dies", "SUCCESS"} => Used(type, fields, Need(x, code))
           /\ \A x, by : by \subseteq fields => Used(type, fields, Make(x, by))
           /\ \A on, by, outcomes :
                 by \subseteq fields /\ "SUCCESS" \notin outcomes =>
                    /\ Used(type, fields, Check(on, by, outcomes))
                    /\ Used(type, fields, Change(on, by, outcomes))
           /\ \A field, on : Used(type, fields, Put(field, on))
           /\ \A on : Used(type, fields, Tell(on))
<1>1. \A x, by : by \subseteq fields => Used(type, fields, FindAvatar(x, by))
  BY DEF Used, WellMade, FindAvatar, Step
<1>2. \A by : by \subseteq fields => Used(type, fields, FindRoom(by))
  BY DEF Used, WellMade, FindRoom, Step
<1>3. \A x, code : code \notin {"done", "null", "dies", "SUCCESS"} => Used(type, fields, Need(x, code))
  BY DEF Used, WellMade, Need, Step
<1>4. \A x, by : by \subseteq fields => Used(type, fields, Make(x, by))
  BY DEF Used, WellMade, Make, Step
<1>5. \A on, by, outcomes :
         by \subseteq fields /\ "SUCCESS" \notin outcomes =>
            /\ Used(type, fields, Check(on, by, outcomes))
            /\ Used(type, fields, Change(on, by, outcomes))
  BY DEF Used, WellMade, Check, Change, Step
<1>6. \A field, on : Used(type, fields, Put(field, on))
  BY DEF Used, WellMade, Put, Step
<1>7. \A on : Used(type, fields, Tell(on))
  BY DEF Used, WellMade, Tell, Step
<1> QED  BY <1>1, <1>2, <1>3, <1>4, <1>5, <1>6, <1>7

\* A sequence of steps that is in order, each of which uses what was read.
LEMMA Assembled ==
    ASSUME NEW type, NEW flag \in BOOLEAN, NEW r, Acts(type, r),
           \A e \in Elems(r) : Used(type, ReadOf(MessagesOf[type], flag), e),
           \A f \in Due(MessagesOf[type]) : f \in Initialised \/ \E e \in Elems(r) : f \in e.puts
    PROVE  Fits(type, Path(flag, r))
<1> DEFINE fields == ReadOf(MessagesOf[type], flag)
           due == Due(MessagesOf[type])
<1>1. Path(flag, r).flag = flag /\ Path(flag, r).steps = r
  BY DEF Path
<1> HIDE DEF due
<1>2. due \subseteq Initialised \cup Puts(r)
  BY DEF Puts, due
<1>3. Orderly(type, fields, r)
  BY DEF Acts, Orderly, Used
<1> QED  BY <1>1, <1>2, <1>3 DEF Fits, due

\* Both paths of a handler whose request has no optional fields that it uses.
LEMMA Handled ==
    ASSUME NEW type, NEW r, Acts(type, r),
           \A e \in Elems(r) : Used(type, MessagesOf[type].reads, e),
           \A f \in Due(MessagesOf[type]) : f \in Initialised \/ \E e \in Elems(r) : f \in e.puts
    PROVE  \A path \in Handler(r) : Fits(type, path)
<1>1. ASSUME NEW flag \in BOOLEAN PROVE Fits(type, Path(flag, r))
  <2>1. \A e \in Elems(r) : Used(type, ReadOf(MessagesOf[type], flag), e)
    BY DEF Used, ReadOf
  <2> QED  BY <2>1, Assembled
<1> QED  BY <1>1 DEF Handler

\* The same for both paths of what uses at once what it did not find.
LEMMA HandledFirst ==
    ASSUME NEW r, UsedFirst(r, {})
    PROVE  \A path \in Handler(r) : UsedFirst(path.steps, {})
BY DEF Handler, Path

\* Steps that go on from others, where an order is kept.
LEMMA Onward ==
    ASSUME NEW type, NEW s, NEW q, Acts(type, s), Acts(type, q),
           type # "LOGOUTAVATAR" => Quiet(s) \/ Sure(q), Pure(s) \/ Admitted(q)
    PROVE  Acts(type, s \o q) /\ Elems(s \o q) = Elems(s) \cup Elems(q)
BY Joined DEF Acts

\* A step alone.
LEMMA Alone ==
    ASSUME NEW type, NEW e, "null" \notin e.outcomes
    PROVE  /\ Acts(type, <<e>>) /\ Elems(<<e>>) = {e}
           /\ e.op \notin {"tell", "make", "change"} => Looks(<<e>>)
<1>1. Elems(<<e>>) = {e} /\ IsSeq(<<e>>) /\ Tested(<<e>>) /\ TellsLast(<<e>>) /\ ChangesLate(<<e>>)
  BY ElemsOf, OrderOf
<1> QED  BY <1>1 DEF Acts, Looks, Quiet, Pure

\* A test, a value for the answer, a change and the word of it.
LEMMA CheckAlone ==
    ASSUME NEW on, NEW by, NEW outcomes, "null" \notin outcomes
    PROVE  /\ Looks(<<Check(on, by, outcomes)>>)
           /\ Elems(<<Check(on, by, outcomes)>>) = {Check(on, by, outcomes)}
<1> DEFINE e == Check(on, by, outcomes)
<1>1. e.op = "use" /\ "null" \notin e.outcomes
  BY DEF Check, Step
<1> HIDE DEF e
<1>2. Looks(<<e>>) /\ Elems(<<e>>) = {e}
  BY <1>1, Alone
<1> QED  BY <1>2 DEF e

\* A field is put in the answer.
LEMMA PutAlone ==
    ASSUME NEW field, NEW on
    PROVE  Looks(<<Put(field, on)>>) /\ Elems(<<Put(field, on)>>) = {Put(field, on)}
<1> DEFINE e == Put(field, on)
<1>1. e.op = "use" /\ "null" \notin e.outcomes
  BY DEF Put, Step
<1> HIDE DEF e
<1>2. Looks(<<e>>) /\ Elems(<<e>>) = {e}
  BY <1>1, Alone
<1> QED  BY <1>2 DEF e

\* A service changes its state.
LEMMA ChangeAlone ==
    ASSUME NEW type, NEW on, NEW by, NEW outcomes, "null" \notin outcomes
    PROVE  /\ Acts(type, <<Change(on, by, outcomes)>>)
           /\ Elems(<<Change(on, by, outcomes)>>) = {Change(on, by, outcomes)}
<1> DEFINE e == Change(on, by, outcomes)
<1>1. "null" \notin e.outcomes
  BY DEF Change, Step
<1> HIDE DEF e
<1>2. Acts(type, <<e>>) /\ Elems(<<e>>) = {e}
  BY <1>1, Alone
<1> QED  BY <1>2 DEF e

\* Other game servers are told.
LEMMA TellAlone ==
    ASSUME NEW type, NEW on
    PROVE  Acts(type, <<Tell(on)>>) /\ Elems(<<Tell(on)>>) = {Tell(on)}
<1> DEFINE e == Tell(on)
<1>1. "null" \notin e.outcomes
  BY DEF Tell, Step
<1> HIDE DEF e
<1>2. Acts(type, <<e>>) /\ Elems(<<e>>) = {e}
  BY <1>1, Alone
<1> QED  BY <1>2 DEF e

\* What is changed is told.
LEMMA ChangeThenTell ==
    ASSUME NEW type, NEW on, NEW by, NEW outcomes, NEW to, "null" \notin outcomes
    PROVE  /\ Acts(type, <<Change(on, by, outcomes), Tell(to)>>)
           /\ Elems(<<Change(on, by, outcomes), Tell(to)>>) = {Change(on, by, outcomes), Tell(to)}
<1> DEFINE a == Change(on, by, outcomes)
           b == Tell(to)
<1>1. a.op = "change" /\ "null" \notin a.outcomes /\ b.op = "tell" /\ b.outcomes = {"done", "dies"}
  BY DEF Change, Tell, Step
<1> HIDE DEF a, b
<1>2. Elems(<<a, b>>) = {a, b} /\ IsSeq(<<a, b>>)
  BY ElemsOf
<1>3. TestedBy(a, b) /\ TellsBefore(a, b) /\ ChangesBefore(a, b) /\ "null" \notin b.outcomes
  BY <1>1 DEF TestedBy, TellsBefore, ChangesBefore
<1>4. Tested(<<a, b>>) /\ TellsLast(<<a, b>>) /\ ChangesLate(<<a, b>>)
  BY <1>3, OrderOf
<1>5. Acts(type, <<a, b>>) /\ Elems(<<a, b>>) = {a, b}
  BY <1>2, <1>4 DEF Acts
<1> QED  BY <1>5 DEF a, b

\* A field is put, state is changed, servers are told.
LEMMA PutThenChange ==
    ASSUME NEW type, NEW field, NEW of, NEW on, NEW by, NEW outcomes, NEW to, "null" \notin outcomes
    PROVE  /\ Acts(type, <<Put(field, of), Change(on, by, outcomes), Tell(to)>>)
           /\ Elems(<<Put(field, of), Change(on, by, outcomes), Tell(to)>>)
                 = {Put(field, of), Change(on, by, outcomes), Tell(to)}
<1> DEFINE p == Put(field, of)
           a == Change(on, by, outcomes)
           b == Tell(to)
<1>1. /\ p.op = "use" /\ p.outcomes = {"done"}
      /\ a.op = "change" /\ "null" \notin a.outcomes /\ b.op = "tell" /\ b.outcomes = {"done", "dies"}
  BY DEF Put, Change, Tell, Step
<1> HIDE DEF p, a, b
<1>2. Elems(<<p, a, b>>) = {p, a, b} /\ IsSeq(<<p, a, b>>)
  BY ElemsOf
<1>3. /\ TestedBy(a, b) /\ TellsBefore(a, b) /\ ChangesBefore(a, b) /\ "null" \notin b.outcomes
      /\ TestedBy(p, a) /\ TellsBefore(p, a) /\ ChangesBefore(p, a)
      /\ TestedBy(p, b) /\ TellsBefore(p, b) /\ ChangesBefore(p, b)
  BY <1>1 DEF TestedBy, TellsBefore, ChangesBefore
<1>4. Tested(<<p, a, b>>) /\ TellsLast(<<p, a, b>>) /\ ChangesLate(<<p, a, b>>)
  BY <1>3, OrderOf
<1>5. Acts(type, <<p, a, b>>) /\ Elems(<<p, a, b>>) = {p, a, b}
  BY <1>2, <1>4 DEF Acts
<1> QED  BY <1>5 DEF p, a, b

\* One beginning after another.
LEMMA Places ==
    /\ Looks(FindSource \o FindDest)
    /\ Elems(FindSource \o FindDest) = Elems(FindSource) \cup Elems(FindDest)
    /\ \A field : /\ Looks(FindSource \o FindRoomAt(field))
                  /\ Elems(FindSource \o FindRoomAt(field))
                        = Elems(FindSource) \cup Elems(FindRoomAt(field))
BY Beginnings, LooksFirst

\* The steps of the beginnings are used by requests that read their fields.
LEMMA BeginningsUsed ==
    ASSUME NEW type, NEW fields
    PROVE  /\ "srcAvatarId" \in fields => \A e \in Elems(FindSource) : Used(type, fields, e)
           /\ {"destName", "destAddress"} \subseteq fields =>
                 \A e \in Elems(FindDest) : Used(type, fields, e)
           /\ \A field \in fields : \A e \in Elems(FindRoomAt(field)) : Used(type, fields, e)
           /\ StaffFields \subseteq fields => \A e \in Elems(FindStaff) : Used(type, fields, e)
<1>1. \A code \in {"SRCAVATARDOESNTEXIST", "DESTAVATARDOESNTEXIST", "ADDRESSNOTROOM"} :
         \A x : Used(type, fields, Need(x, code))
  BY KindsUsed
<1>2. "srcAvatarId" \in fields => \A e \in Elems(FindSource) : Used(type, fields, e)
  <2>1. "srcAvatarId" \in fields => Used(type, fields, FindAvatar("srcAvatar", {"srcAvatarId"}))
    BY KindsUsed
  <2> QED  BY <1>1, <2>1, Beginnings
<1>3. {"destName", "destAddress"} \subseteq fields =>
         \A e \in Elems(FindDest) : Used(type, fields, e)
  <2>1. {"destName", "destAddress"} \subseteq fields =>
           Used(type, fields, FindAvatar("destAvatar", {"destName", "destAddress"}))
    BY KindsUsed
  <2> QED  BY <1>1, <2>1, Beginnings
<1>4. ASSUME NEW field \in fields PROVE \A e \in Elems(FindRoomAt(field)) : Used(type, fields, e)
  <2>1. Used(type, fields, FindRoom({field}))
    BY KindsUsed
  <2> QED  BY <1>1, <2>1, Beginnings
<1>5. ASSUME StaffFields \subseteq fields PROVE \A e \in Elems(FindStaff) : Used(type, fields, e)
  <2>1. /\ Used(type, fields, FindAvatar("srcAvatar", {"srcAvatarId"}))
        /\ Used(type, fields, FindAvatar("destAvatar", {"destAvatarName", "destAvatarAddress"}))
        /\ Used(type, fields, FindRoom({"destRoomAddress"}))
        /\ Used(type, fields, Put("destRoomId", {"room"}))
    BY <1>5, KindsUsed DEF StaffFields
  <2> QED  BY <1>1, <2>1, Beginnings
<1> QED  BY <1>2, <1>3, <1>4, <1>5

\* The handlers that change a room's lists.
LEMMA StaffFits ==
    ASSUME NEW type, NEW outcomes, {"null", "SUCCESS"} \cap outcomes = {},
           MessagesOf[type] = Plain(StaffFields, {"destRoomId"}, {})
    PROVE  \A path \in StaffChange(outcomes) : Fits(type, path)
<1> DEFINE change == Change({"room", "srcAvatar", "destAvatar"}, {}, {"ROOM_NOPRIVILEGES"} \cup outcomes)
<1>1. MessagesOf[type].reads = StaffFields /\ Due(MessagesOf[type]) = {"destRoomId"}
  BY DEF Plain, Messages, Due
<1>2. Acts(type, <<change>>) /\ Elems(<<change>>) = {change}
  <2> DEFINE codes == {"ROOM_NOPRIVILEGES"} \cup outcomes
  <2>1. "null" \notin codes
    OBVIOUS
  <2> HIDE DEF codes
  <2>2. LET step == Change({"room", "srcAvatar", "destAvatar"}, {}, codes)
        IN  Acts(type, <<step>>) /\ Elems(<<step>>) = {step}
    BY <2>1, ChangeAlone
  <2> QED  BY <2>2 DEF codes
<1>3. \A e \in Elems(FindStaff) \cup {change} : Used(type, StaffFields, e)
  <2>1. Used(type, StaffFields, change)
    BY KindsUsed
  <2> QED  BY <2>1, BeginningsUsed
<1>4. \E e \in Elems(FindStaff) : "destRoomId" \in e.puts
  BY Beginnings, StepKinds
<1> HIDE DEF change
<1>5. \A path \in Handler(FindStaff \o <<change>>) : Fits(type, path)
  <2> DEFINE q == <<change>>
  <2>1. Elems(q) = {change}
    BY <1>2
  <2>2. Acts(type, FindStaff \o q) /\ Together(FindStaff, q)
    <3>1. Acts(type, q) /\ Looks(FindStaff)
      BY <1>2, Beginnings
    <3> HIDE DEF q
    <3> QED  BY <3>1, ThenActs
  <2> HIDE DEF q
  <2>3. \A path \in Handler(FindStaff \o q) : Fits(type, path)
    BY <1>1, <1>3, <1>4, <2>1, <2>2, Handled DEF Together
  <2> QED  BY <2>3 DEF q
<1> QED  BY <1>5 DEF StaffChange, change

\* The seven handlers about staff, bans and invitations of a room.
LEMMA StaffHandlersFit ==
    \A type \in {"ADDBAN", "ADDINVITE", "REMOVEBAN", "REMOVEINVITE", "REMOVEMODERATOR",
                 "ADDMODERATOR", "KICKAVATAR"} :
       \A path \in HandlerOf[type] : Fits(type, path)
<1>1. /\ MessagesOf["ADDBAN"] = Plain(StaffFields, {"destRoomId"}, {})
      /\ MessagesOf["ADDINVITE"] = Plain(StaffFields, {"destRoomId"}, {})
      /\ MessagesOf["REMOVEBAN"] = Plain(StaffFields, {"destRoomId"}, {})
      /\ MessagesOf["REMOVEINVITE"] = Plain(StaffFields, {"destRoomId"}, {})
      /\ MessagesOf["REMOVEMODERATOR"] = Plain(StaffFields, {"destRoomId"}, {})
      /\ MessagesOf["ADDMODERATOR"] = Plain(StaffFields, {"destRoomId"}, {})
      /\ MessagesOf["KICKAVATAR"] = Plain(StaffFields, {"destRoomId"}, {})
  BY DEF MessagesOf, AddBanMessages, AddInviteMessages, RemoveBanMessages, RemoveInviteMessages,
         RemoveModeratorMessages, AddModeratorMessages, KickAvatarMessages
<1>2. /\ HandlerOf["ADDBAN"] = AddBan /\ HandlerOf["ADDINVITE"] = AddInvite
      /\ HandlerOf["REMOVEBAN"] = RemoveBan /\ HandlerOf["REMOVEINVITE"] = RemoveInvite
      /\ HandlerOf["REMOVEMODERATOR"] = RemoveModerator
      /\ HandlerOf["ADDMODERATOR"] = AddModerator /\ HandlerOf["KICKAVATAR"] = KickAvatar
  BY DEF HandlerOf
<1>3. /\ \A path \in AddBan : Fits("ADDBAN", path)
      /\ \A path \in AddInvite : Fits("ADDINVITE", path)
      /\ \A path \in RemoveBan : Fits("REMOVEBAN", path)
      /\ \A path \in RemoveInvite : Fits("REMOVEINVITE", path)
      /\ \A path \in RemoveModerator : Fits("REMOVEMODERATOR", path)
      /\ \A path \in AddModerator : Fits("ADDMODERATOR", path)
  BY <1>1, StaffFits DEF AddBan, AddInvite, RemoveBan, RemoveInvite, RemoveModerator, AddModerator
<1>4. \A path \in KickAvatar : Fits("KICKAVATAR", path)
  <2> DEFINE change == Change({"room", "srcAvatar", "destAvatar"}, {},
                              {"ROOM_NOPRIVILEGES", "ROOM_NOTINROOM"})
             tell == Tell({"srcAvatar", "destAvatar", "room"})
  <2>1. MessagesOf["KICKAVATAR"].reads = StaffFields /\ Due(MessagesOf["KICKAVATAR"]) = {"destRoomId"}
    BY <1>1 DEF Plain, Messages, Due
  <2>2. Acts("KICKAVATAR", <<change, tell>>) /\ Elems(<<change, tell>>) = {change, tell}
    <3> DEFINE codes == {"ROOM_NOPRIVILEGES", "ROOM_NOTINROOM"}
    <3>1. "null" \notin codes
      OBVIOUS
    <3> HIDE DEF codes
    <3>2. LET step == Change({"room", "srcAvatar", "destAvatar"}, {}, codes)
          IN  Acts("KICKAVATAR", <<step, tell>>) /\ Elems(<<step, tell>>) = {step, tell}
      BY <3>1, ChangeThenTell
    <3> QED  BY <3>2 DEF codes
  <2>3. \A e \in Elems(FindStaff) \cup {change, tell} : Used("KICKAVATAR", StaffFields, e)
    <3>1. Used("KICKAVATAR", StaffFields, change) /\ Used("KICKAVATAR", StaffFields, tell)
      BY KindsUsed
    <3> QED  BY <3>1, BeginningsUsed
  <2>4. \E e \in Elems(FindStaff) : "destRoomId" \in e.puts
    BY Beginnings, StepKinds
  <2> HIDE DEF change, tell
  <2>5. \A path \in Handler(FindStaff \o <<change, tell>>) : Fits("KICKAVATAR", path)
    <3> DEFINE q == <<change, tell>>
    <3>1. Elems(q) = {change, tell}
      BY <2>2
    <3>2. Acts("KICKAVATAR", FindStaff \o q) /\ Together(FindStaff, q)
      <4>1. Acts("KICKAVATAR", q) /\ Looks(FindStaff)
        BY <2>2, Beginnings
      <4> HIDE DEF q
      <4> QED  BY <4>1, ThenActs
    <3> HIDE DEF q
    <3>3. \A path \in Handler(FindStaff \o q) : Fits("KICKAVATAR", path)
      BY <2>1, <2>3, <2>4, <3>1, <3>2, Handled DEF Together
    <3> QED  BY <3>3 DEF q
  <2> QED  BY <2>5 DEF KickAvatar, change, tell
<1> QED  BY <1>2, <1>3, <1>4

\* The handlers that act on a room for an avatar.
LEMMA RoomFits ==
    ASSUME NEW type, NEW field, NEW on, NEW by, NEW outcomes, NEW to,
           {field, "srcAvatarId"} \cup by \subseteq MessagesOf[type].reads,
           {"null", "SUCCESS"} \cap outcomes = {},
           Due(MessagesOf[type]) \subseteq Initialised \cup {"roomId"}
    PROVE  \A path \in Handler(FindSource \o FindRoomAt(field) \o
                               <<Put("roomId", {"room"}), Change(on, by, outcomes), Tell(to)>>) :
              Fits(type, path)
<1> DEFINE s == FindSource \o FindRoomAt(field)
           p == Put("roomId", {"room"})
           a == Change(on, by, outcomes)
           b == Tell(to)
           q == <<p, a, b>>
           fields == MessagesOf[type].reads
<1>1. Acts(type, q) /\ Elems(q) = {p, a, b}
  BY PutThenChange
<1>2. Looks(s) /\ Elems(s) = Elems(FindSource) \cup Elems(FindRoomAt(field))
  BY Places
<1>3. Used(type, fields, p) /\ Used(type, fields, a) /\ Used(type, fields, b)
  BY KindsUsed
<1>4. \A e \in Elems(FindSource) \cup Elems(FindRoomAt(field)) : Used(type, fields, e)
  BY BeginningsUsed
<1>5. "roomId" \in p.puts
  BY StepKinds
<1> HIDE DEF s, p, a, b, q
<1>6. Acts(type, s \o q) /\ Together(s, q)
  <2>1. Looks(s) /\ Acts(type, q)
    BY <1>1, <1>2
  <2> QED  BY <2>1, ThenActs
<1>7. \A path \in Handler(s \o q) : Fits(type, path)
  BY <1>1, <1>2, <1>3, <1>4, <1>5, <1>6, Handled DEF Together
<1> QED  BY <1>7 DEF s, p, a, b, q

\* The handlers that find a room and go on with it.
LEMMA RoomHandlersFit ==
    /\ \A path \in HandlerOf["DESTROYROOM"] : Fits("DESTROYROOM", path)
    /\ \A path \in HandlerOf["ENTERROOM"] : Fits("ENTERROOM", path)
    /\ \A path \in HandlerOf["LEAVEROOM"] : Fits("LEAVEROOM", path)
    /\ \A path \in HandlerOf["SENDROOMMESSAGE"] : Fits("SENDROOMMESSAGE", path)
<1>1. /\ HandlerOf["DESTROYROOM"] = DestroyRoom /\ HandlerOf["ENTERROOM"] = EnterRoom
      /\ HandlerOf["LEAVEROOM"] = LeaveRoom /\ HandlerOf["SENDROOMMESSAGE"] = SendRoomMessage
  BY DEF HandlerOf
<1>2. /\ MessagesOf["DESTROYROOM"] = DestroyRoomMessages
      /\ MessagesOf["ENTERROOM"] = EnterRoomMessages
      /\ MessagesOf["LEAVEROOM"] = LeaveRoomMessages
      /\ MessagesOf["SENDROOMMESSAGE"] = SendRoomMessageMessages
  BY DEF MessagesOf
<1>3. /\ DestroyRoomMessages.reads = RoomFields /\ Due(DestroyRoomMessages) = {"roomId"}
      /\ {"roomPassword"} \cup RoomFields \subseteq EnterRoomMessages.reads
      /\ Due(EnterRoomMessages) = {"roomId", "gotRoomObj"}
      /\ LeaveRoomMessages.reads = RoomFields /\ Due(LeaveRoomMessages) = {"roomId"}
      /\ {"srcAvatarId", "destRoomAddress", "message", "oob"} \subseteq SendRoomMessageMessages.reads
      /\ Due(SendRoomMessageMessages) = {"roomId"}
  BY DEF DestroyRoomMessages, EnterRoomMessages, LeaveRoomMessages, SendRoomMessageMessages, Plain,
         Messages, Due
<1>4. {"srcAvatarId", "roomAddress"} \subseteq RoomFields /\ "gotRoomObj" \in Initialised
  BY DEF RoomFields, Initialised
<1>5. \A path \in DestroyRoom : Fits("DESTROYROOM", path)
  BY <1>2, <1>3, <1>4, RoomFits DEF DestroyRoom
<1>6. \A path \in EnterRoom : Fits("ENTERROOM", path)
  BY <1>2, <1>3, <1>4, RoomFits DEF EnterRoom
<1>7. \A path \in LeaveRoom : Fits("LEAVEROOM", path)
  BY <1>2, <1>3, <1>4, RoomFits DEF LeaveRoom
<1>8. \A path \in SendRoomMessage : Fits("SENDROOMMESSAGE", path)
  BY <1>2, <1>3, <1>4, RoomFits DEF SendRoomMessage
<1> QED  BY <1>1, <1>5, <1>6, <1>7, <1>8

\* The handlers that act for one avatar on another.
LEMMA ContactFits ==
    ASSUME NEW type, NEW q, Acts(type, q), ContactFields \subseteq MessagesOf[type].reads,
           \A e \in Elems(q) : Used(type, MessagesOf[type].reads, e), Due(MessagesOf[type]) = {}
    PROVE  \A path \in Handler(FindSource \o FindDest \o q) : Fits(type, path)
<1> DEFINE s == FindSource \o FindDest
           fields == MessagesOf[type].reads
<1>1. Looks(s) /\ Elems(s) = Elems(FindSource) \cup Elems(FindDest)
  BY Places
<1>2. \A e \in Elems(FindSource) \cup Elems(FindDest) : Used(type, fields, e)
  BY BeginningsUsed DEF ContactFields
<1> HIDE DEF s
<1>3. Acts(type, s \o q) /\ Elems(s \o q) = Elems(s) \cup Elems(q)
  BY <1>1, LooksFirst
<1>4. \A path \in Handler(s \o q) : Fits(type, path)
  BY <1>1, <1>2, <1>3, Handled
<1> QED  BY <1>4 DEF s

\* The handlers about friends, ignored, and messages between two avatars.
LEMMA ContactHandlersFit ==
    /\ \A path \in HandlerOf["ADDIGNORE"] : Fits("ADDIGNORE", path)
    /\ \A path \in HandlerOf["REMOVEFRIEND"] : Fits("REMOVEFRIEND", path)
    /\ \A path \in HandlerOf["ADDFRIEND"] : Fits("ADDFRIEND", path)
    /\ \A path \in HandlerOf["SENDINSTANTMESSAGE"] : Fits("SENDINSTANTMESSAGE", path)
<1> DEFINE both == {"srcAvatar", "destAvatar"}
           change == Change(both, {}, {"DATABASE", "dies"})
           tell == Tell(both)
           check == Check(both, {"message", "oob"}, {"IGNORING"})
<1>1. /\ HandlerOf["ADDIGNORE"] = AddIgnore /\ HandlerOf["REMOVEFRIEND"] = RemoveFriend
      /\ HandlerOf["ADDFRIEND"] = AddFriend /\ HandlerOf["SENDINSTANTMESSAGE"] = SendInstantMessage
  BY DEF HandlerOf
<1>2. /\ MessagesOf["ADDIGNORE"] = AddIgnoreMessages /\ MessagesOf["REMOVEFRIEND"] = RemoveFriendMessages
      /\ MessagesOf["ADDFRIEND"] = AddFriendMessages
      /\ MessagesOf["SENDINSTANTMESSAGE"] = SendInstantMessageMessages
  BY DEF MessagesOf
<1>3. /\ AddIgnoreMessages.reads = ContactFields /\ Due(AddIgnoreMessages) = {}
      /\ RemoveFriendMessages.reads = ContactFields /\ Due(RemoveFriendMessages) = {}
      /\ ContactFields \subseteq AddFriendMessages.reads /\ Due(AddFriendMessages) = {}
      /\ ContactFields \cup {"message", "oob"} \subseteq SendInstantMessageMessages.reads
      /\ Due(SendInstantMessageMessages) = {}
  BY DEF AddIgnoreMessages, RemoveFriendMessages, AddFriendMessages, SendInstantMessageMessages,
         Plain, Messages, Due
<1>4. \A type : Acts(type, <<change>>) /\ Elems(<<change>>) = {change}
  BY ChangeAlone
<1>5. \A type : Acts(type, <<tell>>) /\ Elems(<<tell>>) = {tell}
  BY TellAlone
<1>7. \A type, fields : Used(type, fields, change) /\ Used(type, fields, tell)
  BY KindsUsed
<1>8. \A type, fields : {"message", "oob"} \subseteq fields => Used(type, fields, check)
  BY KindsUsed
<1>9. /\ change.op = "change" /\ tell.op = "tell" /\ tell.outcomes = {"done", "dies"} /\ check.op = "use"
  BY StepKinds
<1> HIDE DEF change, tell, check
<1>10. \A path \in Handler(FindSource \o FindDest \o <<change>>) :
          Fits("ADDIGNORE", path) /\ Fits("REMOVEFRIEND", path) /\ Fits("ADDFRIEND", path)
  BY <1>2, <1>3, <1>4, <1>7, ContactFits
<1>11. \A path \in Handler(FindSource \o FindDest \o <<change>> \o <<tell>>) : Fits("ADDFRIEND", path)
  <2> DEFINE s == FindSource \o FindDest
             r == s \o <<change>>
             type == "ADDFRIEND"
  <2>1. Looks(s) /\ Elems(s) = Elems(FindSource) \cup Elems(FindDest)
    BY Places
  <2>2. \A e \in Elems(FindSource) \cup Elems(FindDest) : Used(type, AddFriendMessages.reads, e)
    BY <1>3, BeginningsUsed DEF ContactFields
  <2> HIDE DEF s
  <2>3. Acts(type, r) /\ Elems(r) = Elems(s) \cup {change}
    BY <1>4, <2>1, LooksFirst, ZenonT(40)
  <2>4. Sure(<<tell>>) /\ Admitted(<<tell>>)
    BY <1>5, <1>9 DEF Sure, Admitted
  <2> HIDE DEF r
  <2>5. Acts(type, r \o <<tell>>) /\ Elems(r \o <<tell>>) = Elems(r) \cup {tell}
    BY <1>5, <2>3, <2>4, Onward
  <2>6. \A path \in Handler(r \o <<tell>>) : Fits(type, path)
    BY <1>2, <1>3, <1>7, <2>1, <2>2, <2>3, <2>5, Handled
  <2> QED  BY <2>6 DEF r, s
<1>12. \A path \in Handler(FindSource \o FindDest \o <<check, tell>>) : Fits("SENDINSTANTMESSAGE", path)
  <2>1. Elems(<<check, tell>>) = {check, tell} /\ IsSeq(<<check, tell>>)
    BY ElemsOf
  <2>2. "null" \notin check.outcomes
    BY DEF check, Check, Step
  <2>3. TestedBy(check, tell) /\ TellsBefore(check, tell) /\ ChangesBefore(check, tell)
    BY <1>9, <2>2 DEF TestedBy, TellsBefore, ChangesBefore
  <2>4. Acts("SENDINSTANTMESSAGE", <<check, tell>>)
    BY <1>9, <2>1, <2>3, OrderOf DEF Acts
  <2> QED  BY <1>2, <1>3, <1>7, <1>8, <2>1, <2>4, ContactFits
<1>13. AddIgnore = Handler(FindSource \o FindDest \o <<change>>) /\ RemoveFriend = AddIgnore
  BY DEF AddIgnore, RemoveFriend, change
<1>14. AddFriend = Handler(FindSource \o FindDest \o <<change>>)
                   \cup Handler(FindSource \o FindDest \o <<change>> \o <<tell>>)
  BY DEF AddFriend, change, tell
<1>15. SendInstantMessage = Handler(FindSource \o FindDest \o <<check, tell>>)
  BY DEF SendInstantMessage, check, tell
<1> QED  BY <1>1, <1>10, <1>11, <1>12, <1>13, <1>14, <1>15

\* Steps that look things up, one after the other.
LEMMA LooksInOrder ==
    /\ \A a, b : {a.op, b.op} \cap {"tell", "make", "change"} = {} =>
          (TestedBy(a, b) /\ "null" \notin b.outcomes => Looks(<<a, b>>))
    /\ \A a, b, c : {a.op, b.op, c.op} \cap {"tell", "make", "change"} = {} =>
          (TestedBy(a, b) /\ TestedBy(b, c) /\ "null" \notin c.outcomes => Looks(<<a, b, c>>))
    /\ \A a, b, c, d : {a.op, b.op, c.op, d.op} \cap {"tell", "make", "change"} = {} =>
          (TestedBy(a, b) /\ TestedBy(b, c) /\ TestedBy(c, d) /\ "null" \notin d.outcomes =>
              Looks(<<a, b, c, d>>))
<1>1. ASSUME NEW a, NEW b, {a.op, b.op} \cap {"tell", "make", "change"} = {},
             TestedBy(a, b), "null" \notin b.outcomes
      PROVE  Looks(<<a, b>>)
  <2>1. Elems(<<a, b>>) = {a, b} /\ IsSeq(<<a, b>>)
    BY ElemsOf
  <2>2. Tested(<<a, b>>)
    BY <1>1, OrderOf
  <2> QED  BY <1>1, <2>1, <2>2 DEF Looks, Quiet, Pure
<1>2. ASSUME NEW a, NEW b, NEW c, {a.op, b.op, c.op} \cap {"tell", "make", "change"} = {},
             TestedBy(a, b), TestedBy(b, c), "null" \notin c.outcomes
      PROVE  Looks(<<a, b, c>>)
  <2>1. Elems(<<a, b, c>>) = {a, b, c} /\ IsSeq(<<a, b, c>>)
    BY ElemsOf
  <2>2. Tested(<<a, b, c>>)
    BY <1>2, OrderOf
  <2> QED  BY <1>2, <2>1, <2>2 DEF Looks, Quiet, Pure
<1>3. ASSUME NEW a, NEW b, NEW c, NEW d,
             {a.op, b.op, c.op, d.op} \cap {"tell", "make", "change"} = {},
             TestedBy(a, b), TestedBy(b, c), TestedBy(c, d), "null" \notin d.outcomes
      PROVE  Looks(<<a, b, c, d>>)
  <2>1. Elems(<<a, b, c, d>>) = {a, b, c, d} /\ IsSeq(<<a, b, c, d>>)
    BY ElemsOf
  <2>2. Tested(<<a, b, c, d>>)
    BY <1>3, OrderOf
  <2> QED  BY <1>3, <2>1, <2>2 DEF Looks, Quiet, Pure
<1> QED  BY <1>1, <1>2, <1>3

\* The handlers that only look things up.
LEMMA LookupHandlersFit ==
    /\ \A path \in HandlerOf["GETROOM"] : Fits("GETROOM", path)
    /\ \A path \in HandlerOf["GETROOMSUMMARIES"] : Fits("GETROOMSUMMARIES", path)
    /\ \A path \in HandlerOf["FRIENDSTATUS"] : Fits("FRIENDSTATUS", path)
    /\ \A path \in HandlerOf["IGNORESTATUS"] : Fits("IGNORESTATUS", path)
    /\ \A path \in HandlerOf["GETANYAVATAR"] : Fits("GETANYAVATAR", path)
    /\ \A path \in HandlerOf["SETAPIVERSION"] : Fits("SETAPIVERSION", path)
    /\ \A path \in HandlerOf["GETPERSISTENTHEADERS"] : Fits("GETPERSISTENTHEADERS", path)
<1>0. \A type, s : Looks(s) => Acts(type, s)
  BY LooksFirst
<1>1. \A path \in GetRoom : Fits("GETROOM", path)
  <2> DEFINE a == FindRoom({"roomAddress"})
             b == Need("room", "ADDRESSDOESNTEXIST")
             c == Put("room", {"room"})
             type == "GETROOM"
  <2>1. /\ a.op = "find" /\ a.on = {"room"} /\ b.op = "need" /\ b.on = {"room"} /\ c.op = "use"
        /\ b.outcomes = {"ADDRESSDOESNTEXIST"} /\ c.outcomes = {"done"} /\ c.puts = {"room"}
    BY StepKinds
  <2>2. MessagesOf[type].reads = {"roomAddress"} /\ Due(MessagesOf[type]) = {"room", "extraRooms"}
    BY DEF MessagesOf, GetRoomMessages, Plain, Messages, Due
  <2>3. \A e \in {a, b, c} : Used(type, {"roomAddress"}, e)
    <3>1. Used(type, {"roomAddress"}, a) /\ Used(type, {"roomAddress"}, b) /\ Used(type, {"roomAddress"}, c)
      BY KindsUsed
    <3> QED  BY <3>1
  <2> HIDE DEF a, b, c
  <2>4. Elems(<<a, b, c>>) = {a, b, c} /\ Looks(<<a, b, c>>)
    BY <2>1, ElemsOf, LooksInOrder DEF TestedBy
  <2>5. \A path \in Handler(<<a, b, c>>) : Fits(type, path)
    BY <1>0, <2>1, <2>2, <2>3, <2>4, Handled DEF Initialised
  <2> QED  BY <2>5 DEF GetRoom, a, b, c
<1>2. \A path \in GetRoomSummaries : Fits("GETROOMSUMMARIES", path)
  <2> DEFINE fields == {"startNodeAddress", "roomFilter"}
             a == Check({}, fields, {})
             b == Put("rooms", {})
             type == "GETROOMSUMMARIES"
  <2>1. /\ a.op = "use" /\ a.outcomes = {"done"} /\ b.op = "use" /\ b.outcomes = {"done"}
    BY StepKinds
  <2>2. MessagesOf[type].reads = fields /\ Due(MessagesOf[type]) = {"rooms"}
    BY DEF MessagesOf, GetRoomSummariesMessages, Plain, Messages, Due
  <2>3. \A e \in {a, b} : Used(type, fields, e)
    <3>1. Used(type, fields, a) /\ Used(type, fields, b)
      BY KindsUsed
    <3> QED  BY <3>1
  <2> HIDE DEF a, b, fields
  <2>4. Elems(<<a, b>>) = {a, b} /\ Looks(<<a, b>>)
    BY <2>1, ElemsOf, LooksInOrder DEF TestedBy
  <2>5. \A path \in Handler(<<a, b>>) : Fits(type, path)
    BY <1>0, <2>2, <2>3, <2>4, Handled DEF Initialised
  <2> QED  BY <2>5 DEF GetRoomSummaries, a, b, fields
<1>3. /\ \A path \in FriendStatus : Fits("FRIENDSTATUS", path)
      /\ \A path \in IgnoreStatus : Fits("IGNORESTATUS", path)
  <2> DEFINE fields == {"srcAvatarId", "srcAddress"}
             friends == Step("use", {"srcAvatar"}, {}, {"srcAvatar"}, {"done", "dies"})
             ignored == Put("srcAvatar", {"srcAvatar"})
  <2>1. \A p \in {friends, ignored} :
           /\ p.op = "use" /\ "null" \notin p.outcomes /\ "srcAvatar" \in p.puts
           /\ \A type : Used(type, fields, p)
    BY DEF Put, Step, Used, WellMade
  <2>2. /\ MessagesOf["FRIENDSTATUS"].reads = fields /\ MessagesOf["IGNORESTATUS"].reads = fields
        /\ Due(MessagesOf["FRIENDSTATUS"]) = {"srcAvatar"}
        /\ Due(MessagesOf["IGNORESTATUS"]) = {"srcAvatar"}
    BY DEF MessagesOf, FriendStatusMessages, IgnoreStatusMessages, Plain, Messages, Due
  <2>3. \A type : \A e \in Elems(FindSource) : Used(type, fields, e)
    BY BeginningsUsed
  <2>4. Looks(FindSource)
    BY Beginnings
  <2> HIDE DEF friends, ignored, fields
  <2>5. ASSUME NEW p \in {friends, ignored}, NEW type \in {"FRIENDSTATUS", "IGNORESTATUS"}
        PROVE  \A path \in Handler(FindSource \o <<p>>) : Fits(type, path)
    <3> DEFINE q == <<p>>
               r == FindSource \o q
    <3>1. Looks(q) /\ Elems(q) = {p}
      BY <2>1, Alone
    <3> HIDE DEF q
    <3>2. Looks(r) /\ Elems(r) = Elems(FindSource) \cup {p}
      BY <2>4, <3>1, LooksFirst
    <3> HIDE DEF r
    <3>3. Acts(type, r) /\ \A e \in Elems(r) : Used(type, fields, e)
      BY <1>0, <2>1, <2>3, <3>2
    <3>4. \E e \in Elems(r) : "srcAvatar" \in e.puts
      BY <2>1, <3>2
    <3>5. \A path \in Handler(r) : Fits(type, path)
      BY <2>2, <3>3, <3>4, Handled
    <3> QED  BY <3>5 DEF r, q
  <2> QED  BY <2>5 DEF FriendStatus, IgnoreStatus, friends, ignored
<1>4. \A path \in GetAnyAvatar : Fits("GETANYAVATAR", path)
  <2> DEFINE fields == {"name", "address"}
             a == FindAvatar("avatar", fields)
             b == Need("avatar", "SRCAVATARDOESNTEXIST")
             c == Put("isOnline", {"avatar"})
             d == Put("avatar", {"avatar"})
             type == "GETANYAVATAR"
  <2>1. /\ a.op = "find" /\ a.on = {"avatar"} /\ b.op = "need" /\ b.on = {"avatar"}
        /\ b.outcomes = {"SRCAVATARDOESNTEXIST"}
        /\ c.op = "use" /\ c.outcomes = {"done"} /\ c.puts = {"isOnline"}
        /\ d.op = "use" /\ d.outcomes = {"done"} /\ d.puts = {"avatar"}
    BY StepKinds
  <2>2. MessagesOf[type].reads = fields /\ Due(MessagesOf[type]) = {"isOnline", "avatar"}
    BY DEF MessagesOf, GetAnyAvatarMessages, Plain, Messages, Due
  <2>3. \A e \in {a, b, c, d} : Used(type, fields, e)
    <3>1. Used(type, fields, a) /\ Used(type, fields, b) /\ Used(type, fields, c) /\ Used(type, fields, d)
      BY KindsUsed
    <3> QED  BY <3>1
  <2> HIDE DEF a, b, c, d, fields
  <2>4. Elems(<<a, b, c, d>>) = {a, b, c, d} /\ Looks(<<a, b, c, d>>)
    <3>1. TestedBy(a, b) /\ TestedBy(b, c) /\ TestedBy(c, d) /\ "null" \notin d.outcomes
      BY <2>1 DEF TestedBy
    <3>2. {a.op, b.op, c.op, d.op} \cap {"tell", "make", "change"} = {}
      BY <2>1
    <3> QED  BY <3>1, <3>2, ElemsOf, LooksInOrder
  <2>5. \A path \in Handler(<<a, b, c, d>>) : Fits(type, path)
    BY <1>0, <2>1, <2>2, <2>3, <2>4, Handled
  <2> QED  BY <2>5 DEF GetAnyAvatar, a, b, c, d, fields
<1>5. \A path \in SetApiVersion : Fits("SETAPIVERSION", path)
  <2> DEFINE a == Put("version", {})
             b == Check({}, {"version"}, {"WRONGCHATSERVERFORREQUEST"})
             type == "SETAPIVERSION"
  <2>1. /\ a.op = "use" /\ a.outcomes = {"done"} /\ a.puts = {"version"}
        /\ b.op = "use" /\ b.outcomes = {"done", "WRONGCHATSERVERFORREQUEST"}
    BY StepKinds
  <2>2. MessagesOf[type].reads = {"version"} /\ Due(MessagesOf[type]) = {"version"}
    BY DEF MessagesOf, SetApiVersionMessages, Plain, Messages, Due
  <2>3. \A e \in {a, b} : Used(type, {"version"}, e)
    <3>1. Used(type, {"version"}, a) /\ Used(type, {"version"}, b)
      BY KindsUsed
    <3> QED  BY <3>1
  <2> HIDE DEF a, b
  <2>4. Elems(<<a, b>>) = {a, b} /\ Looks(<<a, b>>)
    BY <2>1, ElemsOf, LooksInOrder DEF TestedBy
  <2>5. \A path \in Handler(<<a, b>>) : Fits(type, path)
    BY <1>0, <2>1, <2>2, <2>3, <2>4, Handled
  <2> QED  BY <2>5 DEF SetApiVersion, a, b
<1>6. \A path \in GetPersistentHeaders : Fits("GETPERSISTENTHEADERS", path)
  <2> DEFINE a == Check({}, {"avatarId"}, {"DATABASE"})
             b == Put("headers", {})
             fields == {"avatarId", "category"}
             type == "GETPERSISTENTHEADERS"
  <2>1. /\ a.op = "use" /\ a.outcomes = {"done", "DATABASE"} /\ b.op = "use" /\ b.outcomes = {"done"}
    BY StepKinds
  <2>2. MessagesOf[type].reads = fields /\ Due(MessagesOf[type]) = {"headers"}
    BY DEF MessagesOf, GetPersistentHeadersMessages, Plain, Messages, Due
  <2>3. \A e \in {a, b} : Used(type, fields, e)
    <3>1. Used(type, fields, a) /\ Used(type, fields, b)
      BY KindsUsed
    <3> QED  BY <3>1
  <2> HIDE DEF a, b, fields
  <2>4. Elems(<<a, b>>) = {a, b} /\ Looks(<<a, b>>)
    BY <2>1, ElemsOf, LooksInOrder DEF TestedBy
  <2>5. \A path \in Handler(<<a, b>>) : Fits(type, path)
    BY <1>0, <2>2, <2>3, <2>4, Handled DEF Initialised
  <2> QED  BY <2>5 DEF GetPersistentHeaders, a, b
<1>7. /\ HandlerOf["GETROOM"] = GetRoom /\ HandlerOf["GETROOMSUMMARIES"] = GetRoomSummaries
      /\ HandlerOf["FRIENDSTATUS"] = FriendStatus /\ HandlerOf["IGNORESTATUS"] = IgnoreStatus
      /\ HandlerOf["GETANYAVATAR"] = GetAnyAvatar /\ HandlerOf["SETAPIVERSION"] = SetApiVersion
      /\ HandlerOf["GETPERSISTENTHEADERS"] = GetPersistentHeaders
  BY DEF HandlerOf
<1> QED  BY <1>1, <1>2, <1>3, <1>4, <1>5, <1>6, <1>7

\* The handlers of mail.
LEMMA MailHandlersFit ==
    /\ \A path \in HandlerOf["GETPERSISTENTMESSAGE"] : Fits("GETPERSISTENTMESSAGE", path)
    /\ \A path \in HandlerOf["UPDATEPERSISTENTMESSAGE"] : Fits("UPDATEPERSISTENTMESSAGE", path)
    /\ \A path \in HandlerOf["UPDATEPERSISTENTMESSAGES"] : Fits("UPDATEPERSISTENTMESSAGES", path)
    /\ \A path \in HandlerOf["SENDPERSISTENTMESSAGE"] : Fits("SENDPERSISTENTMESSAGE", path)
<1>1. \A path \in GetPersistentMessage : Fits("GETPERSISTENTMESSAGE", path)
  <2> DEFINE fields == {"srcAvatarId", "messageId"}
             a == Check({}, fields, {"DATABASE", "PMSGNOTFOUND"})
             b == Put("message", {})
             c == Change({}, {}, {"DATABASE"})
             type == "GETPERSISTENTMESSAGE"
  <2>1. /\ a.op = "use" /\ "null" \notin a.outcomes
        /\ b.op = "use" /\ b.outcomes = {"done"} /\ b.puts = {"message"}
        /\ c.op = "change" /\ c.outcomes = {"done", "DATABASE"}
    BY DEF Check, Put, Change, Step
  <2>2. MessagesOf[type].reads = fields /\ Due(MessagesOf[type]) = {"message"}
    BY DEF MessagesOf, GetPersistentMessageMessages, Plain, Messages, Due
  <2>3. \A e \in {a, b, c} : Used(type, fields, e)
    <3>1. Used(type, fields, a) /\ Used(type, fields, b) /\ Used(type, fields, c)
      BY KindsUsed
    <3> QED  BY <3>1
  <2> HIDE DEF a, b, c, fields
  <2>4. Looks(<<a>>) /\ Elems(<<a>>) = {a} /\ Acts(type, <<b>>) /\ Elems(<<b>>) = {b}
    <3>1. "null" \notin b.outcomes
      BY <2>1
    <3> QED  BY <2>1, <3>1, Alone
  <2>5. Elems(<<c, b>>) = {c, b} /\ Acts(type, <<c, b>>)
    <3>1. Elems(<<c, b>>) = {c, b} /\ IsSeq(<<c, b>>)
      BY ElemsOf
    <3>2. TestedBy(c, b) /\ TellsBefore(c, b) /\ ChangesBefore(c, b) /\ "null" \notin b.outcomes
      BY <2>1 DEF TestedBy, TellsBefore, ChangesBefore
    <3> QED  BY <3>1, <3>2, OrderOf DEF Acts
  <2>6. /\ Acts(type, <<a>> \o <<b>>) /\ Elems(<<a>> \o <<b>>) = {a, b}
        /\ Acts(type, <<a>> \o <<c, b>>) /\ Elems(<<a>> \o <<c, b>>) = {a, b, c}
    <3> DEFINE first == <<a>>
               plain == <<b>>
               marked == <<c, b>>
    <3> HIDE DEF first, plain, marked
    <3>1. /\ Looks(first) /\ Elems(first) = {a} /\ Acts(type, plain) /\ Elems(plain) = {b}
          /\ Acts(type, marked) /\ Elems(marked) = {c, b}
      BY <2>4, <2>5 DEF first, plain, marked
    <3>2. /\ Acts(type, first \o plain) /\ Acts(type, first \o marked)
          /\ Together(first, plain) /\ Together(first, marked)
      BY <3>1, ThenActs
    <3>3. Elems(first \o plain) = {a, b} /\ Elems(first \o marked) = {a, b, c}
      BY <3>1, <3>2 DEF Together
    <3> QED  BY <3>2, <3>3 DEF first, plain, marked
  <2>7. \A path \in Handler(<<a>> \o <<b>>) \cup Handler(<<a>> \o <<c, b>>) : Fits(type, path)
    <3> DEFINE r == <<a>> \o <<b>>
               q == <<a>> \o <<c, b>>
    <3> HIDE DEF r, q
    <3>1. Acts(type, r) /\ Elems(r) = {a, b} /\ Acts(type, q) /\ Elems(q) = {a, b, c}
      BY <2>6 DEF r, q
    <3>2. (\A path \in Handler(r) : Fits(type, path)) /\ \A path \in Handler(q) : Fits(type, path)
      BY <2>1, <2>2, <2>3, <3>1, Handled
    <3> QED  BY <3>2 DEF r, q
  <2> QED  BY <2>7 DEF GetPersistentMessage, a, b, c, fields
<1>2. \A path \in UpdatePersistentMessage : Fits("UPDATEPERSISTENTMESSAGE", path)
  <2> DEFINE fields == {"srcAvatarId", "messageId", "status"}
             a == Change({}, fields, {"DATABASE"})
             type == "UPDATEPERSISTENTMESSAGE"
  <2>1. MessagesOf[type].reads = fields /\ Due(MessagesOf[type]) = {}
    BY DEF MessagesOf, UpdatePersistentMessageMessages, Plain, Messages, Due
  <2>2. Acts(type, <<a>>) /\ Elems(<<a>>) = {a}
    BY ChangeAlone
  <2>3. Used(type, fields, a)
    BY KindsUsed
  <2> HIDE DEF a
  <2>4. \A path \in Handler(<<a>>) : Fits(type, path)
    BY <2>1, <2>2, <2>3, Handled
  <2> QED  BY <2>4 DEF UpdatePersistentMessage, a
<1>3. \A path \in UpdatePersistentMessages : Fits("UPDATEPERSISTENTMESSAGES", path)
  <2> DEFINE fields == {"srcAvatarId", "category", "newStatus"}
             a == Change({}, fields, {"DATABASE"})
             type == "UPDATEPERSISTENTMESSAGES"
  <2>1. /\ MessagesOf[type].reads = {"srcAvatarId", "currentStatus", "newStatus", "category"}
        /\ Due(MessagesOf[type]) = {}
    BY DEF MessagesOf, UpdatePersistentMessagesMessages, Plain, Messages, Due
  <2>2. Acts(type, <<a>>) /\ Elems(<<a>>) = {a}
    BY ChangeAlone
  <2>3. Used(type, {"srcAvatarId", "currentStatus", "newStatus", "category"}, a)
    BY KindsUsed
  <2> HIDE DEF a
  <2>4. \A path \in Handler(<<a>>) : Fits(type, path)
    BY <2>1, <2>2, <2>3, Handled
  <2> QED  BY <2>4 DEF UpdatePersistentMessages, a
<1>4. \A path \in SendPersistentMessage : Fits("SENDPERSISTENTMESSAGE", path)
  <2> DEFINE type == "SENDPERSISTENTMESSAGE"
             messages == SendPersistentMessageMessages
             ignored == Check({"srcAvatar", "destAvatar"}, {}, {"IGNORING"})
             named == Check({}, {"srcName"}, {})
             store == Change({"destAvatar"}, {"subject", "category", "msg", "oob"}, {"DATABASE"})
             copy == Change({"destAvatar"}, {}, {"DATABASE"})
             put == Put("messageId", {})
             tell == Tell({"destAvatar"})
             here == ReadOf(messages, TRUE)
             away == ReadOf(messages, FALSE)
  <2>1. /\ MessagesOf[type] = messages /\ Due(messages) = {"messageId"}
        /\ {"destName", "destAddress", "subject", "category", "msg", "oob", "srcAvatarId"} \subseteq here
        /\ {"destName", "destAddress", "subject", "category", "msg", "oob", "srcName"} \subseteq away
    BY DEF MessagesOf, SendPersistentMessageMessages, Messages, Due, ReadOf
  <2>2. /\ store.op = "change" /\ store.outcomes = {"done", "DATABASE"}
        /\ copy.op = "change" /\ copy.outcomes = {"done", "DATABASE"}
        /\ put.op = "use" /\ put.outcomes = {"done"} /\ put.puts = {"messageId"}
        /\ tell.op = "tell" /\ tell.outcomes = {"done", "dies"}
    BY DEF Change, Put, Tell, Step
  <2>3. /\ Looks(<<ignored>>) /\ Elems(<<ignored>>) = {ignored}
        /\ Looks(<<named>>) /\ Elems(<<named>>) = {named}
    BY CheckAlone
  <2>4. Acts(type, <<store>>) /\ Elems(<<store>>) = {store}
    BY ChangeAlone
  <2> HIDE DEF messages, here, away
  <2>5. \A e \in {ignored, store, copy, put, tell} : Used(type, here, e)
    <3>1. /\ Used(type, here, ignored) /\ Used(type, here, store) /\ Used(type, here, copy)
          /\ Used(type, here, put) /\ Used(type, here, tell)
      BY <2>1, KindsUsed
    <3> QED  BY <3>1
  <2>6. \A e \in {named, store, copy, put, tell} : Used(type, away, e)
    <3>1. /\ Used(type, away, named) /\ Used(type, away, store) /\ Used(type, away, copy)
          /\ Used(type, away, put) /\ Used(type, away, tell)
      BY <2>1, KindsUsed
    <3> QED  BY <3>1
  <2>7. /\ \A e \in Elems(FindSource) \cup Elems(FindDest) : Used(type, here, e)
        /\ \A e \in Elems(FindDest) : Used(type, away, e)
    BY <2>1, BeginningsUsed
  <2> HIDE DEF ignored, named, store, copy, put, tell
  <2>8. Acts(type, <<copy, put, tell>>) /\ Elems(<<copy, put, tell>>) = {copy, put, tell}
    <3>1. Elems(<<copy, put, tell>>) = {copy, put, tell} /\ IsSeq(<<copy, put, tell>>)
      BY ElemsOf
    <3>2. /\ TestedBy(copy, put) /\ TestedBy(put, tell) /\ "null" \notin tell.outcomes
          /\ TellsBefore(copy, put) /\ TellsBefore(copy, tell) /\ TellsBefore(put, tell)
          /\ ChangesBefore(copy, put) /\ ChangesBefore(copy, tell) /\ ChangesBefore(put, tell)
      BY <2>2 DEF TestedBy, TellsBefore, ChangesBefore
    <3> QED  BY <3>1, <3>2, OrderOf DEF Acts
  <2>9. Quiet(<<store>>) /\ Admitted(<<copy, put, tell>>)
    BY <2>2, <2>4, <2>8 DEF Quiet, Admitted
  <2> DEFINE from == FindDest \o (FindSource \o <<ignored>>)
             by == FindDest \o <<named>>
  <2>10. Looks(from) /\ Elems(from) = Elems(FindDest) \cup (Elems(FindSource) \cup {ignored})
    <3>1. Looks(FindSource) /\ Looks(FindDest)
      BY Beginnings
    <3>2. /\ Looks(FindSource \o <<ignored>>)
          /\ Elems(FindSource \o <<ignored>>) = Elems(FindSource) \cup {ignored}
      BY <2>3, <3>1, LooksFirst, ZenonT(40)
    <3> QED  BY <3>1, <3>2, LooksFirst
  <2>11. Looks(by) /\ Elems(by) = Elems(FindDest) \cup {named}
    <3>1. Looks(FindDest)
      BY Beginnings
    <3> QED  BY <2>3, <3>1, LooksFirst
  <2> HIDE DEF from, by
  <2>12. ASSUME NEW s, Looks(s)
         PROVE  /\ Acts(type, s \o <<store>> \o <<copy, put, tell>>)
                /\ Elems(s \o <<store>> \o <<copy, put, tell>>) = Elems(s) \cup {store, copy, put, tell}
    <3>1. Acts(type, s \o <<store>>) /\ Elems(s \o <<store>>) = Elems(s) \cup {store}
      BY <2>4, <2>12, LooksFirst
    <3>2. Quiet(s \o <<store>>)
      BY <2>2, <2>12, <3>1 DEF Quiet, Looks
    <3> QED  BY <2>8, <2>9, <3>1, <3>2, Onward
  <2>13. Fits(type, Path(TRUE, from \o <<store>> \o <<copy, put, tell>>))
    <3> DEFINE r == from \o <<store>> \o <<copy, put, tell>>
    <3>1. Acts(type, r) /\ Elems(r) = Elems(from) \cup {store, copy, put, tell}
      BY <2>10, <2>12
    <3> HIDE DEF r
    <3>2. \A e \in Elems(r) : Used(type, ReadOf(MessagesOf[type], TRUE), e)
      BY <2>1, <2>5, <2>7, <2>10, <3>1 DEF here
    <3>3. \A f \in Due(MessagesOf[type]) : \E e \in Elems(r) : f \in e.puts
      BY <2>1, <2>2, <3>1
    <3>4. Fits(type, Path(TRUE, r))
      BY <3>1, <3>2, <3>3, Assembled
    <3> QED  BY <3>4 DEF r
  <2>14. Fits(type, Path(FALSE, by \o <<store>> \o <<copy, put, tell>>))
    <3> DEFINE r == by \o <<store>> \o <<copy, put, tell>>
    <3>1. Acts(type, r) /\ Elems(r) = Elems(by) \cup {store, copy, put, tell}
      BY <2>11, <2>12
    <3> HIDE DEF r
    <3>2. \A e \in Elems(r) : Used(type, ReadOf(MessagesOf[type], FALSE), e)
      BY <2>1, <2>6, <2>7, <2>11, <3>1 DEF away
    <3>3. \A f \in Due(MessagesOf[type]) : \E e \in Elems(r) : f \in e.puts
      BY <2>1, <2>2, <3>1
    <3>4. Fits(type, Path(FALSE, r))
      BY <3>1, <3>2, <3>3, Assembled
    <3> QED  BY <3>4 DEF r
  <2> QED  BY <2>13, <2>14 DEF SendPersistentMessage, FromAvatar, StoreMail, AnnounceMail,
                             from, by, ignored, named, store, copy, put, tell
<1>5. /\ HandlerOf["GETPERSISTENTMESSAGE"] = GetPersistentMessage
      /\ HandlerOf["UPDATEPERSISTENTMESSAGE"] = UpdatePersistentMessage
      /\ HandlerOf["UPDATEPERSISTENTMESSAGES"] = UpdatePersistentMessages
      /\ HandlerOf["SENDPERSISTENTMESSAGE"] = SendPersistentMessage
  BY DEF HandlerOf
<1> QED  BY <1>1, <1>2, <1>3, <1>4, <1>5

\* The handlers that the avatar service serves.
LEMMA RemoveIgnoreFits ==
    \A path \in HandlerOf["REMOVEIGNORE"] :
       Fits("REMOVEIGNORE", path) /\ UsedFirst(path.steps, {})
<1> DEFINE type == "REMOVEIGNORE"
           fields == ContactFields
           a == FindAvatar("destAvatar", {"destName", "destAddress"})
           b == Need("srcAvatar", "DESTAVATARDOESNTEXIST")
           change == Change({"srcAvatar", "destAvatar"}, {}, {"DATABASE"})
           check == Check({"srcAvatar"}, {}, {})
           found == FindSource \o <<a, b>>
<1>1. MessagesOf[type].reads = fields /\ Due(MessagesOf[type]) = {}
  BY DEF MessagesOf, RemoveIgnoreMessages, Plain, Messages, Due
<1>2. /\ a.op = "find" /\ a.on = {"destAvatar"} /\ b.op = "need"
      /\ change.op = "change" /\ change.on = {"srcAvatar", "destAvatar"}
      /\ "null" \notin change.outcomes
      /\ check.op = "use" /\ "null" \notin check.outcomes
      /\ \A e \in Elems(FindSource) : e.on = {"srcAvatar"} /\ e.op \in {"find", "need"}
  BY Beginnings, StepKinds
<1>3. Used(type, fields, a) /\ Used(type, fields, b) /\ Used(type, fields, change) /\ Used(type, fields, check)
  BY KindsUsed DEF ContactFields
<1>4. \A e \in Elems(FindSource) : Used(type, fields, e)
  BY BeginningsUsed DEF ContactFields
<1>5. /\ Acts(type, <<change>>) /\ Elems(<<change>>) = {change}
      /\ Looks(<<check>>) /\ Elems(<<check>>) = {check}
  BY ChangeAlone, CheckAlone
<1>6. Looks(FindSource)
  BY Beginnings
<1> HIDE DEF a, b, change, check, fields
<1>7. Acts(type, <<a, b>>) /\ Elems(<<a, b>>) = {a, b}
  <2>1. Elems(<<a, b>>) = {a, b} /\ IsSeq(<<a, b>>)
    BY ElemsOf
  <2>2. TellsBefore(a, b) /\ ChangesBefore(a, b)
    BY <1>2 DEF TellsBefore, ChangesBefore
  <2> QED  BY <2>1, <2>2, OrderOf DEF Acts, Untested
<1>8. Acts(type, found) /\ Elems(found) = Elems(FindSource) \cup {a, b}
  BY <1>6, <1>7, LooksFirst
<1>9. Quiet(found) /\ Pure(found)
  BY <1>2, <1>6, <1>8 DEF Quiet, Pure, Looks
<1> HIDE DEF found
<1>10. ASSUME NEW e, e \in {change, check}
       PROVE  \A path \in Handler(found \o <<e>>) : Fits(type, path) /\ UsedFirst(path.steps, {})
  <2>1. Acts(type, <<e>>) /\ Elems(<<e>>) = {e}
    <3>1. Acts(type, <<check>>)
      BY <1>5, LooksFirst
    <3> QED  BY <1>5, <1>10, <3>1
  <2>2. Acts(type, found \o <<e>>) /\ Elems(found \o <<e>>) = Elems(found) \cup {e}
    BY <1>8, <1>9, <2>1, Onward
  <2>3. \A x \in Elems(found \o <<e>>) : Used(type, fields, x)
    BY <1>3, <1>4, <1>8, <1>10, <2>2
  <2>4. UsedFirst(found \o <<e>>, {})
    <3>1. "null" \notin b.outcomes
      BY <1>3, <1>2 DEF Used, WellMade
    <3> QED  BY <1>2, <1>8, <1>10, <2>2, <3>1 DEF UsedFirst
  <2> QED  BY <1>1, <2>2, <2>3, <2>4, Handled, HandledFirst
<1>11. RemoveIgnore = Handler(found \o <<change>>) \cup Handler(found \o <<check>>)
  BY DEF RemoveIgnore, found, a, b, change, check
<1>12. HandlerOf[type] = RemoveIgnore
  BY DEF HandlerOf
<1> QED  BY <1>10, <1>11, <1>12

\* CreateRoom.
LEMMA CreateRoomFits ==
    \A path \in HandlerOf["CREATEROOM"] : Fits("CREATEROOM", path) /\ UsedFirst(path.steps, {})
<1> DEFINE type == "CREATEROOM"
           messages == CreateRoomMessages
           a == FindAvatar("creator", {"creatorId"})
           b == Check({}, {"roomAddress", "roomName"}, {"ROOM_ALREADYEXISTS"})
           c == Change({"creator"}, {"roomName", "roomTopic", "roomPassword", "roomAttributes",
                                     "roomMaxSize", "roomAddress", "srcAddress"}, {})
           d == Put("room", {})
           r == <<a, b, c, d>>
<1>1. /\ MessagesOf[type] = messages /\ Due(messages) = {"room", "extraRooms"}
      /\ messages.reads = {"creatorId", "roomName", "roomTopic", "roomPassword", "roomAttributes",
                           "roomMaxSize", "roomAddress", "srcAddress"}
  BY DEF MessagesOf, CreateRoomMessages, Plain, Messages, Due
<1>2. /\ a.op = "find" /\ a.on = {"creator"} /\ b.op = "use" /\ "null" \notin b.outcomes
      /\ c.op = "change" /\ c.on = {"creator"} /\ c.outcomes = {"done"}
      /\ d.op = "use" /\ d.outcomes = {"done"} /\ d.puts = {"room"}
  BY StepKinds
<1> HIDE DEF messages
<1>3. Used(type, messages.reads, a) /\ Used(type, messages.reads, b) /\ Used(type, messages.reads, c)
      /\ Used(type, messages.reads, d)
  BY <1>1, KindsUsed
<1> HIDE DEF a, b, c, d
<1>4. Elems(r) = {a, b, c, d} /\ IsSeq(r)
  BY ElemsOf
<1>5. TellsLast(r) /\ ChangesLate(r)
  <2>1. /\ TellsBefore(a, b) /\ TellsBefore(a, c) /\ TellsBefore(a, d)
        /\ TellsBefore(b, c) /\ TellsBefore(b, d) /\ TellsBefore(c, d)
        /\ ChangesBefore(a, b) /\ ChangesBefore(a, c) /\ ChangesBefore(a, d)
        /\ ChangesBefore(b, c) /\ ChangesBefore(b, d) /\ ChangesBefore(c, d)
    BY <1>2 DEF TellsBefore, ChangesBefore
  <2> QED  BY <2>1, OrderOf
<1> HIDE DEF r
<1>6. Acts(type, r)
  BY <1>4, <1>5 DEF Acts, Untested
<1>7. \A path \in Handler(r) : Fits(type, path)
  BY <1>1, <1>2, <1>3, <1>4, <1>6, Handled DEF Initialised
<1>8. \A path \in Handler(r) : UsedFirst(path.steps, {})
  BY <1>2, <1>4, HandledFirst DEF UsedFirst
<1>9. HandlerOf[type] = CreateRoom
  BY DEF HandlerOf
<1> QED  BY <1>7, <1>8, <1>9 DEF CreateRoom, r, a, b, c, d

\* SetAvatarAttributes.
LEMMA AttributesFit == \A path \in HandlerOf["SETAVATARATTRIBUTES"] : Fits("SETAVATARATTRIBUTES", path)
<1> DEFINE type == "SETAVATARATTRIBUTES"
           messages == SetAvatarAttributesMessages
           a == FindAvatar("avatar", {"avatarId"})
           b == Need("avatar", "SRCAVATARDOESNTEXIST")
           c == Put("avatar", {"avatar"})
           d == Check({"avatar"}, {"avatarAttributes"}, {})
           found == <<a, b, c, d>>
           set == Change({"avatar"}, {"avatarAttributes", "persistent"}, {})
           save == Change({"avatar"}, {}, {"DATABASE"})
<1>1. /\ MessagesOf[type] = messages /\ Due(messages) = {"avatar"}
      /\ {"avatarId", "avatarAttributes", "persistent"} \subseteq messages.reads
  BY DEF MessagesOf, SetAvatarAttributesMessages, Plain, Messages, Due
<1>2. /\ a.op = "find" /\ a.on = {"avatar"} /\ b.op = "need" /\ b.on = {"avatar"}
      /\ b.outcomes = {"SRCAVATARDOESNTEXIST"}
      /\ c.op = "use" /\ c.outcomes = {"done"} /\ c.puts = {"avatar"}
      /\ d.op = "use" /\ d.outcomes = {"done"}
      /\ set.op = "change" /\ save.op = "change" /\ save.outcomes = {"done", "DATABASE"}
  BY StepKinds
<1> HIDE DEF messages
<1>3. \A e \in {a, b, c, d, set, save} : Used(type, messages.reads, e)
  <2>1. /\ Used(type, messages.reads, a) /\ Used(type, messages.reads, b)
        /\ Used(type, messages.reads, c) /\ Used(type, messages.reads, d)
        /\ Used(type, messages.reads, set) /\ Used(type, messages.reads, save)
    BY <1>1, KindsUsed
  <2> QED  BY <2>1
<1>4. /\ Acts(type, <<set>>) /\ Elems(<<set>>) = {set}
      /\ Acts(type, <<save>>) /\ Elems(<<save>>) = {save}
  BY ChangeAlone
<1> HIDE DEF a, b, c, d, set, save
<1>5. Looks(found) /\ Elems(found) = {a, b, c, d}
  <2>1. TestedBy(a, b) /\ TestedBy(b, c) /\ TestedBy(c, d) /\ "null" \notin d.outcomes
    BY <1>2 DEF TestedBy
  <2>2. {a.op, b.op, c.op, d.op} \cap {"tell", "make", "change"} = {}
    BY <1>2
  <2> QED  BY <2>1, <2>2, ElemsOf, LooksInOrder
<1> HIDE DEF found
<1>6. Acts(type, found)
  BY <1>5, LooksFirst
<1>7. /\ Acts(type, found \o <<set>>)
      /\ Elems(found \o <<set>>) = Elems(found) \cup {set}
  <2> DEFINE q == <<set>>
  <2>1. Acts(type, q) /\ Elems(q) = {set}
    BY <1>4
  <2> HIDE DEF q
  <2>2. Acts(type, found \o q) /\ Together(found, q)
    BY <1>5, <2>1, ThenActs
  <2> QED  BY <2>1, <2>2 DEF q, Together
<1>8. /\ Acts(type, found \o <<set>> \o <<save>>)
      /\ Elems(found \o <<set>> \o <<save>>) = Elems(found \o <<set>>) \cup {save}
  <2>1. Quiet(found \o <<set>>)
    BY <1>2, <1>5, <1>7 DEF Quiet, Looks
  <2>2. Admitted(<<save>>)
    BY <1>2, <1>4 DEF Admitted
  <2> DEFINE s == found \o <<set>>
             q == <<save>>
  <2>3. /\ Acts(type, q) /\ Elems(q) = {save} /\ Admitted(q)
        /\ Acts(type, s) /\ Elems(s) = Elems(found) \cup {set} /\ Quiet(s)
    BY <1>4, <1>7, <2>1, <2>2
  <2> HIDE DEF s, q
  <2>4. Acts(type, s \o q) /\ Elems(s \o q) = Elems(s) \cup Elems(q)
    BY <2>3, Onward
  <2> QED  BY <2>3, <2>4 DEF s, q
<1>9. ASSUME NEW r, Acts(type, r), {a, b, c, d} \subseteq Elems(r),
             Elems(r) \subseteq {a, b, c, d, set, save}
      PROVE  \A path \in Handler(r) : Fits(type, path)
  <2>1. \A e \in Elems(r) : Used(type, messages.reads, e)
    BY <1>3, <1>9
  <2>2. \A f \in Due(messages) : \E e \in Elems(r) : f \in e.puts
    BY <1>1, <1>2, <1>9
  <2> QED  BY <1>1, <1>9, <2>1, <2>2, Handled
<1>10. \A path \in Handler(found) : Fits(type, path)
  BY <1>5, <1>6, <1>9
<1>11. \A path \in Handler(found \o <<set>>) : Fits(type, path)
  BY <1>5, <1>7, <1>9
<1>12. \A path \in Handler(found \o <<set>> \o <<save>>) : Fits(type, path)
  BY <1>5, <1>7, <1>8, <1>9
<1>13. SetAvatarAttributes = Handler(found) \cup Handler(found \o <<set>>)
                             \cup Handler(found \o <<set>> \o <<save>>)
  BY DEF SetAvatarAttributes, found, a, b, c, d, set, save
<1>14. HandlerOf[type] = SetAvatarAttributes
  BY DEF HandlerOf
<1> QED  BY <1>10, <1>11, <1>12, <1>13, <1>14

\* A login, for either request.
LEMMA LoginActs ==
    ASSUME NEW type, NEW attributes, NEW fields,
           {"name", "address", "userId", "loginLocation", attributes} \subseteq fields
    PROVE  \A steps \in Login(attributes) :
              Acts(type, steps) /\ \A e \in Elems(steps) : Used(type, fields, e)
<1> DEFINE a == FindAvatar("avatar", {"name", "address"})
           b == Make("avatar", {"name", "address", "userId", "loginLocation", attributes})
           c == Change({"avatar"}, {}, {})
           d == Change({"avatar"}, {}, {"DATABASE"})
           load == Change({"avatar"}, {"address"}, {"dies"})
           tell == Tell({"avatar"})
           online == <<a, b, c, d>>
<1>1. /\ a.op = "find" /\ a.on = {"avatar"} /\ b.op = "make" /\ b.on = {"avatar"}
      /\ b.outcomes = {"done", "DATABASE"} /\ c.op = "change" /\ c.outcomes = {"done"}
      /\ d.op = "change" /\ d.outcomes = {"done", "DATABASE"}
      /\ load.op = "change" /\ load.outcomes = {"done", "dies"}
      /\ tell.op = "tell" /\ tell.outcomes = {"done", "dies"}
  BY StepKinds
<1>2. \A e \in {a, b, c, d, load, tell} : Used(type, fields, e)
  <2>1. /\ Used(type, fields, a) /\ Used(type, fields, b) /\ Used(type, fields, c)
        /\ Used(type, fields, d) /\ Used(type, fields, load) /\ Used(type, fields, tell)
    BY KindsUsed
  <2> QED  BY <2>1
<1> HIDE DEF a, b, c, d, load, tell
<1>3. Acts(type, online) /\ Elems(online) = {a, b, c, d} /\ Quiet(online)
  <2>1. Elems(online) = {a, b, c, d} /\ IsSeq(online)
    BY ElemsOf
  <2>2. /\ TestedBy(a, b) /\ TestedBy(b, c) /\ TestedBy(c, d) /\ "null" \notin d.outcomes
    BY <1>1 DEF TestedBy
  <2>3. /\ TellsBefore(a, b) /\ TellsBefore(a, c) /\ TellsBefore(a, d)
        /\ TellsBefore(b, c) /\ TellsBefore(b, d) /\ TellsBefore(c, d)
        /\ ChangesBefore(a, b) /\ ChangesBefore(a, c) /\ ChangesBefore(a, d)
        /\ ChangesBefore(b, c) /\ ChangesBefore(b, d) /\ ChangesBefore(c, d)
    BY <1>1 DEF TellsBefore, ChangesBefore
  <2>4. Tested(online) /\ TellsLast(online) /\ ChangesLate(online)
    BY <2>2, <2>3, OrderOf
  <2>5. Quiet(online)
    BY <1>1, <2>1 DEF Quiet
  <2> QED  BY <2>1, <2>4, <2>5 DEF Acts
<1> HIDE DEF online
<1>4. ASSUME NEW e, e \in {load, tell}
      PROVE  Acts(type, online \o <<e>>) /\ \A x \in Elems(online \o <<e>>) : Used(type, fields, x)
  <2> DEFINE q == <<e>>
  <2>1. Acts(type, q) /\ Elems(q) = {e}
    <3>1. "null" \notin e.outcomes
      BY <1>1, <1>4
    <3> QED  BY <3>1, Alone
  <2>2. Admitted(q)
    BY <1>1, <1>4, <2>1 DEF Admitted
  <2> HIDE DEF q
  <2>3. Acts(type, online \o q) /\ Elems(online \o q) = Elems(online) \cup Elems(q)
    BY <1>3, <2>1, <2>2, Onward
  <2>4. \A x \in Elems(online \o q) : Used(type, fields, x)
    BY <1>2, <1>3, <1>4, <2>1, <2>3
  <2> QED  BY <2>3, <2>4 DEF q
<1>5. Login(attributes) = {online \o <<load>>, online \o <<tell>>}
  BY DEF Login, online, a, b, c, d, load, tell
<1> QED  BY <1>4, <1>5

\* The two kinds of login.
LEMMA LoginHandlersFit ==
    /\ \A path \in HandlerOf["LOGINAVATAR"] : Fits("LOGINAVATAR", path)
    /\ \A path \in HandlerOf["FAILOVER_RELOGINAVATAR"] : Fits("FAILOVER_RELOGINAVATAR", path)
<1> DEFINE put == Put("avatar", {"avatar"})
           tell == Tell({"avatar"})
           fields == LoginAvatarMessages.reads
           again == FailoverReLoginAvatarMessages.reads
<1>1. /\ MessagesOf["LOGINAVATAR"].reads = fields /\ Due(MessagesOf["LOGINAVATAR"]) = {"avatar"}
      /\ {"name", "address", "userId", "loginLocation", "loginAttributes"} \subseteq fields
      /\ MessagesOf["FAILOVER_RELOGINAVATAR"].reads = again
      /\ Due(MessagesOf["FAILOVER_RELOGINAVATAR"]) = {}
      /\ {"name", "address", "userId", "loginLocation", "attributes"} \subseteq again
  BY DEF MessagesOf, LoginAvatarMessages, FailoverReLoginAvatarMessages, Plain, Messages, Due
<1>2. /\ put.op = "use" /\ put.outcomes = {"done"} /\ put.puts = {"avatar"}
      /\ tell.op = "tell" /\ tell.outcomes = {"done", "dies"}
  BY StepKinds
<1>3. \A type, read : Used(type, read, put) /\ Used(type, read, tell)
  BY KindsUsed
<1> HIDE DEF put, tell, fields, again
<1>4. ASSUME NEW e, e \in {put, tell}, NEW type, NEW s, Acts(type, s)
      PROVE  Acts(type, s \o <<e>>) /\ Elems(s \o <<e>>) = Elems(s) \cup {e}
  <2> DEFINE q == <<e>>
  <2>1. Acts(type, q) /\ Elems(q) = {e}
    <3>1. "null" \notin e.outcomes
      BY <1>2, <1>4
    <3> QED  BY <3>1, Alone
  <2>2. Sure(q) /\ Admitted(q)
    BY <1>2, <1>4, <2>1 DEF Sure, Admitted
  <2> HIDE DEF q
  <2>3. Acts(type, s \o q) /\ Elems(s \o q) = Elems(s) \cup Elems(q)
    BY <1>4, <2>1, <2>2, Onward
  <2> QED  BY <2>1, <2>3 DEF q
<1>6. ASSUME NEW steps \in Login("loginAttributes")
      PROVE  \A path \in Handler(steps \o <<put>>) : Fits("LOGINAVATAR", path)
  <2> DEFINE r == steps \o <<put>>
  <2>1. Acts("LOGINAVATAR", steps) /\ \A e \in Elems(steps) : Used("LOGINAVATAR", fields, e)
    BY <1>1, LoginActs
  <2>2. Acts("LOGINAVATAR", r) /\ Elems(r) = Elems(steps) \cup {put}
    BY <1>4, <2>1
  <2> HIDE DEF r
  <2>3. \A path \in Handler(r) : Fits("LOGINAVATAR", path)
    BY <1>1, <1>2, <1>3, <2>1, <2>2, Handled
  <2> QED  BY <2>3 DEF r
<1>7. ASSUME NEW steps \in Login("attributes")
      PROVE  /\ \A path \in Handler(steps) : Fits("FAILOVER_RELOGINAVATAR", path)
             /\ \A path \in Handler(steps \o <<tell>>) : Fits("FAILOVER_RELOGINAVATAR", path)
  <2> DEFINE r == steps \o <<tell>>
             type == "FAILOVER_RELOGINAVATAR"
  <2>1. Acts(type, steps) /\ \A e \in Elems(steps) : Used(type, again, e)
    BY <1>1, LoginActs
  <2>2. Acts(type, r) /\ Elems(r) = Elems(steps) \cup {tell}
    BY <1>4, <2>1
  <2> HIDE DEF r
  <2>3. \A path \in Handler(steps) : Fits(type, path)
    BY <1>1, <2>1, Handled
  <2>4. \A path \in Handler(r) : Fits(type, path)
    BY <1>1, <1>3, <2>1, <2>2, Handled
  <2> QED  BY <2>3, <2>4 DEF r
<1>8. /\ HandlerOf["LOGINAVATAR"] = LoginAvatar
      /\ HandlerOf["FAILOVER_RELOGINAVATAR"] = FailoverReLoginAvatar
  BY DEF HandlerOf
<1>9. /\ LoginAvatar = UNION {Handler(steps \o <<put>>) : steps \in Login("loginAttributes")}
      /\ FailoverReLoginAvatar
            = UNION {Handler(steps) \cup Handler(steps \o <<tell>>) : steps \in Login("attributes")}
  BY DEF LoginAvatar, FailoverReLoginAvatar, put, tell
<1> QED  BY <1>6, <1>7, <1>8, <1>9

\* LogoutAvatar, the one that tells before it may be refused.
LEMMA LogoutFits ==
    \A path \in HandlerOf["LOGOUTAVATAR"] :
       Fits("LOGOUTAVATAR", path) /\ UsedFirst(path.steps, {})
<1> DEFINE type == "LOGOUTAVATAR"
           a == FindAvatar("avatar", {"avatarId"})
           leave == Change({"avatar"}, {}, {})
           tell == Tell({"avatar"})
           save == Change({"avatar"}, {}, {"DATABASE"})
           found == <<a>>
           left == <<leave, tell>>
           offline == <<tell, leave, save>>
<1>1. MessagesOf[type].reads = {"avatarId"} /\ Due(MessagesOf[type]) = {}
  BY DEF MessagesOf, LogoutAvatarMessages, Plain, Messages, Due
<1>2. /\ a.op = "find" /\ a.on = {"avatar"}
      /\ leave.on = {"avatar"} /\ tell.on = {"avatar"} /\ save.on = {"avatar"}
      /\ leave.op = "change" /\ leave.outcomes = {"done"}
      /\ tell.op = "tell" /\ tell.outcomes = {"done", "dies"}
      /\ save.op = "change" /\ save.outcomes = {"done", "DATABASE"}
  BY StepKinds
<1>3. \A e \in {a, leave, tell, save} : Used(type, {"avatarId"}, e)
  <2>1. /\ Used(type, {"avatarId"}, a) /\ Used(type, {"avatarId"}, leave)
        /\ Used(type, {"avatarId"}, tell) /\ Used(type, {"avatarId"}, save)
    BY KindsUsed
  <2> QED  BY <2>1
<1> HIDE DEF a, leave, tell, save
<1>4. Acts(type, found) /\ Elems(found) = {a} /\ Pure(found)
  <2>1. Elems(found) = {a} /\ IsSeq(found) /\ ChangesLate(found)
    BY ElemsOf, OrderOf
  <2> QED  BY <1>2, <2>1 DEF Acts, Untested, Pure
<1>5. Acts(type, left) /\ Elems(left) = {leave, tell}
  <2>1. Elems(left) = {leave, tell} /\ IsSeq(left)
    BY ElemsOf
  <2>2. ChangesBefore(leave, tell)
    BY <1>2 DEF ChangesBefore
  <2>3. ChangesLate(left)
    BY <2>2, OrderOf
  <2> QED  BY <2>1, <2>3 DEF Acts, Untested
<1>6. Acts(type, offline) /\ Elems(offline) = {tell, leave, save} /\ Admitted(offline)
  <2>1. Elems(offline) = {tell, leave, save} /\ IsSeq(offline)
    BY ElemsOf
  <2>2. ChangesBefore(tell, leave) /\ ChangesBefore(tell, save) /\ ChangesBefore(leave, save)
    BY <1>2 DEF ChangesBefore
  <2>3. ChangesLate(offline)
    BY <2>2, OrderOf
  <2>4. Admitted(offline)
    BY <1>2, <2>1 DEF Admitted
  <2> QED  BY <2>1, <2>3, <2>4 DEF Acts, Untested
<1> HIDE DEF found, left, offline
<1>7. ASSUME NEW r, Acts(type, r), Elems(r) \subseteq {a, leave, tell, save}
      PROVE  \A path \in Handler(r) : Fits(type, path) /\ UsedFirst(path.steps, {})
  <2>1. UsedFirst(r, {})
    BY <1>2, <1>7 DEF UsedFirst
  <2> QED  BY <1>1, <1>3, <1>7, <2>1, Handled, HandledFirst
<1>8. \A path \in Handler(found \o offline) : Fits(type, path) /\ UsedFirst(path.steps, {})
  <2>1. Acts(type, found \o offline) /\ Elems(found \o offline) = Elems(found) \cup Elems(offline)
    BY <1>4, <1>6, Onward
  <2> QED  BY <1>4, <1>6, <1>7, <2>1
<1>9. \A path \in Handler((found \o left) \o offline) : Fits(type, path) /\ UsedFirst(path.steps, {})
  <2>0. Acts(type, found) /\ Acts(type, left) /\ Pure(found)
    BY <1>4, <1>5
  <2>1. Acts(type, found \o left) /\ Elems(found \o left) = Elems(found) \cup Elems(left)
    BY <2>0, Onward
  <2>2. /\ Acts(type, (found \o left) \o offline)
        /\ Elems((found \o left) \o offline) = Elems(found \o left) \cup Elems(offline)
    BY <1>6, <2>1, Onward
  <2> QED  BY <1>4, <1>5, <1>6, <1>7, <2>1, <2>2
<1>10. LogoutAvatar = Handler(found \o offline) \cup Handler((found \o left) \o offline)
  BY DEF LogoutAvatar, found, left, offline, a, leave, tell, save
<1>11. HandlerOf[type] = LogoutAvatar
  BY DEF HandlerOf
<1> QED  BY <1>8, <1>9, <1>10, <1>11

\* Every path of every handler that a request leads to, of those in Protocol.tla: uses
\* only fields that its request reads with the flag it has, fills those of the answer,
\* and changes nothing before a step that may refuse for another reason than the
\* database.  It tells nobody before a step that may refuse, but for LogoutAvatar;
\* and it tests what it looked for before it uses it, but for LogoutAvatar,
\* RemoveIgnore and CreateRoom, the first change or word of which uses all that
\* they did not find.  (That a step may end the process is not excluded.)
THEOREM HandlersFit ==
    \A type \in Cases : \A path \in HandlerOf[type] :
       Fits(type, path) /\ (type \in Untested => UsedFirst(path.steps, {}))
<1>1. Cases = {"ADDBAN", "ADDFRIEND", "ADDIGNORE", "ADDINVITE", "ADDMODERATOR", "CREATEROOM",
               "DESTROYROOM", "ENTERROOM", "FAILOVER_RELOGINAVATAR", "FRIENDSTATUS", "GETANYAVATAR",
               "GETPERSISTENTHEADERS", "GETPERSISTENTMESSAGE", "GETROOM", "GETROOMSUMMARIES",
               "IGNORESTATUS", "KICKAVATAR", "LEAVEROOM", "LOGINAVATAR", "LOGOUTAVATAR", "REMOVEBAN",
               "REMOVEFRIEND", "REMOVEIGNORE", "REMOVEINVITE", "REMOVEMODERATOR",
               "SENDINSTANTMESSAGE", "SENDPERSISTENTMESSAGE", "SENDROOMMESSAGE", "SETAPIVERSION",
               "SETAVATARATTRIBUTES", "UPDATEPERSISTENTMESSAGE", "UPDATEPERSISTENTMESSAGES"}
  BY DEF Cases, HandlerOf
<1>2. \A type \in Cases : \A path \in HandlerOf[type] : Fits(type, path)
  BY <1>1, StaffHandlersFit, RoomHandlersFit, ContactHandlersFit, LookupHandlersFit,
     MailHandlersFit, RemoveIgnoreFits, CreateRoomFits, AttributesFit, LoginHandlersFit, LogoutFits
<1>3. \A type \in Untested : \A path \in HandlerOf[type] : UsedFirst(path.steps, {})
  BY RemoveIgnoreFits, CreateRoomFits, LogoutFits DEF Untested
<1> QED  BY <1>2, <1>3

-----------------------------------------------------------------------------
(***************************************************************************)
(* The numbers of requests and answers.                                    *)
(***************************************************************************)
\* An answer has the number of its request, if the request has a handler.
LEMMA NumbersMatch ==
    ASSUME NEW code \in Nat, Dispatched(code)
    PROVE  Code(ResponseTypes, TypeOfCode(code)) = code
<1>1. DOMAIN RequestTypes = 1..74 /\ DOMAIN ResponseTypes = 1..74
  BY DEF RequestTypes, ResponseTypes
<1>2. \A i \in 1..74 : i # 65 /\ i # 69 => ResponseTypes[i] = RequestTypes[i]
  BY DEF RequestTypes, ResponseTypes
<1>10. \A i, j \in 1..74 : RequestTypes[i] = ResponseTypes[j] => i = j
  BY DEF RequestTypes, ResponseTypes
<1>11. RequestTypes[65] = "ALTERPERISTENTMESSAGE" /\ RequestTypes[69] = "SETAVATARSTATUSMESSAGE"
  BY DEF RequestTypes
<1>3. "unknown" \notin Cases /\ "ALTERPERISTENTMESSAGE" \notin Cases /\ "SETAVATARSTATUSMESSAGE" \notin Cases
  BY DEF Cases, HandlerOf
<1>4. code + 1 \in 1..74 /\ TypeOfCode(code) = RequestTypes[code + 1]
  BY <1>1, <1>3 DEF Dispatched, TypeOfCode
<1>5. code + 1 # 65 /\ code + 1 # 69
  BY <1>3, <1>4, <1>11 DEF Dispatched
<1>6. ResponseTypes[code + 1] = TypeOfCode(code)
  BY <1>2, <1>4, <1>5
<1>7. \A i \in 1..74 : ResponseTypes[i] = TypeOfCode(code) => i = code + 1
  <2> SUFFICES ASSUME NEW i \in 1..74, ResponseTypes[i] = RequestTypes[code + 1] PROVE i = code + 1
    BY <1>4
  <2> QED  BY <1>4, <1>10
<1> DEFINE place == CHOOSE i \in DOMAIN ResponseTypes : ResponseTypes[i] = TypeOfCode(code)
<1>8. place = code + 1
  BY <1>1, <1>4, <1>6, <1>7
<1>9. Code(ResponseTypes, TypeOfCode(code)) = place - 1
  BY DEF Code
<1> HIDE DEF place
<1> QED  BY <1>8, <1>9

-----------------------------------------------------------------------------
(***************************************************************************)
(* A request in work.                                                      *)
(***************************************************************************)
\* The request w after a step.
After(w, steps, null, puts, result, changed, told) ==
    [type |-> w.type, track |-> w.track, flag |-> w.flag, steps |-> steps, null |-> null,
     puts |-> puts, result |-> result, changed |-> changed, told |-> told]

Shaped(w) == w = After(w, w.steps, w.null, w.puts, w.result, w.changed, w.told)

Given(s) == \A e \in Elems(s) : e.outcomes \ {"done", "null", "dies"} \subseteq Results

\* What is left to do is in order, and fits what was done.
Sound(w) ==
    /\ w.type \in Cases /\ w.flag \in BOOLEAN /\ w.changed \in BOOLEAN /\ w.told \in BOOLEAN
    /\ w.result \in Results
    /\ Orderly(w.type, ReadOf(MessagesOf[w.type], w.flag), w.steps) /\ Given(w.steps)
    /\ w.result # "SUCCESS" => w.steps = <<>>
    /\ w.result = "SUCCESS" => Due(MessagesOf[w.type]) \subseteq w.puts \cup Puts(w.steps)
    /\ w.told => w.type = "LOGOUTAVATAR" \/ (w.result = "SUCCESS" /\ Sure(w.steps))
    /\ w.changed => w.result \in {"SUCCESS", "DATABASE"}
    /\ w.changed \/ w.told => Admitted(w.steps)
    /\ w.type \notin Untested /\ w.null # {} =>
          \/ w.result # "SUCCESS"
          \/ /\ w.steps # <<>> /\ Head(w.steps).op \in {"need", "make"}
             /\ Head(w.steps).on = w.null
    /\ w.type \in Untested =>
          /\ UsedFirst(w.steps, w.null)
          /\ w.steps # <<>> /\ w.null # {} => ~w.changed /\ ~w.told

\* The fields of a request after a step.
LEMMA AfterFields ==
    ASSUME NEW w, NEW steps, NEW null, NEW puts, NEW result, NEW changed, NEW told
    PROVE  LET x == After(w, steps, null, puts, result, changed, told)
           IN  /\ x.type = w.type /\ x.track = w.track /\ x.flag = w.flag /\ x.steps = steps
               /\ x.null = null /\ x.puts = puts /\ x.result = result /\ x.changed = changed
               /\ x.told = told /\ Shaped(x)
BY DEF After, Shaped

\* What is thrown on a path of a handler is a result.
LEMMA ResultsOf ==
    ASSUME NEW type \in Cases, NEW taken \in HandlerOf[type], NEW o \in OutcomesOf(taken),
           o \notin {"done", "null", "dies"}
    PROVE  o \in Results
<1>1. taken \in UNION {HandlerOf[t] : t \in Cases}
  OBVIOUS
<1>2. o \in Outcomes
  BY <1>1 DEF Outcomes
<1> QED  BY <1>2 DEF Results

\* A request that was just read.
LEMMA NewSound ==
    ASSUME NEW type \in Cases, NEW track, NEW path \in HandlerOf[type]
    PROVE  LET w == NewWork(type, track, path)
           IN  Shaped(w) /\ Sound(w) /\ w.type = type /\ w.track = track
<1> DEFINE w == NewWork(type, track, path)
<1>1. /\ w.type = type /\ w.track = track /\ w.flag = path.flag /\ w.steps = path.steps
      /\ w.null = {} /\ w.puts = Initialised /\ w.result = "SUCCESS" /\ w.changed = FALSE
      /\ w.told = FALSE /\ Shaped(w)
  BY DEF NewWork, Shaped, After
<1>2. Fits(type, path) /\ (type \in Untested => UsedFirst(path.steps, {}))
  BY HandlersFit
<1>3. Given(path.steps)
  <2>1. ASSUME NEW i \in DOMAIN path.steps, NEW o \in path.steps[i].outcomes,
               o \notin {"done", "null", "dies"}
        PROVE  o \in Results
    <3>1. o \in OutcomesOf(path)
      BY <2>1 DEF OutcomesOf
    <3> QED  BY <2>1, <3>1, ResultsOf
  <2> QED  BY <2>1 DEF Given, Elems
<1>4. "SUCCESS" \in Results
  BY DEF Results
<1> HIDE DEF w
<1>5. Sound(w)
  BY <1>1, <1>2, <1>3, <1>4 DEF Sound, Fits
<1> QED  BY <1>1, <1>5 DEF w

\* The rest of the steps is in order.
LEMMA RestOrderly ==
    ASSUME NEW w, Sound(w), w.steps # <<>>
    PROVE  LET step == Head(w.steps)
               rest == Tail(w.steps)
           IN  /\ w.result = "SUCCESS"
               /\ Orderly(w.type, ReadOf(MessagesOf[w.type], w.flag), rest) /\ Given(rest)
               /\ Puts(w.steps) = step.puts \cup Puts(rest)
               /\ WellMade(step) /\ step.by \subseteq ReadOf(MessagesOf[w.type], w.flag)
               /\ step.outcomes \ {"done", "null", "dies"} \subseteq Results
               /\ w.told => w.type = "LOGOUTAVATAR" \/ (Sure(rest) /\ step.outcomes \subseteq {"done", "null", "dies"})
               /\ w.changed \/ w.told =>
                     Admitted(rest) /\ step.outcomes \subseteq {"done", "dies", "DATABASE"}
               /\ step.op = "tell" => w.type = "LOGOUTAVATAR" \/ Sure(rest)
               /\ step.op \in {"make", "change", "tell"} => Admitted(rest)
               /\ w.type \notin Untested /\ "null" \in step.outcomes =>
                     /\ rest # <<>> /\ Head(rest).op \in {"need", "make"}
                     /\ Head(rest).on = step.on
<1> DEFINE step == Head(w.steps)
           rest == Tail(w.steps)
           s == w.steps
           fields == ReadOf(MessagesOf[w.type], w.flag)
<1>1. w.result = "SUCCESS" /\ Orderly(w.type, fields, s) /\ Given(s)
  BY DEF Sound
<1>2. IsSeq(s) /\ s # <<>>
  BY <1>1 DEF Orderly
<1> HIDE DEF fields
<1>3. /\ step \in Elems(s) /\ IsSeq(rest)
      /\ Elems(s) = {step} \cup Elems(rest)
      /\ Tested(s) =>
            /\ Tested(rest)
            /\ "null" \in step.outcomes =>
                  rest # <<>> /\ Head(rest).op \in {"need", "make"} /\ Head(rest).on = step.on
      /\ TellsLast(s) => TellsLast(rest) /\ (step.op = "tell" => Sure(rest))
      /\ ChangesLate(s) =>
            ChangesLate(rest) /\ (step.op \in {"make", "change", "tell"} => Admitted(rest))
  BY <1>2, Rest
<1> DEFINE told == w.told => w.type = "LOGOUTAVATAR" \/ Sure(s)
           changed == w.changed \/ w.told => Admitted(s)
<1>4. told /\ changed
  BY DEF Sound
<1> HIDE DEF step, rest, s
<1>5. Orderly(w.type, fields, rest) /\ Given(rest)
  BY <1>1, <1>3 DEF Orderly, Given
<1>6. Puts(s) = step.puts \cup Puts(rest)
  BY <1>3 DEF Puts
<1>7. /\ WellMade(step) /\ step.by \subseteq fields
      /\ step.outcomes \ {"done", "null", "dies"} \subseteq Results
  BY <1>1, <1>3 DEF Orderly, Given
<1>8. /\ Sure(s) => Sure(rest) /\ step.outcomes \subseteq {"done", "null", "dies"}
      /\ Admitted(s) => Admitted(rest) /\ step.outcomes \subseteq {"done", "dies", "DATABASE"}
  BY <1>3 DEF Sure, Admitted
<1>9. /\ step.op = "tell" => w.type = "LOGOUTAVATAR" \/ Sure(rest)
      /\ step.op \in {"make", "change", "tell"} => Admitted(rest)
      /\ w.type \notin Untested /\ "null" \in step.outcomes =>
            rest # <<>> /\ Head(rest).op \in {"need", "make"} /\ Head(rest).on = step.on
  BY <1>1, <1>3 DEF Orderly
<1> QED  BY <1>1, <1>4, <1>5, <1>6, <1>7, <1>8, <1>9 DEF step, rest, s, fields

\* If the steps that act are the first to use what was not found, so are those of
\* the rest.
LEMMA RestFirst ==
    ASSUME NEW s, NEW null, IsSeq(s), s # <<>>, UsedFirst(s, null)
    PROVE  /\ UsedFirst(Tail(s), null)
           /\ "null" \in Head(s).outcomes => UsedFirst(Tail(s), null \cup Head(s).on)
<1>1. Elems(s) = {Head(s)} \cup Elems(Tail(s))
  BY Rest
<1> QED  BY <1>1 DEF UsedFirst

\* What a step that is not there to be done leaves.
LEMMA SkipSound ==
    ASSUME NEW w, Sound(w), w.steps # <<>>, Head(w.steps).op \in {"need", "make"},
           Head(w.steps).on \cap w.null = {}
    PROVE  Sound(After(w, Tail(w.steps), w.null, w.puts, w.result, w.changed, w.told))
<1> DEFINE step == Head(w.steps)
           rest == Tail(w.steps)
           x == After(w, rest, w.null, w.puts, w.result, w.changed, w.told)
<1>1. /\ w.result = "SUCCESS"
      /\ Orderly(w.type, ReadOf(MessagesOf[w.type], w.flag), rest) /\ Given(rest)
      /\ Puts(w.steps) = step.puts \cup Puts(rest) /\ WellMade(step)
      /\ w.told => w.type = "LOGOUTAVATAR" \/ Sure(rest)
      /\ w.changed \/ w.told => Admitted(rest)
  BY RestOrderly
<1>2. step.puts = {}
  BY <1>1 DEF WellMade
<1>3. w.type \notin Untested => w.null = {}
  <2>1. w.type \notin Untested /\ w.null # {} => step.on = w.null
    BY <1>1 DEF Sound
  <2> QED  BY <2>1
<1>4. /\ x.type = w.type /\ x.flag = w.flag /\ x.steps = rest /\ x.null = w.null
      /\ x.puts = w.puts /\ x.result = w.result /\ x.changed = w.changed /\ x.told = w.told
  BY DEF After
<1>5. /\ w.type \in Cases /\ w.flag \in BOOLEAN /\ w.changed \in BOOLEAN /\ w.told \in BOOLEAN
      /\ w.result \in Results /\ Due(MessagesOf[w.type]) \subseteq w.puts \cup Puts(w.steps)
  BY <1>1 DEF Sound
<1> HIDE DEF step, rest, x
<1>6. Due(MessagesOf[w.type]) \subseteq w.puts \cup Puts(rest)
  BY <1>1, <1>2, <1>5
<1>7. w.type \in Untested => UsedFirst(rest, w.null) /\ (w.null # {} => ~w.changed /\ ~w.told)
  <2>1. IsSeq(w.steps)
    BY DEF Sound, Orderly
  <2> QED  BY <2>1, RestFirst DEF Sound, rest
<1>8. Sound(x)
  BY <1>1, <1>3, <1>4, <1>5, <1>6, <1>7 DEF Sound
<1> QED  BY <1>8 DEF x, rest

\* What a step that is done leaves, with the object that it made or did not find.
LEMMA DoneSound ==
    ASSUME NEW w, Sound(w), w.steps # <<>>, NEW null,
           Head(w.steps).op \in {"use", "change", "tell"} => Head(w.steps).on \cap w.null = {},
           LET step == Head(w.steps)
           IN  \/ "done" \in step.outcomes
                  /\ null = IF step.op = "make" THEN w.null \ step.on ELSE w.null
               \/ "null" \in step.outcomes
                  /\ null = (IF step.op = "make" THEN w.null \ step.on ELSE w.null) \cup step.on
    PROVE  LET step == Head(w.steps)
           IN  Sound(After(w, Tail(w.steps), null, w.puts \cup step.puts, w.result,
                           w.changed \/ step.op \in {"make", "change"},
                           w.told \/ step.op = "tell"))
<1> DEFINE step == Head(w.steps)
           rest == Tail(w.steps)
           changed == w.changed \/ step.op \in {"make", "change"}
           told == w.told \/ step.op = "tell"
           x == After(w, rest, null, w.puts \cup step.puts, w.result, changed, told)
<1>1. /\ w.result = "SUCCESS"
      /\ Orderly(w.type, ReadOf(MessagesOf[w.type], w.flag), rest) /\ Given(rest)
      /\ Puts(w.steps) = step.puts \cup Puts(rest) /\ WellMade(step)
      /\ w.told => w.type = "LOGOUTAVATAR" \/ Sure(rest)
      /\ w.changed \/ w.told =>
            Admitted(rest) /\ step.outcomes \subseteq {"done", "dies", "DATABASE"}
      /\ step.op = "tell" => w.type = "LOGOUTAVATAR" \/ Sure(rest)
      /\ step.op \in {"make", "change", "tell"} => Admitted(rest)
      /\ w.type \notin Untested /\ "null" \in step.outcomes =>
            rest # <<>> /\ Head(rest).op \in {"need", "make"} /\ Head(rest).on = step.on
  BY RestOrderly
<1>2. w.type \notin Untested /\ w.null # {} => step.op \in {"need", "make"} /\ step.on = w.null
  BY <1>1 DEF Sound
<1>3. /\ w.type \in Cases /\ w.flag \in BOOLEAN /\ w.changed \in BOOLEAN /\ w.told \in BOOLEAN
      /\ w.result \in Results /\ Due(MessagesOf[w.type]) \subseteq w.puts \cup Puts(w.steps)
  BY <1>1 DEF Sound
<1>4. \/ "done" \in step.outcomes /\ null = IF step.op = "make" THEN w.null \ step.on ELSE w.null
      \/ /\ "null" \in step.outcomes
         /\ null = (IF step.op = "make" THEN w.null \ step.on ELSE w.null) \cup step.on
  OBVIOUS
<1>5. /\ x.type = w.type /\ x.flag = w.flag /\ x.steps = rest /\ x.null = null
      /\ x.puts = w.puts \cup step.puts /\ x.result = w.result
      /\ x.changed = changed /\ x.told = told
  BY DEF After
<1>6. changed \in BOOLEAN /\ told \in BOOLEAN
  BY <1>3
<1>7. /\ told => w.type = "LOGOUTAVATAR" \/ Sure(rest)
      /\ changed \/ told => Admitted(rest)
  BY <1>1
<1>8. w.type \in Untested => UsedFirst(rest, null) /\ (null # {} => ~changed /\ ~told)
  <2> SUFFICES ASSUME w.type \in Untested
               PROVE  UsedFirst(rest, null) /\ (null # {} => ~changed /\ ~told)
    OBVIOUS
  <2>1. IsSeq(w.steps) /\ UsedFirst(w.steps, w.null) /\ (w.null # {} => ~w.changed /\ ~w.told)
    BY DEF Sound, Orderly
  <2>2. /\ UsedFirst(rest, w.null) /\ ("null" \in step.outcomes => UsedFirst(rest, w.null \cup step.on))
        /\ step \in Elems(w.steps)
    BY <2>1, Rest, RestFirst
  <2>3. step.op \in {"use", "change", "tell"} => step.on \cap w.null = {}
    OBVIOUS
  <2>4. step.op \in {"make", "change", "tell"} =>
           step.op # "make" /\ "null" \notin step.outcomes /\ w.null \subseteq step.on
    BY <2>1, <2>2 DEF UsedFirst
  <2>5. CASE step.op \in {"make", "change", "tell"}
    <3>1. w.null = {} /\ null = w.null
      BY <1>4, <2>3, <2>4, <2>5
    <3> QED  BY <2>2, <3>1
  <2>6. CASE step.op \notin {"make", "change", "tell"}
    <3>1. (changed <=> w.changed) /\ (told <=> w.told)
      BY <1>3, <2>6
    <3>2. null = w.null \/ ("null" \in step.outcomes /\ null = w.null \cup step.on)
      BY <1>4, <2>6
    <3>3. "null" \in step.outcomes => ~w.changed /\ ~w.told
      BY <1>1
    <3> HIDE DEF step, rest, changed, told
    <3> QED  BY <2>1, <2>2, <3>1, <3>2, <3>3
  <2> QED  BY <2>5, <2>6
<1> HIDE DEF step, rest, x, changed, told
<1>9. Due(MessagesOf[w.type]) \subseteq (w.puts \cup step.puts) \cup Puts(rest)
  BY <1>1, <1>3
<1>10. w.type \notin Untested /\ null # {} =>
         rest # <<>> /\ Head(rest).op \in {"need", "make"} /\ Head(rest).on = null
  <2> SUFFICES ASSUME w.type \notin Untested, null # {}
               PROVE  rest # <<>> /\ Head(rest).op \in {"need", "make"} /\ Head(rest).on = null
    OBVIOUS
  <2>1. CASE "null" \in step.outcomes
    <3>1. step.op \notin {"need", "make"}
      BY <1>1, <2>1 DEF WellMade
    <3>2. w.null = {}
      BY <1>2, <3>1
    <3>3. null = step.on
      BY <1>4, <3>1, <3>2
    <3> QED  BY <1>1, <2>1, <3>3
  <2>2. CASE "null" \notin step.outcomes
    <3>1. "done" \in step.outcomes /\ null = IF step.op = "make" THEN w.null \ step.on ELSE w.null
      BY <1>4, <2>2
    <3>2. step.op # "need"
      BY <1>1, <3>1 DEF WellMade
    <3>3. null = {}
      <4>1. CASE w.null = {}
        BY <3>1, <4>1
      <4>2. CASE w.null # {}
        <5>1. step.op = "make" /\ step.on = w.null
          BY <1>2, <3>2, <4>2
        <5> QED  BY <3>1, <5>1
      <4> QED  BY <4>1, <4>2
    <3> QED  BY <3>3
  <2> QED  BY <2>1, <2>2
<1>11. Sound(x)
  BY <1>1, <1>3, <1>5, <1>6, <1>7, <1>8, <1>9, <1>10 DEF Sound
<1> QED  BY <1>11 DEF x, rest, step, changed, told

\* What a step that throws leaves.
LEMMA ThrownSound ==
    ASSUME NEW w, Sound(w), w.steps # <<>>, NEW code \in Head(w.steps).outcomes,
           code \notin {"done", "null", "dies"}
    PROVE  LET step == Head(w.steps)
           IN  Sound(After(w, <<>>, w.null, w.puts, code,
                           w.changed \/ (code = "DATABASE" /\ step.op \in {"make", "change"}),
                           w.told))
<1> DEFINE step == Head(w.steps)
           changed == w.changed \/ (code = "DATABASE" /\ step.op \in {"make", "change"})
           x == After(w, <<>>, w.null, w.puts, code, changed, w.told)
<1>1. /\ WellMade(step) /\ step.outcomes \ {"done", "null", "dies"} \subseteq Results
      /\ w.told => w.type = "LOGOUTAVATAR" \/ step.outcomes \subseteq {"done", "null", "dies"}
      /\ w.changed => step.outcomes \subseteq {"done", "dies", "DATABASE"}
  BY RestOrderly
<1>2. /\ w.type \in Cases /\ w.flag \in BOOLEAN /\ w.changed \in BOOLEAN /\ w.told \in BOOLEAN
  BY DEF Sound
<1>3. /\ x.type = w.type /\ x.flag = w.flag /\ x.steps = <<>> /\ x.null = w.null
      /\ x.puts = w.puts /\ x.result = code /\ x.changed = changed /\ x.told = w.told
  BY DEF After
<1>4. changed \in BOOLEAN
  BY <1>2
<1>5. code \in Results /\ code # "SUCCESS"
  BY <1>1 DEF WellMade
<1>6. (w.told => w.type = "LOGOUTAVATAR") /\ (changed => code = "DATABASE")
  BY <1>1
<1>7. /\ Elems(<<>>) = {} /\ IsSeq(<<>>) /\ Tested(<<>>) /\ TellsLast(<<>>) /\ ChangesLate(<<>>)
  BY DEF Elems, IsSeq, Tested, TellsLast, ChangesLate
<1>8. \A fields : Orderly(w.type, fields, <<>>)
  BY <1>7 DEF Orderly
<1>9. Given(<<>>) /\ Admitted(<<>>) /\ UsedFirst(<<>>, w.null)
  BY <1>7 DEF Given, Admitted, UsedFirst
<1> HIDE DEF step, changed, x
<1>10. Sound(x)
  BY <1>2, <1>3, <1>4, <1>5, <1>6, <1>8, <1>9 DEF Sound
<1> QED  BY <1>10 DEF x, changed, step

-----------------------------------------------------------------------------
(***************************************************************************)
(* The connection.                                                         *)
(***************************************************************************)
Asked == asked \in Seq(Codes) /\ Len(asked) <= MaxRequests /\ next \in 0 .. Len(asked)

Working ==
    work # NoWork =>
        /\ Shaped(work) /\ Sound(work)
        /\ work.track = next /\ next # 0 /\ work.type = TypeOfCode(asked[next])

\* How the process died, of what had not been found or otherwise.
Dying ==
    dead # <<>> =>
        /\ work # NoWork
        /\ dead[2] = "null" => dead[1] \in Untested /\ ~work.changed /\ ~work.told

Outgoing ==
    /\ IsSeq(outbox) /\ \A i \in DOMAIN outbox : outbox[i].result \in Results
    /\ AnswersInOrder /\ SuccessIsComplete

\* The inductive invariant.
IInv == Asked /\ Working /\ Dying /\ Outgoing

\* A request in work is one.
LEMMA SomeWork == \A w : Sound(w) => w # NoWork
<1>1. NoWork.type = "none" /\ "none" \notin Cases
  BY DEF NoWork, Cases, HandlerOf
<1> QED  BY <1>1 DEF Sound

\* One more element.
LEMMA Appended ==
    ASSUME NEW s, NEW e, IsSeq(s)
    PROVE  /\ IsSeq(Append(s, e)) /\ Len(s) \in Nat
           /\ DOMAIN s = 1 .. Len(s) /\ DOMAIN Append(s, e) = 1 .. Len(s) + 1
           /\ \A i \in 1 .. Len(s) : Append(s, e)[i] = s[i]
           /\ Append(s, e)[Len(s) + 1] = e
<1> DEFINE S == Elems(s) \cup {e}
           r == Append(s, e)
<1>1. s \in Seq(S) /\ e \in S
  <2>1. Seq(Elems(s)) \subseteq Seq(S)
    OBVIOUS
  <2> QED  BY <2>1 DEF IsSeq
<1> HIDE DEF S
<1>2. /\ r \in Seq(S) /\ Len(r) = Len(s) + 1 /\ Len(s) \in Nat /\ DOMAIN s = 1 .. Len(s)
      /\ \A i \in 1 .. Len(s) : r[i] = s[i]
      /\ r[Len(s) + 1] = e
  BY <1>1, AppendProperties, LenProperties
<1>3. DOMAIN r = 1 .. Len(r)
  <2> HIDE DEF r
  <2> QED  BY <1>2, LenProperties
<1>4. r \in Seq(Elems(r))
  <2> HIDE DEF r
  <2>1. Len(r) \in Nat
    BY <1>2
  <2>2. \A i \in 1 .. Len(r) : r[i] \in Elems(r)
    BY <1>3 DEF Elems
  <2>3. r = [i \in 1 .. Len(r) |-> r[i]]
    BY <1>2, <1>3
  <2> QED  BY <2>1, <2>2, <2>3, SeqDef
<1> QED  BY <1>2, <1>3, <1>4 DEF IsSeq

\* One step of a handler.
LEMMA PerformWorks ==
    ASSUME Working, Perform
    PROVE  Working' /\ Dying' /\ work' # NoWork
<1> DEFINE step == Head(work.steps)
<1>0. /\ Shaped(work) /\ Sound(work) /\ work.steps # <<>> /\ dead = <<>>
      /\ work.track = next /\ next # 0 /\ work.type = TypeOfCode(asked[next])
      /\ UNCHANGED <<asked, next>>
  BY DEF Perform, Working
<1>1. ASSUME NEW steps, NEW null, NEW puts, NEW result, NEW changed, NEW told,
             work' = After(work, steps, null, puts, result, changed, told), Sound(work'),
             UNCHANGED dead
      PROVE  Working' /\ Dying' /\ work' # NoWork
  <2>1. Shaped(work') /\ work'.track = work.track /\ work'.type = work.type
    BY <1>1, AfterFields
  <2>2. Working'
    BY <1>0, <1>1, <2>1 DEF Working
  <2> QED  BY <1>0, <1>1, <2>2, SomeWork DEF Dying
<1>2. CASE Skips(step) /\ work' = [work EXCEPT !.steps = Tail(@)] /\ UNCHANGED dead
  <2>1. work' = After(work, Tail(work.steps), work.null, work.puts, work.result, work.changed, work.told)
    BY <1>0, <1>2 DEF Shaped, After
  <2>2. Sound(work')
    BY <1>0, <1>2, <2>1, SkipSound DEF Skips
  <2> QED  BY <1>1, <1>2, <2>1, <2>2
<1>3. CASE Dereferences(step) /\ dead' = <<work.type, "null">> /\ UNCHANGED work
  <2>1. work.result = "SUCCESS" /\ (work.type \notin Untested /\ work.null # {} => step.op \in {"need", "make"})
    BY <1>0 DEF Sound
  <2>2. work.type \in Untested
    BY <1>3, <2>1 DEF Dereferences
  <2>3. ~work.changed /\ ~work.told
    BY <1>0, <1>3, <2>2 DEF Sound, Dereferences
  <2> QED  BY <1>0, <1>3, <2>2, <2>3, SomeWork DEF Working, Dying
<1>4. ASSUME NEW outcome \in step.outcomes, Ends(step, outcome), ~Dereferences(step)
      PROVE  Working' /\ Dying' /\ work' # NoWork
  <2> DEFINE null == IF step.op = "make" THEN work.null \ step.on ELSE work.null
             changed == work.changed \/ step.op \in {"make", "change"}
             told == work.told \/ step.op = "tell"
  <2>1. Done(step) = After(work, Tail(work.steps), null, work.puts \cup step.puts, work.result,
                           changed, told)
    <3>1. /\ work = After(work, work.steps, work.null, work.puts, work.result, work.changed, work.told)
          /\ work.changed \in BOOLEAN /\ work.told \in BOOLEAN
      BY <1>0 DEF Shaped, Sound
    <3>2. Done(step) = [work EXCEPT !.steps = Tail(work.steps), !.puts = work.puts \cup step.puts,
                                    !.null = null, !.changed = changed, !.told = told]
      BY DEF Done
    <3> HIDE DEF null, changed, told, step
    <3> QED  BY <3>1, <3>2 DEF After
  <2>0. step.op \in {"use", "change", "tell"} => step.on \cap work.null = {}
    BY <1>4 DEF Dereferences
  <2>2. CASE outcome = "done"
    <3>1. work' = Done(step) /\ UNCHANGED dead
      BY <1>4, <2>2 DEF Ends
    <3>2. Sound(work')
      BY <1>0, <2>0, <2>1, <2>2, <3>1, DoneSound
    <3> QED  BY <1>1, <2>1, <3>1, <3>2
  <2>3. CASE outcome = "null"
    <3> DEFINE lost == null \cup step.on
    <3>1. work' = [Done(step) EXCEPT !.null = @ \cup step.on] /\ UNCHANGED dead
      BY <1>4, <2>3 DEF Ends
    <3>2. work' = After(work, Tail(work.steps), lost, work.puts \cup step.puts, work.result,
                        changed, told)
      <4> HIDE DEF null, changed, told, step
      <4>1. Done(step).null = null
        BY <2>1 DEF After
      <4>2. work' = [Done(step) EXCEPT !.null = lost]
        BY <3>1, <4>1
      <4> HIDE DEF lost
      <4>3. work' = [After(work, Tail(work.steps), null, work.puts \cup step.puts, work.result,
                           changed, told) EXCEPT !.null = lost]
        BY <2>1, <4>2
      <4> QED  BY <4>3 DEF After
    <3>3. Sound(After(work, Tail(work.steps), lost, work.puts \cup step.puts, work.result,
                      changed, told))
      BY <1>0, <2>0, <2>3, DoneSound
    <3> HIDE DEF lost, changed, told
    <3> QED  BY <1>1, <3>1, <3>2, <3>3
  <2>4. CASE outcome = "dies"
    <3>1. dead' = <<work.type, "dies">> /\ UNCHANGED work
      BY <1>4, <2>4 DEF Ends
    <3> QED  BY <1>0, <3>1, SomeWork DEF Working, Dying
  <2>5. CASE outcome \notin {"done", "null", "dies"}
    <3>1. work' = Thrown(step, outcome) /\ UNCHANGED dead
      BY <1>4, <2>5 DEF Ends
    <3>2. work' = After(work, <<>>, work.null, work.puts, outcome,
                        work.changed \/ (outcome = "DATABASE" /\ step.op \in {"make", "change"}),
                        work.told)
      BY <1>0, <3>1 DEF Thrown, Shaped, After
    <3>3. Sound(work')
      BY <1>0, <2>5, <3>2, ThrownSound
    <3> QED  BY <1>1, <3>1, <3>2, <3>3
  <2> QED  BY <2>2, <2>3, <2>4, <2>5
<1>5. \/ Skips(step) /\ work' = [work EXCEPT !.steps = Tail(@)] /\ UNCHANGED dead
      \/ Dereferences(step) /\ dead' = <<work.type, "null">> /\ UNCHANGED work
      \/ ~Dereferences(step) /\ \E outcome \in step.outcomes : Ends(step, outcome)
  BY DEF Perform
<1> HIDE DEF step
<1> QED  BY <1>2, <1>3, <1>4, <1>5

\* The places of answers are those of requests that were read.
LEMMA AnsweredRead ==
    ASSUME Asked, Outgoing
    PROVE  \A i \in DOMAIN outbox : outbox[i].track \in 1 .. next /\ outbox[i].track \in DOMAIN asked
<1>1. next \in Nat /\ Len(asked) \in Nat /\ next <= Len(asked) /\ DOMAIN asked = 1 .. Len(asked)
  BY LenProperties DEF Asked
<1>2. \A i \in DOMAIN outbox : outbox[i].track \in Answered
  BY DEF Answered
<1>3. \A i \in DOMAIN outbox : outbox[i].track \in 1 .. next
  BY <1>2 DEF Outgoing, AnswersInOrder, Read
<1> QED  BY <1>1, <1>3

\* A client sends a request.
LEMMA AskKeeps ==
    ASSUME IInv, NEW code \in Codes, Ask(code)
    PROVE  IInv'
<1>0. Asked /\ Outgoing /\ dead = <<>> /\ UNCHANGED <<next, work, outbox, dead>>
  BY DEF IInv, Ask
<1>1. /\ asked' \in Seq(Codes) /\ Len(asked') = Len(asked) + 1 /\ Len(asked) \in Nat /\ next \in Nat
      /\ next <= Len(asked) /\ Len(asked) < MaxRequests
      /\ \A i \in 1 .. Len(asked) : asked'[i] = asked[i]
  BY AppendProperties, LenProperties DEF IInv, Asked, Ask
<1>2. \A i \in 1 .. next : asked'[i] = asked[i]
  BY <1>1
<1>3. Asked'
  BY <1>0, <1>1, RequestsAssumption DEF Asked
<1>4. Working'
  BY <1>0, <1>1, <1>2 DEF IInv, Working
<1>5. Dying'
  BY <1>0 DEF Dying
<1>6. Answered' = Answered /\ Read' = Read
  BY <1>0, <1>2 DEF Answered, Read
<1>7. \A i \in DOMAIN outbox : asked'[outbox[i].track] = asked[outbox[i].track]
  BY <1>0, <1>2, AnsweredRead
<1>8. Outgoing'
  BY <1>0, <1>6, <1>7 DEF Outgoing, AnswersInOrder, SuccessIsComplete
<1> QED  BY <1>3, <1>4, <1>5, <1>8 DEF IInv

\* A request is dispatched.
LEMMA IncomingKeeps ==
    ASSUME IInv, OnIncoming
    PROVE  IInv'
<1>0. /\ Asked /\ Outgoing /\ dead = <<>> /\ work = NoWork /\ next' = next + 1
      /\ UNCHANGED <<asked, outbox>>
  BY DEF IInv, OnIncoming
<1>1. next \in Nat /\ next' \in 1 .. Len(asked) /\ next' # 0
  BY <1>0, LenProperties DEF Asked, OnIncoming
<1>2. Asked'
  BY <1>0, <1>1, LenProperties DEF Asked
<1>4. 1 .. next' = (1 .. next) \cup {next'} /\ next' \notin 1 .. next
  BY <1>0, <1>1
<1> DEFINE code == asked[next']
           new == IF Dispatched(code) THEN {next'} ELSE {}
<1>5. Read' = Read \cup new /\ Answered' = Answered /\ Answered = Read /\ next' \notin Read
  <2>1. Answered = Read
    BY <1>0 DEF Outgoing, AnswersInOrder
  <2>2. Answered' = Answered
    BY <1>0 DEF Answered
  <2>3. next' \notin Read
    BY <1>4 DEF Read
  <2>4. Read' = {i \in 1 .. next' : Dispatched(asked[i])}
    BY <1>0 DEF Read
  <2>5. Read' = Read \cup new
    <3>1. ASSUME NEW i \in 1 .. next', Dispatched(asked[i]) PROVE i \in Read \cup new
      BY <1>4, <3>1 DEF Read
    <3>2. ASSUME NEW i \in Read \cup new PROVE i \in 1 .. next' /\ Dispatched(asked[i])
      BY <1>4, <3>2 DEF Read
    <3> QED  BY <2>4, <3>1, <3>2
  <2> QED  BY <2>1, <2>2, <2>3, <2>5
<1>6. CASE Dispatched(code)
  <2>1. PICK path \in HandlerOf[TypeOfCode(code)] :
           /\ work' = NewWork(TypeOfCode(code), next', path)
           /\ dead' = <<>> \/ dead' = <<TypeOfCode(code), "dies">>
    BY <1>0, <1>6 DEF OnIncoming
  <2>2. TypeOfCode(code) \in Cases
    BY <1>6 DEF Dispatched
  <2>3. Shaped(work') /\ Sound(work') /\ work'.type = TypeOfCode(code) /\ work'.track = next'
    BY <2>1, <2>2, NewSound
  <2>4. work' # NoWork
    BY <2>3, SomeWork
  <2>5. Working'
    BY <1>0, <1>1, <2>3 DEF Working
  <2>6. Answered' = Read' \ {next'}
    BY <1>5, <1>6
  <2>7. Outgoing'
    BY <1>0, <2>4, <2>6 DEF Outgoing, AnswersInOrder, SuccessIsComplete
  <2>8. Dying'
    BY <2>1, <2>4 DEF Dying
  <2> QED  BY <1>2, <2>5, <2>7, <2>8 DEF IInv
<1>7. CASE ~Dispatched(code)
  <2>1. work' = NoWork /\ dead' = <<>>
    BY <1>0, <1>7 DEF OnIncoming
  <2>2. Working'
    BY <2>1 DEF Working
  <2>3. Answered' = Read'
    BY <1>5, <1>7
  <2>4. Outgoing'
    BY <1>0, <2>1, <2>3 DEF Outgoing, AnswersInOrder, SuccessIsComplete
  <2>5. Dying'
    BY <2>1 DEF Dying
  <2> QED  BY <1>2, <2>2, <2>4, <2>5 DEF IInv
<1> QED  BY <1>6, <1>7

\* A handler takes a step.
LEMMA PerformKeeps ==
    ASSUME IInv, Perform
    PROVE  IInv'
<1>0. Asked /\ Working /\ Outgoing /\ work # NoWork /\ UNCHANGED <<asked, next, outbox>>
  BY DEF IInv, Perform
<1>1. Working' /\ Dying' /\ work' # NoWork
  BY <1>0, PerformWorks
<1>2. Asked' /\ Answered' = Answered /\ Read' = Read
  BY <1>0 DEF Asked, Answered, Read
<1>3. Outgoing'
  BY <1>0, <1>1, <1>2 DEF Outgoing, AnswersInOrder, SuccessIsComplete
<1> QED  BY <1>1, <1>2, <1>3 DEF IInv

\* An answer is sent.
LEMMA SendKeeps ==
    ASSUME IInv, Send
    PROVE  IInv'
<1> DEFINE letter == [code |-> Code(ResponseTypes, work.type), track |-> work.track,
                      result |-> work.result, blank |-> Written \ work.puts]
           n == Len(outbox)
<1>0. /\ Asked /\ Outgoing /\ work # NoWork /\ work.steps = <<>> /\ dead = <<>>
      /\ Sound(work) /\ work.track = next /\ next # 0 /\ work.type = TypeOfCode(asked[next])
      /\ outbox' = Append(outbox, letter) /\ work' = NoWork /\ UNCHANGED <<asked, next, dead>>
  BY DEF IInv, Working, Send
<1>1. Asked' /\ Working' /\ Dying'
  BY <1>0 DEF Asked, Working, Dying
<1>2. /\ IsSeq(outbox') /\ n \in Nat /\ DOMAIN outbox = 1 .. n /\ DOMAIN outbox' = 1 .. n + 1
      /\ \A i \in 1 .. n : outbox'[i] = outbox[i]
      /\ outbox'[n + 1] = letter
  BY <1>0, Appended DEF Outgoing
<1>3. /\ letter.code = Code(ResponseTypes, work.type) /\ letter.track = next
      /\ letter.result = work.result /\ letter.blank = Written \ work.puts
  BY <1>0
<1>4. next \in 1 .. next /\ next \in Nat /\ asked[next] \in Nat /\ Dispatched(asked[next])
  <2>1. next \in Nat /\ next \in 1 .. Len(asked)
    BY <1>0, LenProperties DEF Asked
  <2>2. asked[next] \in Codes
    BY <1>0, <2>1, ElementOfSeq DEF Asked
  <2>3. Dispatched(asked[next])
    BY <1>0 DEF Sound, Dispatched
  <2>4. next \in 1 .. next
    BY <2>1
  <2>5. asked[next] \in Nat
    BY <2>2, RequestsAssumption
  <2> QED  BY <2>1, <2>3, <2>4, <2>5
<1>5. letter.code = asked[next]
  BY <1>0, <1>3, <1>4, NumbersMatch
<1>6. work.result \in Results /\ (work.result = "SUCCESS" => Due(MessagesOf[work.type]) \subseteq work.puts)
  <2>1. Puts(<<>>) = {}
    BY DEF Puts, Elems
  <2> QED  BY <1>0, <2>1 DEF Sound
<1>7. letter.result = "SUCCESS" => letter.blank = {}
  BY <1>3, <1>6 DEF Written, Due
<1> HIDE DEF letter, n
<1>8. \A i \in 1 .. n + 1 : i \in 1 .. n \/ i = n + 1
  BY <1>2
<1>9. n + 1 \in 1 .. n + 1 /\ \A i \in 1 .. n : i \in 1 .. n + 1
  BY <1>2
<1>10. \A i \in 1 .. n : outbox[i].track \in 1 .. next /\ outbox[i].track < next
  <2>1. \A i \in 1 .. n : outbox[i].track \in Answered
    BY <1>2 DEF Answered
  <2>2. Answered = Read \ {next}
    BY <1>0 DEF Outgoing, AnswersInOrder
  <2>3. \A i \in 1 .. n : outbox[i].track \in 1 .. next /\ outbox[i].track # next
    BY <2>1, <2>2 DEF Read
  <2> QED  BY <1>4, <2>3
<1>11. Read' = Read /\ next \in Read
  BY <1>0, <1>4 DEF Read
<1>12. Answered' = Read'
  <2>1. Answered' = {outbox'[i].track : i \in 1 .. n + 1}
    BY <1>2 DEF Answered
  <2>2. Answered = {outbox[i].track : i \in 1 .. n}
    BY <1>2 DEF Answered
  <2>3. Answered = Read \ {next}
    BY <1>0 DEF Outgoing, AnswersInOrder
  <2>4. \A t \in Answered' : t \in Answered \cup {next}
    BY <1>2, <1>3, <1>8, <2>1, <2>2
  <2>5. \A t \in Answered : t \in Answered'
    BY <1>2, <1>9, <2>1, <2>2
  <2>6. next \in Answered'
    BY <1>2, <1>3, <1>9, <2>1
  <2> QED  BY <1>11, <2>3, <2>4, <2>5, <2>6
<1>13. \A i, j \in DOMAIN outbox' : i < j => outbox'[i].track < outbox'[j].track
  <2> SUFFICES ASSUME NEW i \in 1 .. n + 1, NEW j \in 1 .. n + 1, i < j
               PROVE  outbox'[i].track < outbox'[j].track
    BY <1>2
  <2>1. i \in 1 .. n
    BY <1>2
  <2>2. CASE j \in 1 .. n
    BY <1>0, <1>2, <2>1, <2>2 DEF Outgoing, AnswersInOrder
  <2>3. CASE j = n + 1
    BY <1>2, <1>3, <1>10, <2>1, <2>3
  <2> QED  BY <1>8, <2>2, <2>3
<1>14. ASSUME NEW i \in DOMAIN outbox'
       PROVE  /\ outbox'[i].result \in Results
              /\ outbox'[i].code = asked'[outbox'[i].track]
              /\ outbox'[i].result = "SUCCESS" => outbox'[i].blank = {}
  <2>1. CASE i \in 1 .. n
    BY <1>0, <1>2, <2>1 DEF Outgoing, AnswersInOrder, SuccessIsComplete
  <2>2. CASE i = n + 1
    BY <1>0, <1>2, <1>3, <1>5, <1>6, <1>7, <2>2
  <2> QED  BY <1>2, <1>8, <2>1, <2>2
<1>15. Outgoing'
  BY <1>0, <1>2, <1>12, <1>13, <1>14 DEF Outgoing, AnswersInOrder, SuccessIsComplete
<1> QED  BY <1>1, <1>15 DEF IInv

\* A connection on which nothing has happened satisfies the invariant.
LEMMA Fresh ==
    ASSUME asked = <<>>, next = 0, work = NoWork, outbox = <<>>, dead = <<>>
    PROVE  IInv
<1>1. Asked
  BY RequestsAssumption, EmptySeq DEF Asked
<1>2. Working /\ Dying
  BY DEF Working, Dying
<1>3. IsSeq(outbox) /\ DOMAIN outbox = {}
  BY DEF IsSeq
<1>4. Answered = {} /\ Read = {}
  BY <1>3 DEF Answered, Read
<1>5. Outgoing
  BY <1>3, <1>4 DEF Outgoing, AnswersInOrder, SuccessIsComplete
<1> QED  BY <1>1, <1>2, <1>5 DEF IInv

\* Every step keeps the invariant.
LEMMA Inductive == IInv /\ [Next]_vars => IInv'
<1> SUFFICES ASSUME IInv, [Next]_vars PROVE IInv'
  OBVIOUS
<1>1. ASSUME NEW code \in Codes, Ask(code) PROVE IInv'
  BY <1>1, AskKeeps
<1>2. CASE OnIncoming
  BY <1>2, IncomingKeeps
<1>3. CASE Perform
  BY <1>3, PerformKeeps
<1>4. CASE Send
  BY <1>4, SendKeeps
<1>5. CASE Reconnect
  <2>1. (asked = <<>> /\ next = 0 /\ work = NoWork /\ outbox = <<>> /\ dead = <<>>)'
    BY <1>5 DEF Reconnect
  <2>2. (asked = <<>> /\ next = 0 /\ work = NoWork /\ outbox = <<>> /\ dead = <<>>)' => IInv'
    BY Fresh, PTL
  <2> QED  BY <2>1, <2>2
<1>6. CASE UNCHANGED vars
  BY <1>6 DEF vars, IInv, Asked, Working, Dying, Outgoing, AnswersInOrder, SuccessIsComplete,
              Answered, Read
<1> QED  BY <1>1, <1>2, <1>3, <1>4, <1>5, <1>6 DEF Next

\* The invariant holds always.
LEMMA Invariance == Spec => []IInv
<1>1. Init => IInv
  BY Fresh DEF Init
<1> QED  BY <1>1, Inductive, PTL DEF Spec

\* Answers are of the types of the enumeration, one to each request that was
\* dispatched, in order and with its number, and those of success are complete.
THEOREM AnswersAreSound == Spec => []AnswersSound
<1>1. IInv => AnswersSound
  BY DEF IInv, Asked, Working, Sound, Dying, Outgoing, AnswersSound, TypeOK
<1> QED  BY <1>1, Invariance, PTL

\* What is refused changes nothing and nobody is told of it, whatever the handler,
\* but for what only the database refuses.
THEOREM RefusalsAreTraceless == Spec => []RefusalsLeaveNoTrace
<1>1. IInv => RefusalsLeaveNoTrace
  BY DEF IInv, Working, Sound, RefusalsLeaveNoTrace, RefusalsAreSilent, RefusalsChangeNothing
<1> QED  BY <1>1, Invariance, PTL

\* Whatever the request, its handler uses only fields that were read, and an object
\* that was not found only if it is LogoutAvatar, RemoveIgnore or CreateRoom, and then
\* before it has changed anything or told anybody.
THEOREM OnlyWhatIsThere == Spec => []UsesOnlyWhatIsThere
<1>1. IInv => UntestedUseComesFirst
  BY DEF IInv, Dying, Untested, UntestedUseComesFirst
<1>2. IInv => ReadBeforeUse
  <2> SUFFICES ASSUME IInv, work # NoWork, work.steps # <<>>
               PROVE  Head(work.steps).by \subseteq ReadOf(MessagesOf[work.type], work.flag)
    BY DEF ReadBeforeUse, ReadOf
  <2>1. Sound(work)
    BY DEF IInv, Working
  <2> QED  BY <2>1, RestOrderly
<1>3. IInv => UsesOnlyWhatIsThere
  BY <1>1, <1>2 DEF UsesOnlyWhatIsThere
<1> QED  BY <1>3, Invariance, PTL

-----------------------------------------------------------------------------
(***************************************************************************)
(* The streams: what is written of a message is read from it again, by     *)
(* induction over its fields and over the units of a string.               *)
(***************************************************************************)
\* A set of natural numbers that is not empty has a smallest member.
LEMMA SmallestIn ==
    ASSUME NEW T \in SUBSET Nat, T # {}
    PROVE  \E x \in T : \A y \in T : x <= y
<1> DEFINE R == {p \in Nat \X Nat : p[1] < p[2]}
<1>1. OpToRel(<, Nat) = R
  BY DEF OpToRel
<1>2. IsWellFoundedOn(R, Nat)
  BY <1>1, NatLessThanWellFounded
<1>3. \A x, y \in Nat : y < x => <<y, x>> \in R
  OBVIOUS
<1> HIDE DEF R
<1>4. PICK x \in T : \A y \in T : ~(<<y, x>> \in R)
  BY <1>2, WFMin
<1>5. \A y \in T : ~(y < x)
  BY <1>3, <1>4
<1>6. \A y \in T : x <= y
  BY <1>5
<1> QED BY <1>6

\* Induction, over a set of naturals.
LEMMA InductionIn ==
    ASSUME NEW T \in SUBSET Nat, 0 \in T, \A n \in T : n + 1 \in T
    PROVE  T = Nat
<1> SUFFICES ASSUME Nat \ T # {} PROVE FALSE
  OBVIOUS
<1>1. PICK x \in Nat \ T : \A y \in Nat \ T : x <= y
  BY SmallestIn
<1>2. x # 0 /\ x - 1 \in Nat /\ x - 1 \in T
  BY <1>1
<1> QED BY <1>1, <1>2

\* f is what a recursion over the numbers up to n computes in S: it begins
\* with first, and step[m] makes what follows the value at m - 1.
Unrolls(f, n, S, first, step) ==
    f \in [0..n -> S] /\ f[0] = first /\ \A m \in 1..n : f[m] = step[m][f[m - 1]]

\* Such a function exists.
LEMMA RecursionExists ==
    ASSUME NEW n \in Nat, NEW S, NEW first \in S, NEW step \in [1..n -> [S -> S]]
    PROVE  \E f : Unrolls(f, n, S, first, step)
<1> DEFINE T == {k \in Nat : k <= n => \E f : Unrolls(f, k, S, first, step)}
<1>1. 0 \in T
  <2>1. Unrolls([m \in 0..0 |-> first], 0, S, first, step)
    BY DEF Unrolls
  <2> QED BY <2>1
<1>2. ASSUME NEW k \in T PROVE k + 1 \in T
  <2>1. k \in Nat /\ k + 1 \in Nat
    OBVIOUS
  <2>2. ASSUME k + 1 <= n PROVE \E f : Unrolls(f, k + 1, S, first, step)
    <3>1. k <= n
      BY <2>1, <2>2
    <3>2. PICK f : Unrolls(f, k, S, first, step)
      BY <1>2, <3>1
    <3> DEFINE follows == step[k + 1][f[k]]
               g == [m \in 0..(k + 1) |-> IF m <= k THEN f[m] ELSE follows]
    <3>3. f \in [0..k -> S] /\ f[0] = first /\ \A m \in 1..k : f[m] = step[m][f[m - 1]]
      BY <3>2 DEF Unrolls
    <3>4. f[k] \in S /\ follows \in S
      BY <2>1, <2>2, <3>3
    <3> HIDE DEF follows
    <3>5. g \in [0..(k + 1) -> S] /\ g[0] = first
      BY <2>1, <3>3, <3>4
    <3>6. ASSUME NEW m \in 1..(k + 1) PROVE g[m] = step[m][g[m - 1]]
      <4>1. CASE m <= k
        BY <2>1, <3>3, <4>1
      <4>2. CASE m = k + 1
        <5>1. g[m] = follows /\ g[k] = f[k] /\ m - 1 = k
          BY <2>1, <4>2
        <5> HIDE DEF g
        <5> QED BY <4>2, <5>1 DEF follows
      <4>3. m <= k \/ m = k + 1
        BY <2>1
      <4> QED BY <4>1, <4>2, <4>3
    <3> HIDE DEF g
    <3>7. Unrolls(g, k + 1, S, first, step)
      BY <3>5, <3>6 DEF Unrolls
    <3> QED BY <3>7
  <2> QED BY <2>1, <2>2
<1>3. T = Nat
  <2>1. T \in SUBSET Nat
    OBVIOUS
  <2> HIDE DEF T
  <2> QED BY <1>1, <1>2, <2>1, InductionIn
<1>4. n \in T
  BY <1>3
<1> QED BY <1>4

\* f is what FlattenSeq makes of sequences over A, one after the other.
Flattens(f, seqs, A) ==
    /\ f \in [0..Len(seqs) -> Seq(A)] /\ f[0] = <<>>
    /\ \A m \in 1..Len(seqs) : f[m] = f[m - 1] \o seqs[m]
    /\ Stream!FlattenSeq(seqs) = f[Len(seqs)]

\* FlattenSeq does that.
LEMMA FlattenIs ==
    ASSUME NEW A, NEW seqs \in Seq(Seq(A)), seqs # <<>>
    PROVE  \E f : Flattens(f, seqs, A)
<1> DEFINE L == Len(seqs)
           S == Seq(A)
           F == [m \in 1..L |-> [s \in S |-> s \o seqs[m]]]
<1>1. L \in Nat \ {0} /\ <<>> \in S /\ \A m \in 1..L : seqs[m] \in Seq(A)
  OBVIOUS
<1>2. F \in [1..L -> [S -> S]]
  <2>1. ASSUME NEW m \in 1..L, NEW s \in S PROVE s \o seqs[m] \in S
    BY <1>1
  <2> QED BY <2>1
<1>3. PICK f : Unrolls(f, L, S, <<>>, F)
  <2> HIDE DEF F, L, S
  <2> QED BY <1>1, <1>2, RecursionExists
<1>4. f \in [0..L -> S] /\ f[0] = <<>> /\ \A m \in 1..L : f[m] = f[m - 1] \o seqs[m]
  <2>1. f \in [0..L -> S] /\ f[0] = <<>> /\ \A m \in 1..L : f[m] = F[m][f[m - 1]]
    BY <1>3 DEF Unrolls
  <2>2. ASSUME NEW m \in 1..L PROVE f[m] = f[m - 1] \o seqs[m]
    <3>1. f[m - 1] \in S
      BY <1>1, <2>1
    <3> HIDE DEF S
    <3> QED BY <2>1, <3>1
  <2> QED BY <2>1, <2>2
<1> DEFINE P(g) == g = [i \in 1..Len(seqs) |-> IF i = 1 THEN seqs[i] ELSE g[i - 1] \o seqs[i]]
           h == [i \in 1..L |-> f[i]]
<1>5. f[1] = seqs[1]
  <2>1. 1 \in 1..L /\ seqs[1] \in Seq(A)
    BY <1>1
  <2>2. f[1] = f[1 - 1] \o seqs[1]
    BY <1>4, <2>1
  <2>3. 1 - 1 = 0
    OBVIOUS
  <2>4. f[1] = <<>> \o seqs[1]
    BY <1>4, <2>2, <2>3
  <2> QED BY <2>1, <2>4
<1>6. P(h)
  <2>1. ASSUME NEW i \in 1..L PROVE h[i] = IF i = 1 THEN seqs[i] ELSE h[i - 1] \o seqs[i]
    <3>1. CASE i = 1
      BY <1>5, <3>1
    <3>2. CASE i # 1
      <4>1. i - 1 \in 1..L
        BY <3>2
      <4> QED BY <1>4, <3>2, <4>1
    <3> QED BY <3>1, <3>2
  <2>2. h = [i \in 1..L |-> h[i]]
    OBVIOUS
  <2> HIDE DEF h
  <2> QED BY <2>1, <2>2
<1>7. P(CHOOSE g : P(g))
  <2> HIDE DEF P
  <2> QED BY <1>6
<1>8. PICK u : u = (CHOOSE g : P(g)) /\ P(u)
  <2> HIDE DEF P
  <2> QED BY <1>7
<1>9. Stream!FlattenSeq(seqs) = u[L]
  <2>1. Len(seqs) # 0
    BY <1>1
  <2> QED BY <1>8, <2>1 DEF Stream!FlattenSeq
<1>10. u[1] = seqs[1] /\ \A i \in 2..L : u[i] = u[i - 1] \o seqs[i]
  <2>1. \A i \in 1..L : u[i] = IF i = 1 THEN seqs[i] ELSE u[i - 1] \o seqs[i]
    BY <1>8
  <2>2. ASSUME NEW i \in 2..L PROVE u[i] = u[i - 1] \o seqs[i]
    <3>1. i \in 1..L /\ i # 1
      BY <1>1
    <3> QED BY <2>1, <3>1
  <2>3. 1 \in 1..L
    BY <1>1
  <2> HIDE DEF L
  <2> QED BY <2>1, <2>2, <2>3
<1>11. u[L] = f[L]
  <2> DEFINE T == {n \in Nat : n + 1 <= L => u[n + 1] = f[n + 1]}
  <2>1. 0 \in T
    BY <1>5, <1>10
  <2>2. ASSUME NEW n \in T PROVE n + 1 \in T
    <3> SUFFICES ASSUME (n + 1) + 1 <= L PROVE u[(n + 1) + 1] = f[(n + 1) + 1]
      BY <2>2
    <3> DEFINE m == (n + 1) + 1
    <3>1. n \in Nat /\ u[n + 1] = f[n + 1]
      BY <1>1, <2>2
    <3>2. m \in 2..L /\ m \in 1..L /\ m - 1 = n + 1
      BY <1>1, <3>1
    <3> HIDE DEF m, L
    <3>3. u[m] = u[m - 1] \o seqs[m] /\ f[m] = f[m - 1] \o seqs[m]
      BY <1>4, <1>10, <3>2
    <3>4. u[m] = f[m]
      BY <3>1, <3>2, <3>3
    <3> QED BY <3>4 DEF m
  <2>3. T = Nat
    <3> HIDE DEF T
    <3>1. T \in SUBSET Nat
      BY DEF T
    <3> QED BY <2>1, <2>2, <3>1, InductionIn
  <2>4. L - 1 \in Nat /\ (L - 1) + 1 = L
    BY <1>1
  <2>5. L - 1 \in T
    <3> HIDE DEF T
    <3> QED BY <2>3, <2>4
  <2> QED BY <2>4, <2>5
<1> QED BY <1>4, <1>9, <1>11 DEF Flattens

\* Joining, one sequence more.
LEMMA FlattenMore ==
    ASSUME NEW A, NEW seqs \in Seq(Seq(A)), NEW s \in Seq(A)
    PROVE  /\ Stream!FlattenSeq(seqs) \in Seq(A)
           /\ Stream!FlattenSeq(Append(seqs, s)) = Stream!FlattenSeq(seqs) \o s
<1> DEFINE S == Seq(A)
           more == Append(seqs, s)
           L == Len(seqs)
<1>1. s \in S /\ seqs \in Seq(S) /\ L \in Nat
  OBVIOUS
<1>2. /\ more \in Seq(S) /\ more # <<>> /\ Len(more) = L + 1 /\ more[L + 1] = s
      /\ \A m \in 1..L : more[m] = seqs[m]
  <2>1. s \in S /\ seqs \in Seq(S)
    BY <1>1
  <2> HIDE DEF S
  <2>2. more \in Seq(S) /\ Len(more) = L + 1 /\ more[L + 1] = s
    BY <2>1
  <2>3. \A m \in 1..L : more[m] = seqs[m]
    BY <2>1
  <2>4. more # <<>>
    <3>1. Len(more) # 0
      <4> HIDE DEF more, L
      <4> QED BY <1>1, <2>2
    <3> HIDE DEF more
    <3> QED BY <3>1
  <2> QED BY <2>2, <2>3, <2>4
<1> HIDE DEF more
<1>3. PICK f : Flattens(f, more, A)
  BY <1>2, FlattenIs
<1>4. /\ f \in [0..(L + 1) -> S] /\ f[0] = <<>> /\ Stream!FlattenSeq(more) = f[L + 1]
      /\ \A m \in 1..(L + 1) : f[m] = f[m - 1] \o more[m]
  BY <1>2, <1>3 DEF Flattens
<1>5. f[L] \in S /\ f[L + 1] = f[L] \o s
  <2>1. L + 1 \in 1..(L + 1) /\ (L + 1) - 1 = L /\ L \in 0..(L + 1)
    BY <1>1
  <2> HIDE DEF S, L
  <2> QED BY <1>2, <1>4, <2>1
<1>6. CASE seqs = <<>>
  <2>1. Stream!FlattenSeq(seqs) = <<>> /\ L = 0
    BY <1>6 DEF Stream!FlattenSeq
  <2> QED BY <1>1, <1>4, <1>5, <2>1 DEF more
<1>7. CASE seqs # <<>>
  <2>1. PICK g : Flattens(g, seqs, A)
    BY <1>7, FlattenIs
  <2>2. /\ g \in [0..L -> S] /\ g[0] = <<>> /\ Stream!FlattenSeq(seqs) = g[L]
        /\ \A m \in 1..L : g[m] = g[m - 1] \o seqs[m]
    BY <2>1 DEF Flattens
  <2> DEFINE T == {m \in Nat : m <= L => g[m] = f[m]}
  <2>3. 0 \in T
    BY <1>4, <2>2
  <2>4. ASSUME NEW m \in T PROVE m + 1 \in T
    <3>1. m \in Nat
      BY <2>4
    <3>2. ASSUME m + 1 <= L PROVE g[m + 1] = f[m + 1]
      <4>1. m + 1 \in 1..L /\ m + 1 \in 1..(L + 1) /\ (m + 1) - 1 = m /\ g[m] = f[m]
        BY <1>1, <2>4, <3>1, <3>2
      <4> HIDE DEF T, L
      <4> QED BY <1>2, <1>4, <2>2, <4>1
    <3> QED BY <3>1, <3>2
  <2>5. T = Nat
    <3>1. T \in SUBSET Nat
      OBVIOUS
    <3> HIDE DEF T
    <3> QED BY <2>3, <2>4, <3>1, InductionIn
  <2>6. g[L] = f[L]
    <3>1. L \in T
      BY <1>1, <2>5
    <3> QED BY <3>1
  <2> QED BY <1>4, <1>5, <2>2, <2>6 DEF more
<1> QED BY <1>6, <1>7

\* Quotient and remainder, of any division.
LEMMA Divides ==
    ASSUME NEW n \in Nat, NEW d \in Nat, d > 0
    PROVE  n = d * (n \div d) + (n % d) /\ n \div d \in Nat /\ n % d \in 0..(d - 1)
  OBVIOUS

\* There is one only.
LEMMA DividesOnce ==
    ASSUME NEW d \in Nat, d > 0, NEW q \in Nat, NEW r \in 0..(d - 1)
    PROVE  (d * q + r) \div d = q /\ (d * q + r) % d = r
  OBVIOUS

\* Products of numbers.
LEMMA Products ==
    ASSUME NEW a \in Nat, NEW b \in Nat, NEW c \in Nat
    PROVE  /\ a * b \in Nat /\ a * (b + c) = a * b + a * c /\ a * (b * c) = (a * b) * c
           /\ a * b = b * a /\ (b < c => a * b + a <= a * c) /\ (b <= c => a * b <= a * c)
  OBVIOUS

\* Dividing twice.
LEMMA DividesTwice ==
    ASSUME NEW n \in Nat, NEW a \in Nat, NEW b \in Nat, a > 0, b > 0
    PROVE  n \div (a * b) = (n \div a) \div b
<1> DEFINE p == n \div a
           q == p \div b
<1>1. n = a * p + (n % a) /\ p \in Nat /\ n % a \in 0..(a - 1)
  BY Divides
<1>2. p = b * q + (p % b) /\ q \in Nat /\ p % b \in 0..(b - 1)
  BY <1>1, Divides
<1> HIDE DEF p, q
<1> DEFINE r == n % a
           s == p % b
<1> HIDE DEF r, s
<1>3. n = a * p + r /\ r \in 0..(a - 1) /\ p = b * q + s /\ s \in 0..(b - 1)
  BY <1>1, <1>2 DEF r, s
<1>4. n = a * (b * q) + a * s + r /\ b * q \in Nat
  BY <1>2, <1>3, Products
<1>5. a * (b * q) = (a * b) * q /\ a * b \in Nat /\ a * s \in Nat
  BY <1>2, <1>3, Products
<1>6. a * s + a <= a * b
  BY <1>3, Products
<1>7. a * s + r \in 0..(a * b - 1) /\ a * b > 0
  BY <1>3, <1>5, <1>6
<1>8. n = (a * b) * q + (a * s + r)
  BY <1>3, <1>4, <1>5
<1>9. n \div (a * b) = q
  <2> DEFINE d == a * b
             e == a * s + r
  <2>1. d \in Nat /\ d > 0 /\ e \in 0..(d - 1) /\ n = d * q + e
    BY <1>5, <1>7, <1>8
  <2> HIDE DEF d, e
  <2>2. n \div d = q
    BY <1>2, <2>1, DividesOnce
  <2> QED BY <2>2 DEF d
<1> QED BY <1>9 DEF p, q

\* What is assumed of a byte.
LEMMA BaseIs == Base \in Nat /\ Base > 1 /\ 2 * (Base \div 2) = Base /\ Base \div 2 \in Nat \ {0}
<1>1. Base \in Nat \ {0} /\ Base % 2 = 0
  BY GatewayClientAssumption DEF Stream!NodeClientConstants
<1> QED BY <1>1

\* What a number is less than bounds its quotients.
LEMMA QuotientLess ==
    ASSUME NEW a \in Nat, NEW b \in Nat, NEW n \in Nat, a > 0, n < a * b
    PROVE  n \div a < b
<1> DEFINE q == n \div a
<1>1. n = a * q + (n % a) /\ q \in Nat /\ n % a \in Nat
  BY Divides
<1> HIDE DEF q
<1>2. ASSUME b <= q PROVE FALSE
  <2>1. a * b <= a * q /\ a * b \in Nat /\ a * q \in Nat
    BY <1>1, <1>2, Products
  <2> QED BY <1>1, <2>1
<1> QED BY <1>1, <1>2 DEF q

\* The bytes of an integer of two bytes make the integer again.
LEMMA NumberOfTwo ==
    ASSUME NEW n \in Stream!Word
    PROVE  /\ Stream!Bytes(n, 2) \in Seq(Stream!Byte) /\ Len(Stream!Bytes(n, 2)) = 2
           /\ Stream!Number(Stream!Bytes(n, 2)) = n
<1> DEFINE q == n \div Base
           d == n % Base
           b == Stream!Bytes(n, 2)
<1>1. Base \in Nat /\ Base > 1 /\ Base * Base \in Nat /\ n \in Nat /\ n < Base * Base
  BY BaseIs DEF Stream!Word
<1>2. n = Base * q + d /\ q \in Nat /\ d \in 0..(Base - 1) /\ q < Base
  BY <1>1, Divides, QuotientLess
<1>3. n \div 1 = n /\ q % Base = q
  BY <1>1, <1>2
<1>4. b = [i \in 1..2 |-> (n \div Stream!Weight[i]) % Base]
  BY DEF Stream!Bytes
<1>5. b[1] = (n \div Stream!Weight[1]) % Base /\ b[2] = (n \div Stream!Weight[2]) % Base
      /\ DOMAIN b = 1..2
  BY <1>4
<1>6. Stream!Weight[1] = 1 /\ Stream!Weight[2] = Base
  BY DEF Stream!Weight
<1>7. b[1] = d /\ b[2] = q
  BY <1>3, <1>5, <1>6
<1>8. b \in Seq(Stream!Byte) /\ Len(b) = 2
  <2>1. b[1] \in Stream!Byte /\ b[2] \in Stream!Byte
    BY <1>1, <1>2, <1>7 DEF Stream!Byte
  <2>2. b = [i \in 1..2 |-> b[i]]
    BY <1>4
  <2> HIDE DEF b
  <2>3. \A i \in 1..2 : b[i] \in Stream!Byte
    BY <2>1
  <2> QED BY <2>2, <2>3
<1> HIDE DEF b
<1>9. Stream!Number(b) = b[1] * 1 + b[2] * Base + 0 + 0
  BY <1>5, <1>6 DEF Stream!Number
<1>10. d * 1 = d /\ q * Base = Base * q
  BY <1>1, <1>2, Products
<1>11. Stream!Number(b) = n
  BY <1>1, <1>2, <1>7, <1>9, <1>10, Products
<1> QED BY <1>8, <1>11 DEF b

\* So do those of an integer of four bytes.
LEMMA NumberOfFour ==
    ASSUME NEW n \in 0..(Base * Stream!Weight[4] - 1)
    PROVE  /\ Stream!Bytes(n, 4) \in Seq(Stream!Byte) /\ Len(Stream!Bytes(n, 4)) = 4
           /\ Stream!Number(Stream!Bytes(n, 4)) = n
<1> DEFINE B2 == Base * Base
           B3 == Base * B2
           p == n \div Base
           q == p \div Base
           r == q \div Base
           b == Stream!Bytes(n, 4)
<1>1. /\ Stream!Weight[1] = 1 /\ Stream!Weight[2] = Base /\ Stream!Weight[3] = B2
      /\ Stream!Weight[4] = B3
  BY DEF Stream!Weight
<1>2. Base \in Nat /\ Base > 1 /\ B2 \in Nat /\ B3 \in Nat /\ Base * B3 \in Nat
      /\ n \in Nat /\ n < Base * B3 /\ B2 > 0 /\ B3 > 0
  <2>1. Base \in Nat /\ Base > 1
    BY BaseIs
  <2>2. B2 \in Nat /\ B2 > 0
    BY <2>1
  <2> HIDE DEF B2
  <2>3. B3 \in Nat /\ B3 > 0
    BY <2>1, <2>2
  <2> HIDE DEF B3
  <2>4. Base * B3 \in Nat
    BY <2>1, <2>3
  <2> QED BY <1>1, <2>1, <2>2, <2>3, <2>4
<1>3. /\ n = Base * p + (n % Base) /\ p \in Nat /\ n % Base \in 0..(Base - 1)
      /\ p = Base * q + (p % Base) /\ q \in Nat /\ p % Base \in 0..(Base - 1)
      /\ q = Base * r + (q % Base) /\ r \in Nat /\ q % Base \in 0..(Base - 1)
  <2>1. n = Base * p + (n % Base) /\ p \in Nat /\ n % Base \in 0..(Base - 1)
    BY <1>2, Divides
  <2> HIDE DEF p
  <2>2. p = Base * q + (p % Base) /\ q \in Nat /\ p % Base \in 0..(Base - 1)
    BY <1>2, <2>1, Divides
  <2> HIDE DEF q
  <2>3. q = Base * r + (q % Base) /\ r \in Nat /\ q % Base \in 0..(Base - 1)
    BY <1>2, <2>2, Divides
  <2> QED BY <2>1, <2>2, <2>3
<1>4. n \div 1 = n /\ n \div B2 = q
  BY <1>2, DividesTwice
<1>5. n \div B3 = r
  <2>1. n \div B3 = p \div B2
    <3> HIDE DEF B2
    <3> QED BY <1>2, DividesTwice
  <2>2. p \div B2 = r
    <3> HIDE DEF p
    <3> QED BY <1>2, <1>3, DividesTwice
  <2> QED BY <2>1, <2>2
<1>6. r < Base
  <2>1. Base * B3 = B3 * Base
    <3> HIDE DEF B3
    <3> QED BY <1>2, Products
  <2>2. n \div B3 < Base
    <3> HIDE DEF B3
    <3> QED BY <1>2, <2>1, QuotientLess
  <2> QED BY <1>5, <2>2
<1> HIDE DEF p, q, r
<1>7. b = [i \in 1..4 |-> (n \div Stream!Weight[i]) % Base]
  BY DEF Stream!Bytes
<1>8. b[1] = n % Base /\ b[2] = p % Base /\ b[3] = q % Base /\ b[4] = r % Base /\ DOMAIN b = 1..4
  <2>1. /\ b[1] = (n \div Stream!Weight[1]) % Base /\ b[2] = (n \div Stream!Weight[2]) % Base
        /\ b[3] = (n \div Stream!Weight[3]) % Base /\ b[4] = (n \div Stream!Weight[4]) % Base
        /\ DOMAIN b = 1..4
    BY <1>7
  <2> HIDE DEF b, B2, B3
  <2> QED BY <1>1, <1>4, <1>5, <2>1 DEF p
<1>9. r % Base = r
  BY <1>2, <1>3, <1>6
<1>10. b \in Seq(Stream!Byte) /\ Len(b) = 4
  <2>1. b = [i \in 1..4 |-> b[i]]
    BY <1>7
  <2> HIDE DEF b
  <2>2. \A i \in 1..4 : b[i] \in Stream!Byte
    <3>1. \A i \in 1..4 : i = 1 \/ i = 2 \/ i = 3 \/ i = 4
      OBVIOUS
    <3>2. r % Base \in 0..(Base - 1)
      BY <1>2, <1>3, <1>6, <1>9
    <3> QED BY <1>3, <1>8, <3>1, <3>2 DEF Stream!Byte
  <2> QED BY <2>1, <2>2
<1> HIDE DEF b
<1>11. Stream!Number(b) = b[1] * 1 + b[2] * Base + b[3] * B2 + b[4] * B3
  <2>1. 1 \in DOMAIN b /\ 2 \in DOMAIN b /\ 3 \in DOMAIN b /\ 4 \in DOMAIN b
    BY <1>8
  <2> HIDE DEF B2, B3
  <2> QED BY <1>1, <2>1 DEF Stream!Number
<1>12. Stream!Number(b) = n
  <2> DEFINE x == n % Base
             y == p % Base
             z == q % Base
  <2>1. /\ x \in Nat /\ y \in Nat /\ z \in Nat /\ r \in Nat
        /\ n = Base * p + x /\ p = Base * q + y /\ q = Base * r + z
    BY <1>2, <1>3
  <2>2. Stream!Number(b) = x * 1 + y * Base + z * B2 + r * B3
    BY <1>8, <1>9, <1>11
  <2> HIDE DEF x, y, z
  <2>3. Base * p = Base * (Base * q) + Base * y
    BY <1>2, <1>3, <2>1, Products
  <2>4. Base * (Base * q) = B2 * q /\ B2 * q = B2 * (Base * r) + B2 * z
    <3>1. Base * r \in Nat
      BY <1>2, <2>1, Products
    <3>2. Base * (Base * q) = B2 * q
      BY <1>2, <1>3, Products
    <3> HIDE DEF B2
    <3> QED BY <1>2, <2>1, <3>1, <3>2, Products
  <2>5. B2 * (Base * r) = B3 * r
    <3>1. B2 * (Base * r) = (B2 * Base) * r
      <4> HIDE DEF B2
      <4> QED BY <1>2, <2>1, Products
    <3>2. B2 * Base = B3
      <4> HIDE DEF B2
      <4> QED BY <1>2, Products
    <3> HIDE DEF B2, B3
    <3> QED BY <3>1, <3>2
  <2>6. x * 1 = x /\ y * Base = Base * y /\ z * B2 = B2 * z /\ r * B3 = B3 * r
        /\ Base * y \in Nat /\ B2 * z \in Nat /\ B3 * r \in Nat
    <3> HIDE DEF B2, B3
    <3> QED BY <1>2, <2>1, Products
  <2> HIDE DEF B2, B3
  <2> QED BY <2>1, <2>2, <2>3, <2>4, <2>5, <2>6
<1> QED BY <1>10, <1>12 DEF b

\* A stream has, from the place at on, what of w is left when it ends.
Has(bytes, at, w) == \A j \in 1..Len(w) : at + j <= Len(bytes) => bytes[at + j] = w[j]

\* A stream that has not failed.
Good(bytes, at) == [bytes |-> bytes, pos |-> at, failed |-> FALSE]

\* What reading up to a place gives: the value, or nothing if the stream ends before.
Outcome(bytes, end, value) ==
    IF end <= Len(bytes) THEN [value |-> value, stream |-> Good(bytes, end)]
    ELSE [value |-> Undefined, stream |-> [bytes |-> bytes, pos |-> Len(bytes), failed |-> TRUE]]

\* Reading as many bytes as w has reads w, or fails.
LEMMA BytesRead ==
    ASSUME NEW bytes \in Seq(Stream!Byte), NEW at \in 0..Len(bytes),
           NEW w \in Seq(Stream!Byte), Has(bytes, at, w)
    PROVE  Stream!ReadBytes(Good(bytes, at), Len(w)) = Outcome(bytes, at + Len(w), w)
<1> DEFINE n == Len(w)
           s == Good(bytes, at)
           part == SubSeq(bytes, at + 1, at + n)
<1>1. n \in Nat /\ Len(bytes) \in Nat /\ at \in Nat /\ DOMAIN w = 1..n
  OBVIOUS
<1>2. /\ s.bytes = bytes /\ s.pos = at /\ s.failed = FALSE
      /\ s = [bytes |-> bytes, pos |-> at, failed |-> FALSE]
  BY DEF Good
<1>3. Stream!Fits(s, n) <=> at + n <= Len(bytes)
  BY <1>2 DEF Stream!Fits
<1>4. CASE at + n <= Len(bytes)
  <2>1. part = w
    <3>1. \A j \in 1..n : bytes[at + j] = w[j]
      BY <1>1, <1>4 DEF Has
    <3>2. part \in Seq(Stream!Byte) /\ Len(part) = n /\ \A j \in 1..n : part[j] = bytes[at + j]
      <4> HIDE DEF n
      <4> QED BY <1>1, <1>4
    <3>3. /\ Len(part) = Len(w) /\ \A j \in 1..Len(part) : part[j] = w[j]
      BY <3>1, <3>2
    <3> HIDE DEF part
    <3> QED BY <3>2, <3>3, SeqEqual
  <2>2. Stream!Advance(s, n) = Good(bytes, at + n)
    <3>1. Stream!Advance(s, n) = [s EXCEPT !.pos = @ + n]
      BY <1>3, <1>4 DEF Stream!Advance
    <3> QED BY <1>2, <3>1 DEF Good
  <2>3. Stream!ReadBytes(s, n) = [value |-> part, stream |-> Stream!Advance(s, n)]
    BY <1>2, <1>3, <1>4 DEF Stream!ReadBytes
  <2> QED BY <1>4, <2>1, <2>2, <2>3 DEF Outcome
<1>5. CASE ~(at + n <= Len(bytes))
  <2>1. Stream!Advance(s, n) = [s EXCEPT !.pos = Len(s.bytes), !.failed = TRUE]
    BY <1>3, <1>5 DEF Stream!Advance
  <2>2. Stream!Advance(s, n) = [bytes |-> bytes, pos |-> Len(bytes), failed |-> TRUE]
    BY <1>2, <2>1
  <2>3. Stream!ReadBytes(s, n) = [value |-> Undefined, stream |-> Stream!Advance(s, n)]
    BY <1>3, <1>5 DEF Stream!ReadBytes
  <2> QED BY <1>5, <2>2, <2>3 DEF Outcome
<1> QED BY <1>4, <1>5

\* A stream that has two things one after the other.
LEMMA HasBoth ==
    ASSUME NEW bytes \in Seq(Stream!Byte), NEW at \in Nat, NEW v \in Seq(Stream!Byte),
           NEW w \in Seq(Stream!Byte)
    PROVE  /\ Has(bytes, at, v \o w) <=> Has(bytes, at, v) /\ Has(bytes, at + Len(v), w)
           /\ Len(v \o w) = Len(v) + Len(w) /\ v \o w \in Seq(Stream!Byte)
<1> DEFINE m == Len(v)
           n == Len(w)
           u == v \o w
<1>1. m \in Nat /\ n \in Nat /\ Len(u) = m + n /\ Len(bytes) \in Nat /\ u \in Seq(Stream!Byte)
  OBVIOUS
<1>2. (\A j \in 1..m : u[j] = v[j]) /\ (\A j \in 1..n : u[m + j] = w[j])
  OBVIOUS
<1> HIDE DEF u
<1>3. Has(bytes, at, u) => Has(bytes, at, v)
  BY <1>1, <1>2 DEF Has
<1>4. ASSUME Has(bytes, at, u) PROVE Has(bytes, at + m, w)
  <2> SUFFICES ASSUME NEW j \in 1..n, (at + m) + j <= Len(bytes) PROVE bytes[(at + m) + j] = w[j]
    BY DEF Has
  <2>1. m + j \in 1..(m + n) /\ at + (m + j) <= Len(bytes) /\ at + (m + j) = (at + m) + j
    BY <1>1
  <2>2. bytes[at + (m + j)] = u[m + j]
    BY <1>1, <1>4, <2>1 DEF Has
  <2> QED BY <1>2, <2>1, <2>2
<1>5. ASSUME Has(bytes, at, v), Has(bytes, at + m, w) PROVE Has(bytes, at, u)
  <2> SUFFICES ASSUME NEW j \in 1..(m + n), at + j <= Len(bytes) PROVE bytes[at + j] = u[j]
    BY <1>1 DEF Has
  <2>1. CASE j <= m
    <3>1. j \in 1..m
      BY <1>1, <2>1
    <3> QED BY <1>2, <1>5, <3>1 DEF Has
  <2>2. CASE j > m
    <3>1. j - m \in 1..n /\ (at + m) + (j - m) = at + j /\ m + (j - m) = j
      BY <1>1, <2>2
    <3>2. bytes[(at + m) + (j - m)] = w[j - m]
      BY <1>5, <3>1 DEF Has
    <3>3. u[m + (j - m)] = w[j - m]
      BY <1>2, <3>1
    <3> QED BY <3>1, <3>2, <3>3
  <2> QED BY <1>1, <2>1, <2>2
<1> QED BY <1>1, <1>3, <1>4, <1>5 DEF u

\* A length and a body after it are read, or the reading fails where they end.
LEMMA StringRead ==
    ASSUME NEW bytes \in Seq(Stream!Byte), NEW at \in 0..Len(bytes),
           NEW v \in Seq(Stream!Byte), NEW w \in Seq(Stream!Byte), Has(bytes, at, v \o w),
           NEW size \in Nat, Stream!Number(v) * size = Len(w)
    PROVE  Stream!ReadString(Good(bytes, at), Len(v), size)
               = Outcome(bytes, at + Len(v \o w), w)
<1> DEFINE s == Good(bytes, at)
           length == Stream!ReadBytes(s, Len(v))
           read == Stream!ReadString(s, Len(v), size)
<1>1. Len(v) \in Nat /\ Len(w) \in Nat /\ at \in Nat /\ Len(bytes) \in Nat
      /\ Len(v \o w) = Len(v) + Len(w)
  OBVIOUS
<1>2. Has(bytes, at, v) /\ Has(bytes, at + Len(v), w)
  BY <1>1, HasBoth
<1>3. read = IF length.value = Undefined THEN length
             ELSE Stream!ReadBytes(length.stream, Stream!Number(length.value) * size)
  BY DEF Stream!ReadString
<1>4. v # Undefined
  BY GatewayClientAssumption DEF Stream!NodeClientConstants
<1>5. length = Outcome(bytes, at + Len(v), v)
  BY <1>2, BytesRead
<1> HIDE DEF length, read
<1>6. CASE at + Len(v) <= Len(bytes)
  <2>1. length.value = v /\ length.stream = Good(bytes, at + Len(v))
    BY <1>5, <1>6 DEF Outcome
  <2>2. read = Stream!ReadBytes(Good(bytes, at + Len(v)), Len(w))
    BY <1>3, <1>4, <2>1
  <2>3. at + Len(v) \in 0..Len(bytes) /\ (at + Len(v)) + Len(w) = at + Len(v \o w)
    BY <1>1, <1>6
  <2>4. Stream!ReadBytes(Good(bytes, at + Len(v)), Len(w))
            = Outcome(bytes, (at + Len(v)) + Len(w), w)
    BY <1>2, <2>3, BytesRead
  <2> QED BY <2>2, <2>3, <2>4 DEF read
<1>7. CASE ~(at + Len(v) <= Len(bytes))
  <2>1. length.value = Undefined
    BY <1>5, <1>7 DEF Outcome
  <2>2. ~(at + Len(v \o w) <= Len(bytes))
    BY <1>1, <1>7
  <2>3. length = Outcome(bytes, at + Len(v \o w), w)
    BY <1>5, <1>7, <2>2 DEF Outcome
  <2> QED BY <1>3, <2>1, <2>3 DEF read
<1> QED BY <1>6, <1>7

\* Two sequences joined.
LEMMA JoinedAt ==
    ASSUME NEW A, NEW v \in Seq(A), NEW w \in Seq(A)
    PROVE  /\ v \o w \in Seq(A) /\ Len(v \o w) = Len(v) + Len(w)
           /\ \A j \in 1..Len(v) : (v \o w)[j] = v[j]
           /\ \A j \in 1..Len(w) : (v \o w)[Len(v) + j] = w[j]
  OBVIOUS

\* A pair more.
LEMMA PairAdded ==
    ASSUME NEW A, NEW x \in Seq(A), NEW y \in Seq(A)
    PROVE  Len(y) = 2 =>
              /\ Len(x \o y) = Len(x) + 2
              /\ \A j \in 1..Len(x) : (x \o y)[j] = x[j]
              /\ (x \o y)[Len(x) + 1] = y[1] /\ (x \o y)[Len(x) + 2] = y[2]
<1>1. Len(x \o y) = Len(x) + Len(y) /\ \A j \in 1..Len(x) : (x \o y)[j] = x[j]
  BY JoinedAt
<1>2. \A j \in 1..Len(y) : (x \o y)[Len(x) + j] = y[j]
  BY JoinedAt
<1>3. ASSUME Len(y) = 2 PROVE (x \o y)[Len(x) + 1] = y[1] /\ (x \o y)[Len(x) + 2] = y[2]
  <2> DEFINE u == x \o y
             n == Len(x)
             l == Len(y)
  <2>1. \A j \in 1..l : u[n + j] = y[j]
    BY <1>2
  <2>2. l = 2
    BY <1>3
  <2> HIDE DEF u, n, l
  <2>3. 1 \in 1..l /\ 2 \in 1..l
    BY <2>2
  <2>4. u[n + 1] = y[1] /\ u[n + 2] = y[2]
    BY <2>1, <2>3
  <2> QED BY <2>4 DEF u, n
<1> QED BY <1>1, <1>3

\* The units of a u16string as bytes: two for each, from which it is read again.
LEMMA UnitsRead ==
    ASSUME NEW s \in Seq(Stream!Word)
    PROVE  LET u == Stream!FlattenSeq([i \in DOMAIN s |-> Stream!Bytes(s[i], 2)])
           IN  /\ u \in Seq(Stream!Byte) /\ Len(u) = 2 * Len(s)
               /\ [i \in 1..(Len(u) \div 2) |-> Stream!Number(SubSeq(u, 2 * i - 1, 2 * i))] = s
<1> DEFINE seqs == [i \in DOMAIN s |-> Stream!Bytes(s[i], 2)]
           u == Stream!FlattenSeq(seqs)
           L == Len(s)
           S == Seq(Stream!Byte)
<1>1. L \in Nat /\ DOMAIN s = 1..L /\ \A i \in 1..L : s[i] \in Stream!Word
  OBVIOUS
<1>2. seqs \in Seq(S) /\ Len(seqs) = L /\ \A i \in 1..L : seqs[i] = Stream!Bytes(s[i], 2)
  <2>1. \A i \in 1..L : Stream!Bytes(s[i], 2) \in S
    BY <1>1, NumberOfTwo
  <2> QED BY <1>1, <2>1
<1>3. \A i \in 1..L : seqs[i] \in S /\ Len(seqs[i]) = 2 /\ Stream!Number(seqs[i]) = s[i]
  BY <1>1, <1>2, NumberOfTwo
<1> HIDE DEF seqs
<1>4. /\ u \in S /\ Len(u) = 2 * L
      /\ \A i \in 1..L : u[2 * i - 1] = seqs[i][1] /\ u[2 * i] = seqs[i][2]
  <2>1. CASE L = 0
    <3>1. u = <<>>
      BY <1>2, <2>1 DEF Stream!FlattenSeq
    <3>2. <<>> \in S /\ Len(<<>>) = 0 /\ 1..0 = {}
      OBVIOUS
    <3> HIDE DEF u, L, S
    <3> QED BY <2>1, <3>1, <3>2
  <2>2. CASE L # 0
    <3>1. PICK f : Flattens(f, seqs, Stream!Byte)
      <4>1. seqs # <<>>
        BY <1>2, <2>2
      <4> QED BY <1>2, <4>1, FlattenIs
    <3>2. /\ f \in [0..L -> S] /\ f[0] = <<>> /\ u = f[L]
          /\ \A m \in 1..L : f[m] = f[m - 1] \o seqs[m]
      BY <1>2, <3>1 DEF Flattens
    <3> DEFINE Q(m) == /\ Len(f[m]) = 2 * m
                       /\ \A i \in 1..m : f[m][2 * i - 1] = seqs[i][1] /\ f[m][2 * i] = seqs[i][2]
               T == {m \in Nat : m <= L => Q(m)}
    <3>3. 0 \in T
      BY <3>2
    <3>4. ASSUME NEW m \in T PROVE m + 1 \in T
      <4>1. m \in Nat
        BY <3>4
      <4>2. ASSUME m + 1 <= L PROVE Q(m + 1)
        <5>1. /\ m + 1 \in 1..L /\ (m + 1) - 1 = m /\ m \in 0..L /\ m <= L
          BY <1>1, <4>1, <4>2
        <5>2. Q(m)
          BY <3>4, <5>1
        <5>3. f[m] \in S /\ seqs[m + 1] \in S /\ Len(seqs[m + 1]) = 2
          BY <1>3, <3>2, <5>1
        <5>4. f[m + 1] = f[m] \o seqs[m + 1]
          <6>1. f[m + 1] = f[(m + 1) - 1] \o seqs[m + 1]
            BY <3>2, <5>1
          <6> QED BY <5>1, <6>1
        <5> DEFINE x == f[m]
                   y == seqs[m + 1]
        <5>5. Len(x) = 2 * m /\ Len(y) = 2 /\ x \in S /\ y \in S
          BY <5>2, <5>3
        <5> HIDE DEF x, y
        <5>6. /\ Len(x \o y) = 2 * (m + 1)
              /\ \A j \in 1..(2 * m) : (x \o y)[j] = x[j]
              /\ (x \o y)[2 * m + 1] = y[1] /\ (x \o y)[2 * m + 2] = y[2]
          <6> DEFINE n == 2 * m
          <6>1. n = Len(x) /\ n + 2 = 2 * (m + 1)
            BY <4>1, <5>5
          <6> HIDE DEF n
          <6>2. /\ Len(x \o y) = n + 2 /\ \A j \in 1..n : (x \o y)[j] = x[j]
                /\ (x \o y)[n + 1] = y[1] /\ (x \o y)[n + 2] = y[2]
            <7>1. /\ Len(x \o y) = Len(x) + 2 /\ \A j \in 1..Len(x) : (x \o y)[j] = x[j]
                  /\ (x \o y)[Len(x) + 1] = y[1] /\ (x \o y)[Len(x) + 2] = y[2]
              BY <5>5, PairAdded
            <7> QED BY <6>1, <7>1
          <6> QED BY <6>1, <6>2 DEF n
        <5>7. \A i \in 1..m : (x \o y)[2 * i - 1] = x[2 * i - 1] /\ (x \o y)[2 * i] = x[2 * i]
          <6>1. \A i \in 1..m : 2 * i - 1 \in 1..(2 * m) /\ 2 * i \in 1..(2 * m)
            BY <4>1
          <6> QED BY <5>6, <6>1
        <5>8. ASSUME NEW i \in 1..(m + 1)
              PROVE  (x \o y)[2 * i - 1] = seqs[i][1] /\ (x \o y)[2 * i] = seqs[i][2]
          <6>1. CASE i \in 1..m
            <7>1. x[2 * i - 1] = seqs[i][1] /\ x[2 * i] = seqs[i][2]
              BY <5>2, <6>1 DEF x
            <7> QED BY <5>7, <6>1, <7>1
          <6>2. CASE i = m + 1
            <7>1. 2 * i - 1 = 2 * m + 1 /\ 2 * i = 2 * m + 2
              BY <4>1, <6>2
            <7>2. y = seqs[i]
              BY <6>2 DEF y
            <7> QED BY <5>6, <7>1, <7>2
          <6>3. i \in 1..m \/ i = m + 1
            BY <4>1
          <6> QED BY <6>1, <6>2, <6>3
        <5>9. f[m + 1] = x \o y
          BY <5>4 DEF x, y
        <5> QED BY <5>6, <5>8, <5>9
      <4> QED BY <4>1, <4>2
    <3>5. T = Nat
      <4>1. T \in SUBSET Nat
        OBVIOUS
      <4> HIDE DEF T
      <4> QED BY <3>3, <3>4, <4>1, InductionIn
    <3>6. Q(L)
      <4>1. L \in T
        BY <1>1, <3>5
      <4> QED BY <1>1, <4>1
    <3>7. f[L] \in S
      BY <1>1, <3>2
    <3> HIDE DEF L, u
    <3> QED BY <3>2, <3>6, <3>7
  <2> QED BY <2>1, <2>2
<1> HIDE DEF u
<1>5. ASSUME NEW i \in 1..L PROVE Stream!Number(SubSeq(u, 2 * i - 1, 2 * i)) = s[i]
  <2>1. 2 * i - 1 \in 1..Len(u) /\ 2 * i \in 1..Len(u) /\ i \in Nat
    BY <1>1, <1>4
  <2> DEFINE p == SubSeq(u, 2 * i - 1, 2 * i)
  <2>2. p \in S /\ Len(p) = 2 /\ p[1] = u[2 * i - 1] /\ p[2] = u[2 * i]
    BY <1>4, <2>1
  <2> DEFINE y == seqs[i]
  <2>3. y \in S /\ Len(y) = 2 /\ p[1] = y[1] /\ p[2] = y[2]
    BY <1>3, <1>4, <2>2
  <2> HIDE DEF p, y
  <2>4. p = y
    <3>1. p = [j \in 1..2 |-> p[j]] /\ y = [j \in 1..2 |-> y[j]]
      BY <2>2, <2>3
    <3>2. \A j \in 1..2 : j = 1 \/ j = 2
      OBVIOUS
    <3> QED BY <2>3, <3>1, <3>2
  <2>5. Stream!Number(y) = s[i]
    BY <1>3 DEF y
  <2> QED BY <2>4, <2>5 DEF p
<1>6. Len(u) \div 2 = L
  <2> HIDE DEF L
  <2>1. (2 * L) \div 2 = L
    BY <1>1
  <2> QED BY <1>4, <2>1
<1>7. [i \in 1..(Len(u) \div 2) |-> Stream!Number(SubSeq(u, 2 * i - 1, 2 * i))] = s
  <2>1. s = [i \in 1..L |-> s[i]]
    BY <1>1
  <2> HIDE DEF L
  <2>2. [i \in 1..L |-> Stream!Number(SubSeq(u, 2 * i - 1, 2 * i))] = [i \in 1..L |-> s[i]]
    BY <1>5
  <2> QED BY <1>6, <2>1, <2>2
<1> QED BY <1>4, <1>7 DEF u, seqs, L

\* A field is of one of five kinds, and is written and kept accordingly.
LEMMA FieldKinds ==
    ASSUME NEW field \in Stream!Field
    PROVE  \/ /\ field.kind = "bool" /\ field.value \in BOOLEAN
              /\ Stream!Kept(field) = field.value
              /\ Stream!Write(field) = <<IF field.value THEN 1 ELSE 0>>
           \/ /\ field.kind = "uint16" /\ field.value \in Stream!Word
              /\ Stream!Kept(field) = field.value
              /\ Stream!Write(field) = Stream!Bytes(field.value, 2)
           \/ /\ field.kind = "uint32" /\ field.value \in 0..(Base * Stream!Weight[4] - 1)
              /\ Stream!Kept(field) = field.value
              /\ Stream!Write(field) = Stream!Bytes(field.value, 4)
           \/ /\ field.kind = "string" /\ field.value \in Seq(Stream!Byte)
              /\ Stream!Kept(field) = SubSeq(field.value, 1, Len(field.value) % Stream!Weight[3])
              /\ Stream!Write(field) = Stream!WriteString(field.value)
           \/ /\ field.kind = "u16string" /\ field.value \in Seq(Stream!Word)
              /\ Len(field.value) < Base * Stream!Weight[4]
              /\ Stream!Kept(field) = field.value
              /\ Stream!Write(field) = Stream!WriteWideString(field.value)
<1>1. CASE field \in [kind : {"bool"}, value : BOOLEAN]
  BY <1>1 DEF Stream!Kept, Stream!Write
<1>2. CASE field \in [kind : {"uint16"}, value : Stream!Word]
  BY <1>2 DEF Stream!Kept, Stream!Write
<1>3. CASE field \in [kind : {"uint32"}, value : 0..(Base * Stream!Weight[4] - 1)]
  BY <1>3 DEF Stream!Kept, Stream!Write
<1>4. CASE field \in [kind : {"string"}, value : Seq(Stream!Byte)]
  BY <1>4 DEF Stream!Kept, Stream!Write
<1>5. CASE field \in [kind : {"u16string"},
                      value : {s \in Seq(Stream!Word) : Len(s) < Base * Stream!Weight[4]}]
  BY <1>5 DEF Stream!Kept, Stream!Write
<1> QED BY <1>1, <1>2, <1>3, <1>4, <1>5 DEF Stream!Field

\* A string is written as a length and a body.
LEMMA StringWritten ==
    ASSUME NEW s \in Seq(Stream!Byte)
    PROVE  LET n == Len(s) % Stream!Weight[3]
               v == Stream!Bytes(n, 2)
               w == SubSeq(s, 1, n)
           IN  /\ Stream!WriteString(s) = v \o w /\ v \in Seq(Stream!Byte) /\ Len(v) = 2
               /\ w \in Seq(Stream!Byte) /\ Stream!Number(v) * 1 = Len(w)
<1> DEFINE n == Len(s) % Stream!Weight[3]
           v == Stream!Bytes(n, 2)
           w == SubSeq(s, 1, n)
<1>1. Stream!Weight[3] = Base * Base /\ Base * Base \in Nat \ {0}
  BY BaseIs DEF Stream!Weight
<1>2. n \in Stream!Word /\ n \in 0..Len(s)
  <2> DEFINE d == Base * Base
             l == Len(s)
  <2>1. d \in Nat \ {0} /\ n = l % d /\ l \in Nat
    BY <1>1
  <2> HIDE DEF d, n, l
  <2>2. n \in 0..(d - 1) /\ n \in 0..l
    BY <2>1
  <2> QED BY <2>2 DEF Stream!Word, d, l
<1>3. v \in Seq(Stream!Byte) /\ Len(v) = 2 /\ Stream!Number(v) = n
  BY <1>2, NumberOfTwo
<1> HIDE DEF n
<1>4. w \in Seq(Stream!Byte) /\ Len(w) = n
  BY <1>2
<1>5. Stream!WriteString(s) = v \o w
  BY DEF Stream!WriteString, n
<1>6. n * 1 = n
  BY <1>2
<1> QED BY <1>3, <1>4, <1>5, <1>6 DEF n

\* A u16string likewise.
LEMMA WideStringWritten ==
    ASSUME NEW s \in Seq(Stream!Word), Len(s) < Base * Stream!Weight[4]
    PROVE  LET v == Stream!Bytes(Len(s), 4)
               w == Stream!FlattenSeq([i \in DOMAIN s |-> Stream!Bytes(s[i], 2)])
           IN  /\ Stream!WriteWideString(s) = v \o w /\ v \in Seq(Stream!Byte) /\ Len(v) = 4
               /\ w \in Seq(Stream!Byte) /\ Stream!Number(v) * 2 = Len(w)
               /\ [i \in 1..(Len(w) \div 2) |-> Stream!Number(SubSeq(w, 2 * i - 1, 2 * i))] = s
<1> DEFINE v == Stream!Bytes(Len(s), 4)
           w == Stream!FlattenSeq([i \in DOMAIN s |-> Stream!Bytes(s[i], 2)])
<1>1. Stream!WriteWideString(s) = v \o w
  BY DEF Stream!WriteWideString
<1>2. Len(s) \in 0..(Base * Stream!Weight[4] - 1)
  <2>1. Base * Stream!Weight[4] \in Nat
    <3>1. Stream!Weight[4] = Base * (Base * Base)
      BY DEF Stream!Weight
    <3>2. Base \in Nat /\ Base * Base \in Nat
      BY BaseIs
    <3>3. Base * (Base * Base) \in Nat
      BY <3>2, Products
    <3> HIDE DEF v, w
    <3> QED BY <3>1, <3>2, <3>3, Products
  <2> QED BY <2>1
<1>3. v \in Seq(Stream!Byte) /\ Len(v) = 4 /\ Stream!Number(v) = Len(s)
  BY <1>2, NumberOfFour
<1>4. /\ w \in Seq(Stream!Byte) /\ Len(w) = 2 * Len(s)
      /\ [i \in 1..(Len(w) \div 2) |-> Stream!Number(SubSeq(w, 2 * i - 1, 2 * i))] = s
  BY UnitsRead
<1> HIDE DEF v, w
<1>5. Stream!Number(v) * 2 = Len(w)
  BY <1>3, <1>4
<1> QED BY <1>1, <1>3, <1>4, <1>5 DEF v, w

\* A field is written as bytes.
LEMMA FieldWritten ==
    ASSUME NEW field \in Stream!Field
    PROVE  Stream!Write(field) \in Seq(Stream!Byte)
<1>1. CASE field.value \in BOOLEAN /\ Stream!Write(field) = <<IF field.value THEN 1 ELSE 0>>
  <2>1. 0 \in Stream!Byte /\ 1 \in Stream!Byte
    BY BaseIs DEF Stream!Byte
  <2> QED BY <1>1, <2>1
<1>2. CASE field.value \in Stream!Word /\ Stream!Write(field) = Stream!Bytes(field.value, 2)
  BY <1>2, NumberOfTwo
<1>3. CASE /\ field.value \in 0..(Base * Stream!Weight[4] - 1)
           /\ Stream!Write(field) = Stream!Bytes(field.value, 4)
  BY <1>3, NumberOfFour
<1>4. CASE /\ field.value \in Seq(Stream!Byte)
           /\ Stream!Write(field) = Stream!WriteString(field.value)
  <2> DEFINE n == Len(field.value) % Stream!Weight[3]
             v == Stream!Bytes(n, 2)
             w == SubSeq(field.value, 1, n)
  <2>1. /\ Stream!WriteString(field.value) = v \o w
        /\ v \in Seq(Stream!Byte) /\ w \in Seq(Stream!Byte)
    BY <1>4, StringWritten
  <2> HIDE DEF v, w
  <2> QED BY <1>4, <2>1
<1>5. CASE /\ field.value \in Seq(Stream!Word) /\ Len(field.value) < Base * Stream!Weight[4]
           /\ Stream!Write(field) = Stream!WriteWideString(field.value)
  <2> DEFINE s == field.value
             v == Stream!Bytes(Len(s), 4)
             w == Stream!FlattenSeq([i \in DOMAIN s |-> Stream!Bytes(s[i], 2)])
  <2>1. /\ s \in Seq(Stream!Word) /\ Len(s) < Base * Stream!Weight[4]
        /\ Stream!Write(field) = Stream!WriteWideString(s)
    BY <1>5
  <2> HIDE DEF s
  <2>2. Stream!WriteWideString(s) = v \o w /\ v \in Seq(Stream!Byte) /\ w \in Seq(Stream!Byte)
    BY <2>1, WideStringWritten
  <2> HIDE DEF v, w
  <2> QED BY <2>1, <2>2
<1> QED BY <1>1, <1>2, <1>3, <1>4, <1>5, FieldKinds

\* A field that is wholly there is read as what is kept of it; nothing is read of
\* one that is not.
LEMMA FieldRead ==
    ASSUME NEW field \in Stream!Field, NEW bytes \in Seq(Stream!Byte), NEW at \in 0..Len(bytes),
           Has(bytes, at, Stream!Write(field))
    PROVE  Stream!ReadField(Good(bytes, at), field.kind)
               = Outcome(bytes, at + Len(Stream!Write(field)), Stream!Kept(field))
<1> DEFINE s == Good(bytes, at)
           end == at + Len(Stream!Write(field))
           kept == Stream!Kept(field)
           kind == field.kind
<1> SUFFICES \E w \in Seq(Stream!Byte) :
                 Stream!ReadKind(s, kind) = Outcome(bytes, end, w) /\ Stream!Made(w, kind) = kept
  <2>1. PICK w \in Seq(Stream!Byte) :
            Stream!ReadKind(s, kind) = Outcome(bytes, end, w) /\ Stream!Made(w, kind) = kept
    OBVIOUS
  <2>2. w # Undefined
    BY GatewayClientAssumption DEF Stream!NodeClientConstants
  <2> DEFINE read == Stream!ReadKind(s, kind)
  <2>3. Stream!ReadField(s, kind)
            = [value |-> IF read.value = Undefined THEN Undefined
                         ELSE Stream!Made(read.value, kind),
               stream |-> read.stream]
    BY DEF Stream!ReadField
  <2>4. read = Outcome(bytes, end, w)
    BY <2>1
  <2>5. Stream!ReadField(s, kind) = Outcome(bytes, end, kept)
    <3> HIDE DEF s, end, kept, kind, read
    <3> QED BY <2>1, <2>2, <2>3, <2>4 DEF Outcome
  <2> QED BY <2>5
<1>1. CASE /\ kind = "bool" /\ field.value \in BOOLEAN /\ kept = field.value
           /\ Stream!Write(field) = <<IF field.value THEN 1 ELSE 0>>
  <2> DEFINE w == Stream!Write(field)
  <2>1. w \in Seq(Stream!Byte) /\ Len(w) = 1
    BY <1>1, FieldWritten
  <2>2. Stream!ReadKind(s, kind) = Outcome(bytes, end, w)
    BY <1>1, <2>1, BytesRead DEF Stream!ReadKind
  <2>3. Stream!Made(w, kind) = (w[1] # 0)
    BY <1>1 DEF Stream!Made
  <2>4. CASE field.value = TRUE
    <3>1. w[1] # 0 /\ kept = TRUE
      BY <1>1, <2>4
    <3>2. Stream!Made(w, kind) = kept
      <4> HIDE DEF w, kept, kind
      <4> QED BY <2>3, <3>1, Zenon
    <3> QED BY <2>1, <2>2, <3>2
  <2>5. CASE field.value = FALSE
    <3>1. ~(w[1] # 0) /\ kept = FALSE
      BY <1>1, <2>5
    <3>2. Stream!Made(w, kind) = kept
      <4> HIDE DEF w, kept, kind
      <4> QED BY <2>3, <3>1, Zenon
    <3> QED BY <2>1, <2>2, <3>2
  <2> QED BY <1>1, <2>4, <2>5
<1>2. CASE /\ kind = "uint16" /\ field.value \in Stream!Word /\ kept = field.value
           /\ Stream!Write(field) = Stream!Bytes(field.value, 2)
  <2> DEFINE w == Stream!Bytes(field.value, 2)
  <2>1. w \in Seq(Stream!Byte) /\ Len(w) = 2 /\ Stream!Number(w) = field.value
    BY <1>2, NumberOfTwo
  <2>2. Stream!ReadBytes(s, 2) = Outcome(bytes, end, w)
    BY <1>2, <2>1, BytesRead
  <2> HIDE DEF w, s, end, kept, kind
  <2> QED BY <1>2, <2>1, <2>2 DEF Stream!ReadKind, Stream!Made
<1>3. CASE /\ kind = "uint32" /\ field.value \in 0..(Base * Stream!Weight[4] - 1)
           /\ kept = field.value /\ Stream!Write(field) = Stream!Bytes(field.value, 4)
  <2> DEFINE w == Stream!Bytes(field.value, 4)
  <2>1. w \in Seq(Stream!Byte) /\ Len(w) = 4 /\ Stream!Number(w) = field.value
    BY <1>3, NumberOfFour
  <2>2. Stream!ReadBytes(s, 4) = Outcome(bytes, end, w)
    BY <1>3, <2>1, BytesRead
  <2> HIDE DEF w, s, end, kept, kind
  <2> QED BY <1>3, <2>1, <2>2 DEF Stream!ReadKind, Stream!Made
<1>4. CASE /\ kind = "string" /\ field.value \in Seq(Stream!Byte)
           /\ kept = SubSeq(field.value, 1, Len(field.value) % Stream!Weight[3])
           /\ Stream!Write(field) = Stream!WriteString(field.value)
  <2> DEFINE x == field.value
             n == Len(x) % Stream!Weight[3]
             v == Stream!Bytes(n, 2)
             w == SubSeq(x, 1, n)
  <2>1. x \in Seq(Stream!Byte) /\ Stream!Write(field) = Stream!WriteString(x) /\ kept = w
    BY <1>4
  <2> HIDE DEF x
  <2>2. /\ Stream!WriteString(x) = v \o w /\ v \in Seq(Stream!Byte) /\ Len(v) = 2
        /\ w \in Seq(Stream!Byte) /\ Stream!Number(v) * 1 = Len(w)
    BY <2>1, StringWritten
  <2> HIDE DEF v, w
  <2>3. Stream!ReadString(s, 2, 1) = Outcome(bytes, end, w)
    <3>1. Has(bytes, at, v \o w) /\ end = at + Len(v \o w)
      BY <2>1, <2>2
    <3>2. Stream!ReadString(s, Len(v), 1) = Outcome(bytes, at + Len(v \o w), w)
      <4> DEFINE size == 1
      <4>1. size \in Nat /\ Stream!Number(v) * size = Len(w)
        BY <2>2
      <4> HIDE DEF size
      <4>2. Stream!ReadString(Good(bytes, at), Len(v), size) = Outcome(bytes, at + Len(v \o w), w)
        <5>1. v \in Seq(Stream!Byte) /\ w \in Seq(Stream!Byte) /\ Has(bytes, at, v \o w)
          BY <2>2, <3>1
        <5> QED BY <4>1, <5>1, StringRead
      <4> QED BY <4>2 DEF size
    <3> HIDE DEF end, s
    <3> QED BY <2>2, <3>1, <3>2
  <2> HIDE DEF s, end, kept, kind
  <2> QED BY <1>4, <2>1, <2>2, <2>3 DEF Stream!ReadKind, Stream!Made
<1>5. CASE /\ kind = "u16string" /\ field.value \in Seq(Stream!Word)
           /\ Len(field.value) < Base * Stream!Weight[4] /\ kept = field.value
           /\ Stream!Write(field) = Stream!WriteWideString(field.value)
  <2> DEFINE x == field.value
             v == Stream!Bytes(Len(x), 4)
             w == Stream!FlattenSeq([i \in DOMAIN x |-> Stream!Bytes(x[i], 2)])
  <2>1. /\ x \in Seq(Stream!Word) /\ Len(x) < Base * Stream!Weight[4] /\ kept = x
        /\ Stream!Write(field) = Stream!WriteWideString(x)
    BY <1>5
  <2> HIDE DEF x
  <2>2. /\ Stream!WriteWideString(x) = v \o w /\ v \in Seq(Stream!Byte) /\ Len(v) = 4
        /\ w \in Seq(Stream!Byte) /\ Stream!Number(v) * 2 = Len(w)
        /\ [i \in 1..(Len(w) \div 2) |-> Stream!Number(SubSeq(w, 2 * i - 1, 2 * i))] = x
    BY <2>1, WideStringWritten
  <2> HIDE DEF v, w
  <2>3. Stream!ReadString(s, 4, 2) = Outcome(bytes, end, w)
    <3>1. Has(bytes, at, v \o w) /\ end = at + Len(v \o w)
      BY <2>1, <2>2
    <3>2. Stream!ReadString(s, Len(v), 2) = Outcome(bytes, at + Len(v \o w), w)
      <4> DEFINE size == 2
      <4>1. size \in Nat /\ Stream!Number(v) * size = Len(w)
        BY <2>2
      <4> HIDE DEF size
      <4>2. Stream!ReadString(Good(bytes, at), Len(v), size) = Outcome(bytes, at + Len(v \o w), w)
        <5>1. v \in Seq(Stream!Byte) /\ w \in Seq(Stream!Byte)
          BY <2>2
        <5> QED BY <3>1, <4>1, <5>1, StringRead
      <4> QED BY <4>2 DEF size
    <3> HIDE DEF end, s
    <3> QED BY <2>2, <3>1, <3>2
  <2>4. Stream!Made(w, kind)
            = [i \in 1..(Len(w) \div 2) |-> Stream!Number(SubSeq(w, 2 * i - 1, 2 * i))]
    BY <1>5 DEF Stream!Made
  <2>5. Stream!ReadKind(s, kind) = Stream!ReadString(s, 4, 2)
    BY <1>5 DEF Stream!ReadKind
  <2> HIDE DEF s, end, kept, kind
  <2> QED BY <2>1, <2>2, <2>3, <2>4, <2>5
<1> QED BY <1>1, <1>2, <1>3, <1>4, <1>5, FieldKinds

\* What the first k fields of a message are written as.
Begun(m, k) == Stream!WriteAll(SubSeq(m, 1, k))

\* Each field is written after those before it.
LEMMA BegunNext ==
    ASSUME NEW m \in Seq(Stream!Field)
    PROVE  /\ Begun(m, 0) = <<>> /\ Begun(m, Len(m)) = Stream!WriteAll(m)
           /\ \A k \in 0..Len(m) : Begun(m, k) \in Seq(Stream!Byte)
           /\ \A k \in 1..Len(m) : Begun(m, k) = Begun(m, k - 1) \o Stream!Write(m[k])
<1> DEFINE S == Seq(Stream!Byte)
           U(k) == [j \in 1..k |-> Stream!Write(m[j])]
<1>1. Len(m) \in Nat /\ \A j \in 1..Len(m) : m[j] \in Stream!Field /\ Stream!Write(m[j]) \in S
  BY FieldWritten
<1>2. ASSUME NEW k \in 0..Len(m) PROVE Begun(m, k) = Stream!FlattenSeq(U(k)) /\ U(k) \in Seq(S)
  <2> DEFINE p == SubSeq(m, 1, k)
  <2>1. DOMAIN p = 1..k /\ \A j \in 1..k : p[j] = m[j]
    BY <1>1
  <2>2. Begun(m, k) = Stream!FlattenSeq([j \in DOMAIN p |-> Stream!Write(p[j])])
    BY DEF Begun, Stream!WriteAll
  <2> HIDE DEF p, S
  <2>3. [j \in DOMAIN p |-> Stream!Write(p[j])] = U(k)
    BY <2>1
  <2>4. U(k) \in Seq(S)
    BY <1>1
  <2> QED BY <2>2, <2>3, <2>4
<1>3. Begun(m, 0) = <<>>
  <2>1. Begun(m, 0) = Stream!FlattenSeq(U(0)) /\ Len(U(0)) = 0 /\ U(0) = <<>>
    <3>1. 0 \in 0..Len(m)
      BY <1>1
    <3>2. Begun(m, 0) = Stream!FlattenSeq(U(0))
      <4> HIDE DEF U
      <4> QED BY <1>2, <3>1
    <3>3. Len(U(0)) = 0 /\ U(0) = <<>>
      OBVIOUS
    <3> QED BY <3>2, <3>3
  <2> HIDE DEF U
  <2> QED BY <2>1 DEF Stream!FlattenSeq
<1>4. \A k \in 0..Len(m) : Begun(m, k) \in S
  <2> SUFFICES ASSUME NEW k \in 0..Len(m) PROVE Begun(m, k) \in S
    OBVIOUS
  <2>1. U(k) \in Seq(S) /\ <<>> \in S
    <3>1. <<>> \in S
      OBVIOUS
    <3> HIDE DEF U, S
    <3> QED BY <1>2, <3>1
  <2>2. Stream!FlattenSeq(U(k)) \in S
    <3> HIDE DEF U
    <3> QED BY <2>1, FlattenMore
  <2> QED BY <1>2, <2>2
<1>5. ASSUME NEW k \in 1..Len(m) PROVE Begun(m, k) = Begun(m, k - 1) \o Stream!Write(m[k])
  <2>1. k - 1 \in 0..Len(m) /\ k \in 0..Len(m) /\ k \in Nat
    BY <1>1
  <2>2. U(k) = Append(U(k - 1), Stream!Write(m[k]))
    <3> DEFINE x == U(k - 1)
               y == Append(x, Stream!Write(m[k]))
    <3>1. x \in Seq(S) /\ Len(x) = k - 1 /\ \A j \in 1..(k - 1) : x[j] = Stream!Write(m[j])
      <4>1. x \in Seq(S)
        <5> HIDE DEF U, S
        <5> QED BY <1>2, <2>1
      <4>2. Len(x) = k - 1 /\ \A j \in 1..(k - 1) : x[j] = Stream!Write(m[j])
        BY <2>1
      <4> QED BY <4>1, <4>2
    <3>2. Stream!Write(m[k]) \in S
      BY <1>1
    <3> HIDE DEF x, S
    <3>3. y \in Seq(S) /\ Len(y) = k /\ y[k] = Stream!Write(m[k])
      BY <2>1, <3>1, <3>2
    <3>4. \A j \in 1..(k - 1) : y[j] = x[j]
      BY <2>1, <3>1, <3>2
    <3>5. y = [j \in 1..k |-> y[j]]
      BY <3>3
    <3>6. ASSUME NEW j \in 1..k PROVE y[j] = Stream!Write(m[j])
      <4>1. j = k \/ j \in 1..(k - 1)
        BY <2>1
      <4> QED BY <3>1, <3>3, <3>4, <4>1
    <3> HIDE DEF y
    <3>7. U(k) = y
      BY <3>5, <3>6
    <3> QED BY <3>7 DEF y, x
  <2>3. U(k - 1) \in Seq(S) /\ Stream!Write(m[k]) \in S
    BY <1>1, <1>2, <2>1
  <2>4. Stream!FlattenSeq(U(k)) = Stream!FlattenSeq(U(k - 1)) \o Stream!Write(m[k])
    <3> HIDE DEF U
    <3> QED BY <2>2, <2>3, FlattenMore
  <2> HIDE DEF U
  <2> QED BY <1>2, <2>1, <2>4
<1>6. Begun(m, Len(m)) = Stream!WriteAll(m)
  <2>1. SubSeq(m, 1, Len(m)) = m
    <3> DEFINE p == SubSeq(m, 1, Len(m))
    <3>1. p \in Seq(Stream!Field) /\ Len(p) = Len(m) /\ \A j \in 1..Len(m) : p[j] = m[j]
      BY <1>1
    <3> QED BY <3>1
  <2> QED BY <2>1 DEF Begun
<1> QED BY <1>3, <1>4, <1>5, <1>6

\* Where the fields of a message end.
LEMMA EndsAfter ==
    ASSUME NEW m \in Seq(Stream!Field), NEW i \in 1..Len(m)
    PROVE  /\ Stream!EndOf(m, i) = Stream!EndOf(m, i - 1) + Len(Stream!Write(m[i]))
           /\ Stream!EndOf(m, i) \in Nat /\ Stream!EndOf(m, i - 1) \in Nat
           /\ Stream!EndOf(m, i - 1) <= Stream!EndOf(m, i)
<1>1. m[i] \in Stream!Field /\ i \in 0..Len(m) /\ i - 1 \in 0..Len(m)
  OBVIOUS
<1>2. Begun(m, i) = Begun(m, i - 1) \o Stream!Write(m[i]) /\ Begun(m, i - 1) \in Seq(Stream!Byte)
  BY <1>1, BegunNext
<1>3. Stream!Write(m[i]) \in Seq(Stream!Byte)
  BY <1>1, FieldWritten
<1> DEFINE v == Begun(m, i - 1)
           w == Stream!Write(m[i])
<1>4. Stream!EndOf(m, i) = Len(v \o w) /\ Stream!EndOf(m, i - 1) = Len(v)
  BY <1>2 DEF Stream!EndOf, Begun
<1>5. v \in Seq(Stream!Byte) /\ w \in Seq(Stream!Byte)
  BY <1>2, <1>3
<1> HIDE DEF v, w
<1>6. Len(v \o w) = Len(v) + Len(w) /\ Len(v) \in Nat /\ Len(w) \in Nat
  BY <1>5
<1> QED BY <1>4, <1>6 DEF w

\* A stream that has as much of a message as there is has each field at its place.
LEMMA FieldAt ==
    ASSUME NEW m \in Seq(Stream!Field), NEW bytes \in Seq(Stream!Byte),
           Has(bytes, 0, Stream!WriteAll(m))
    PROVE  \A i \in 1..Len(m) :
               /\ Has(bytes, Stream!EndOf(m, i - 1), Stream!Write(m[i]))
               /\ Stream!EndOf(m, i) <= Len(Stream!WriteAll(m))
<1> DEFINE n == Len(m)
           W == Len(Stream!WriteAll(m))
           Q(i) == Has(bytes, 0, Begun(m, i)) /\ Len(Begun(m, i)) <= W
           T == {k \in Nat : k <= n => Q(n - k)}
<1>1. n \in Nat /\ Begun(m, n) = Stream!WriteAll(m)
      /\ \A k \in 0..n : Begun(m, k) \in Seq(Stream!Byte)
  BY BegunNext
<1>2. ASSUME NEW i \in 1..n, Q(i)
      PROVE  Q(i - 1) /\ Has(bytes, Len(Begun(m, i - 1)), Stream!Write(m[i]))
  <2> DEFINE v == Begun(m, i - 1)
             w == Stream!Write(m[i])
  <2>1. v \in Seq(Stream!Byte) /\ w \in Seq(Stream!Byte) /\ Begun(m, i) = v \o w
    <3>1. m[i] \in Stream!Field /\ i - 1 \in 0..n
      BY <1>1
    <3> QED BY <1>1, <3>1, BegunNext, FieldWritten
  <2>2. Has(bytes, 0, v \o w) /\ Len(v \o w) <= W /\ W \in Nat
    <3>1. W \in Nat
      <4>1. n \in 0..n
        BY <1>1
      <4> QED BY <1>1, <4>1
    <3> QED BY <1>2, <2>1, <3>1
  <2> HIDE DEF v, w, W
  <2>3. Has(bytes, 0, v) /\ Has(bytes, 0 + Len(v), w) /\ Len(v \o w) = Len(v) + Len(w)
    BY <2>1, <2>2, HasBoth
  <2>4. Len(v) \in Nat /\ Len(w) \in Nat
    BY <2>1
  <2>5. 0 + Len(v) = Len(v) /\ Len(v) <= W
    BY <2>2, <2>3, <2>4
  <2> QED BY <2>3, <2>5 DEF v, w
<1>3. 0 \in T
  <2>1. W \in Nat /\ n - 0 = n
    <3>1. n \in 0..n
      BY <1>1
    <3> QED BY <1>1, <3>1
  <2>2. Q(n)
    <3> HIDE DEF n
    <3> QED BY <1>1, <2>1
  <2> QED BY <2>1, <2>2
<1>4. ASSUME NEW k \in T PROVE k + 1 \in T
  <2>1. k \in Nat
    BY <1>4
  <2>2. ASSUME k + 1 <= n PROVE Q(n - (k + 1))
    <3>1. n - k \in 1..n /\ (n - k) - 1 = n - (k + 1) /\ k <= n
      BY <1>1, <2>1, <2>2
    <3>2. Q(n - k)
      BY <1>4, <3>1
    <3>3. Q((n - k) - 1)
      <4> HIDE DEF Q, T, n, W
      <4> QED BY <1>2, <3>1, <3>2
    <3> HIDE DEF Q, T, n, W
    <3> QED BY <3>1, <3>3
  <2> QED BY <2>1, <2>2
<1>5. T = Nat
  <2>1. T \in SUBSET Nat
    OBVIOUS
  <2> HIDE DEF T
  <2> QED BY <1>3, <1>4, <2>1, InductionIn
<1>6. \A i \in 0..n : Q(i)
  <2> SUFFICES ASSUME NEW i \in 0..n PROVE Q(i)
    OBVIOUS
  <2>1. n - i \in Nat /\ n - i <= n /\ n - (n - i) = i
    BY <1>1
  <2>2. n - i \in T
    BY <1>5, <2>1
  <2>3. Q(n - (n - i))
    BY <2>1, <2>2
  <2> HIDE DEF Q, n
  <2> QED BY <2>1, <2>3
<1> SUFFICES ASSUME NEW i \in 1..n
             PROVE  /\ Has(bytes, Stream!EndOf(m, i - 1), Stream!Write(m[i]))
                    /\ Stream!EndOf(m, i) <= W
  OBVIOUS
<1>7. i \in 0..n
  BY <1>1
<1>8. Q(i)
  BY <1>6, <1>7
<1>9. Has(bytes, Len(Begun(m, i - 1)), Stream!Write(m[i]))
  BY <1>2, <1>8
<1> QED BY <1>8, <1>9 DEF Stream!EndOf, Begun

\* What the field i of a message is read as from a stream of these bytes.
FieldOf(m, bytes, i) == Outcome(bytes, Stream!EndOf(m, i), Stream!Kept(m[i])).value

\* Where the stream is when the first k fields have been read.
StreamAfter(m, bytes, k) == Outcome(bytes, Stream!EndOf(m, k), Undefined).stream

\* The stream has as much of the packet as there is and is where the last field read
\* ends, or has failed; what was sent last is a message.
StreamInv ==
    /\ packet \in Message \cup {<<>>} /\ packet \in Seq(Stream!Field)
    /\ istream.bytes \in Seq(Stream!Byte) /\ Has(istream.bytes, 0, Stream!WriteAll(packet))
    /\ istream = StreamAfter(packet, istream.bytes, Len(fieldsRead))
    /\ fieldsRead \in Seq({FieldOf(packet, istream.bytes, i) : i \in DOMAIN packet})
    /\ Len(fieldsRead) <= Len(packet)
    /\ \A i \in DOMAIN fieldsRead : fieldsRead[i] = FieldOf(packet, istream.bytes, i)
    /\ ostream \in Seq(Stream!Byte)
    /\ sent.message \in Seq(Stream!Field) /\ sent.bytes = Stream!WriteAll(sent.message)

\* No field has been written.
LEMMA NothingYet ==
    Stream!WriteAll(<<>>) = <<>> /\ \A m \in Seq(Stream!Field) : Stream!EndOf(m, 0) = 0
<1>1. <<>> \in Seq(Stream!Field) /\ Len(<<>>) = 0
  OBVIOUS
<1>2. Stream!WriteAll(<<>>) = <<>>
  BY <1>1, BegunNext
<1>3. \A m \in Seq(Stream!Field) : Begun(m, 0) = <<>>
  BY BegunNext
<1>4. ASSUME NEW m \in Seq(Stream!Field) PROVE Stream!EndOf(m, 0) = 0
  <2>1. Stream!EndOf(m, 0) = Len(Begun(m, 0))
    BY DEF Stream!EndOf, Begun
  <2> QED BY <1>3, <2>1
<1> QED BY <1>2, <1>4

\* The streams are empty, as they are when a connection begins.
LEMMA StreamsEmpty ==
    ASSUME packet = <<>>, fieldsRead = <<>>, ostream = <<>>,
           istream = [bytes |-> <<>>, pos |-> 0, failed |-> FALSE],
           sent = [message |-> <<>>, bytes |-> <<>>]
    PROVE  StreamInv
<1>1. /\ \A S : <<>> \in Seq(S)
      /\ Len(<<>>) = 0 /\ DOMAIN <<>> = {} /\ istream.bytes = <<>>
  OBVIOUS
<1>2. Stream!WriteAll(<<>>) = <<>> /\ Stream!EndOf(<<>>, 0) = 0
  BY <1>1, NothingYet
<1>3. Has(<<>>, 0, <<>>)
  BY DEF Has
<1>4. istream = StreamAfter(packet, istream.bytes, Len(fieldsRead))
  <2>1. Stream!EndOf(packet, Len(fieldsRead)) = 0 /\ Len(istream.bytes) = 0
    BY <1>1, <1>2
  <2>2. istream = Good(istream.bytes, 0)
    BY DEF Good
  <2>3. StreamAfter(packet, istream.bytes, Len(fieldsRead)) = Good(istream.bytes, 0)
    BY <2>1 DEF StreamAfter, Outcome
  <2> QED BY <2>2, <2>3
<1> QED BY <1>1, <1>2, <1>3, <1>4 DEF StreamInv

\* As they are at first.
LEMMA StreamInitially == Stream!Init => StreamInv
BY StreamsEmpty DEF Stream!Init

\* What a sequence begins with.
LEMMA PrefixOf ==
    ASSUME NEW A, NEW w \in Seq(A), NEW n \in 0..Len(w)
    PROVE  /\ SubSeq(w, 1, n) \in Seq(A) /\ Len(SubSeq(w, 1, n)) = n
           /\ \A j \in 1..n : SubSeq(w, 1, n)[j] = w[j]
  OBVIOUS

\* A packet that arrives is as much of a message as there is.
LEMMA PacketStep ==
    ASSUME StreamInv, NEW m \in Message, NEW size \in 0..Len(Stream!WriteAll(m)),
           Stream!OnRoutePacket(m, size)
    PROVE  StreamInv'
<1> DEFINE w == Stream!WriteAll(m)
           b == SubSeq(w, 1, size)
<1>1. /\ packet' = m /\ istream' = [bytes |-> b, pos |-> 0, failed |-> FALSE]
      /\ fieldsRead' = <<>> /\ ostream' = ostream /\ sent' = sent
  BY DEF Stream!OnRoutePacket
<1>2. m \in Seq(Stream!Field) /\ Len(m) \in Nat
  BY GatewayClientAssumption DEF Stream!NodeClientConstants
<1>3. w \in Seq(Stream!Byte)
  <2>1. Len(m) \in 0..Len(m)
    BY <1>2
  <2> QED BY <1>2, <2>1, BegunNext
<1>4. b \in Seq(Stream!Byte) /\ Len(b) = size /\ \A j \in 1..size : b[j] = w[j]
  <2> HIDE DEF w
  <2>1. size \in 0..Len(w) /\ w \in Seq(Stream!Byte)
    BY <1>3 DEF w
  <2> QED BY <2>1, PrefixOf
<1> HIDE DEF w, b
<1>5. Has(b, 0, w)
  <2> SUFFICES ASSUME NEW j \in 1..Len(w), 0 + j <= Len(b) PROVE b[0 + j] = w[j]
    BY DEF Has
  <2>1. j \in 1..size /\ 0 + j = j
    BY <1>3, <1>4
  <2> QED BY <1>4, <2>1
<1>6. istream' = StreamAfter(m, b, 0) /\ istream'.bytes = b
  <2>1. Stream!EndOf(m, 0) = 0 /\ 0 <= Len(b)
    BY <1>2, <1>4, NothingYet
  <2> QED BY <1>1, <2>1 DEF StreamAfter, Outcome, Good
<1>7. /\ fieldsRead' = <<>> /\ Len(fieldsRead') = 0 /\ DOMAIN fieldsRead' = {}
      /\ \A S : <<>> \in Seq(S)
  BY <1>1
<1>8. ostream \in Seq(Stream!Byte) /\ sent.message \in Seq(Stream!Field)
      /\ sent.bytes = Stream!WriteAll(sent.message)
  BY DEF StreamInv
<1> QED BY <1>1, <1>2, <1>4, <1>5, <1>6, <1>7, <1>8 DEF StreamInv, w

\* Nothing is read from a stream that has failed.
LEMMA FailedRead ==
    ASSUME NEW bytes \in Seq(Stream!Byte), NEW field \in Stream!Field
    PROVE  LET s == [bytes |-> bytes, pos |-> Len(bytes), failed |-> TRUE]
           IN  Stream!ReadField(s, field.kind) = [value |-> Undefined, stream |-> s]
<1> DEFINE s == [bytes |-> bytes, pos |-> Len(bytes), failed |-> TRUE]
           nothing == [value |-> Undefined, stream |-> s]
<1>1. \A size : Stream!ReadBytes(s, size) = nothing
  BY DEF Stream!ReadBytes, Stream!Fits, Stream!Advance
<1> HIDE DEF s
<1>2. nothing.value = Undefined /\ nothing.stream = s
  OBVIOUS
<1> HIDE DEF nothing
<1>3. \A length, size : Stream!ReadString(s, length, size) = nothing
  BY <1>1, <1>2 DEF Stream!ReadString
<1>4. field.kind \in {"bool", "uint16", "uint32", "string", "u16string"}
  BY FieldKinds
<1>5. Stream!ReadKind(s, field.kind) = nothing
  BY <1>1, <1>3, <1>4 DEF Stream!ReadKind
<1>6. Stream!ReadField(s, field.kind) = [value |-> Undefined, stream |-> s]
  BY <1>2, <1>5 DEF Stream!ReadField
<1> QED BY <1>6 DEF s

\* The next field is read, or what the stream has is not enough for it.
LEMMA ReadStep == ASSUME StreamInv, Stream!ReadNext PROVE StreamInv'
<1> DEFINE b == istream.bytes
           k == Len(fieldsRead)
           field == packet[k + 1]
           V == {FieldOf(packet, b, i) : i \in DOMAIN packet}
           read == Stream!ReadField(istream, field.kind)
<1>1. /\ packet \in Seq(Stream!Field) /\ b \in Seq(Stream!Byte)
      /\ Has(b, 0, Stream!WriteAll(packet)) /\ istream = StreamAfter(packet, b, k)
      /\ fieldsRead \in Seq(V)
      /\ \A i \in DOMAIN fieldsRead : fieldsRead[i] = FieldOf(packet, b, i)
  BY DEF StreamInv
<1>2. /\ k < Len(packet) /\ fieldsRead' = Append(fieldsRead, read.value) /\ istream' = read.stream
      /\ packet' = packet /\ ostream' = ostream /\ sent' = sent
  BY DEF Stream!ReadNext
<1>3. k \in Nat /\ Len(packet) \in Nat /\ k + 1 \in 1..Len(packet) /\ (k + 1) - 1 = k
      /\ DOMAIN packet = 1..Len(packet) /\ DOMAIN fieldsRead = 1..k
  <2> HIDE DEF V, b
  <2> QED BY <1>1, <1>2
<1>4. field \in Stream!Field
  BY <1>1, <1>3
<1> HIDE DEF k, field, read
<1> DEFINE end == Stream!EndOf(packet, k + 1)
           at == Stream!EndOf(packet, k)
<1>5. end = at + Len(Stream!Write(field)) /\ end \in Nat /\ at \in Nat /\ at <= end
      /\ Has(b, at, Stream!Write(field))
  <2>1. field = packet[k + 1]
    BY DEF field
  <2> HIDE DEF b
  <2>2. /\ Stream!EndOf(packet, k + 1)
               = Stream!EndOf(packet, (k + 1) - 1) + Len(Stream!Write(packet[k + 1]))
        /\ Stream!EndOf(packet, k + 1) \in Nat /\ Stream!EndOf(packet, (k + 1) - 1) \in Nat
        /\ Stream!EndOf(packet, (k + 1) - 1) <= Stream!EndOf(packet, k + 1)
    BY <1>1, <1>3, EndsAfter
  <2>3. Has(b, Stream!EndOf(packet, (k + 1) - 1), Stream!Write(packet[k + 1]))
    BY <1>1, <1>3, FieldAt
  <2> QED BY <1>3, <2>1, <2>2, <2>3
<1> HIDE DEF end, at
<1>6. read = Outcome(b, end, Stream!Kept(field))
  <2>1. CASE at <= Len(b)
    <3>1. istream = Good(b, at)
      BY <1>1, <2>1 DEF StreamAfter, Outcome, at
    <3>2. at \in 0..Len(b)
      <4>1. Len(b) \in Nat
        BY <1>1
      <4> HIDE DEF b
      <4> QED BY <1>5, <2>1, <4>1
    <3> HIDE DEF b
    <3>3. Stream!ReadField(Good(b, at), field.kind)
              = Outcome(b, at + Len(Stream!Write(field)), Stream!Kept(field))
      BY <1>1, <1>4, <1>5, <3>2, FieldRead
    <3> QED BY <1>5, <3>1, <3>3 DEF read
  <2>2. CASE ~(at <= Len(b))
    <3>1. istream = [bytes |-> b, pos |-> Len(b), failed |-> TRUE]
      BY <1>1, <2>2 DEF StreamAfter, Outcome, at
    <3>2. ~(end <= Len(b))
      <4>1. Len(b) \in Nat
        BY <1>1
      <4> HIDE DEF b
      <4> QED BY <1>5, <2>2, <4>1
    <3> HIDE DEF b
    <3>3. read = [value |-> Undefined, stream |-> [bytes |-> b, pos |-> Len(b), failed |-> TRUE]]
      BY <1>1, <1>4, <3>1, FailedRead DEF read
    <3> QED BY <3>2, <3>3 DEF Outcome
  <2> QED BY <2>1, <2>2
<1>7. read.value = FieldOf(packet, b, k + 1)
  BY <1>6 DEF FieldOf, end, field
<1>8. read.stream = StreamAfter(packet, b, k + 1) /\ istream'.bytes = b
  <2>1. read.stream = StreamAfter(packet, b, k + 1)
    BY <1>6 DEF StreamAfter, Outcome, end
  <2>2. StreamAfter(packet, b, k + 1).bytes = b
    BY DEF StreamAfter, Outcome, Good
  <2> QED BY <1>2, <2>1, <2>2
<1>9. read.value \in V
  BY <1>3, <1>7
<1>10. /\ fieldsRead' \in Seq(V) /\ Len(fieldsRead') = k + 1 /\ DOMAIN fieldsRead' = 1..(k + 1)
       /\ fieldsRead'[k + 1] = read.value /\ \A i \in 1..k : fieldsRead'[i] = fieldsRead[i]
  <2> HIDE DEF V, b
  <2>1. k = Len(fieldsRead)
    BY DEF k
  <2> QED BY <1>1, <1>2, <1>3, <1>9, <2>1
<1>11. ASSUME NEW i \in DOMAIN fieldsRead' PROVE fieldsRead'[i] = FieldOf(packet, b, i)
  <2>1. i = k + 1 \/ i \in 1..k
    BY <1>3, <1>10
  <2>2. \A j \in 1..k : fieldsRead[j] = FieldOf(packet, b, j)
    BY <1>1, <1>3
  <2> HIDE DEF b
  <2> QED BY <1>7, <1>10, <2>1, <2>2
<1>12. fieldsRead' \in Seq({FieldOf(packet', istream'.bytes, i) : i \in DOMAIN packet'})
  <2>1. {FieldOf(packet', istream'.bytes, i) : i \in DOMAIN packet'} = V
    BY <1>2, <1>8
  <2> HIDE DEF V
  <2> QED BY <1>10, <2>1
<1>13. /\ istream' = StreamAfter(packet', istream'.bytes, Len(fieldsRead'))
       /\ Len(fieldsRead') <= Len(packet')
  <2> HIDE DEF b
  <2> QED BY <1>2, <1>3, <1>8, <1>10
<1>14. \A i \in DOMAIN fieldsRead' : fieldsRead'[i] = FieldOf(packet', istream'.bytes, i)
  BY <1>2, <1>8, <1>11
<1>15. /\ packet' \in Message \cup {<<>>} /\ packet' \in Seq(Stream!Field)
       /\ istream'.bytes \in Seq(Stream!Byte) /\ Has(istream'.bytes, 0, Stream!WriteAll(packet'))
       /\ ostream' \in Seq(Stream!Byte)
       /\ sent'.message \in Seq(Stream!Field) /\ sent'.bytes = Stream!WriteAll(sent'.message)
  BY <1>2, <1>8 DEF StreamInv
<1> QED BY <1>12, <1>13, <1>14, <1>15 DEF StreamInv

\* A message is written and sent.
LEMMA SendStep == ASSUME StreamInv, NEW m \in Message, Stream!Send(m) PROVE StreamInv'
<1>1. /\ ostream' = Stream!WriteAll(m) /\ sent' = [message |-> m, bytes |-> ostream']
      /\ packet' = packet /\ istream' = istream /\ fieldsRead' = fieldsRead
  BY DEF Stream!Send
<1>2. m \in Seq(Stream!Field)
  BY GatewayClientAssumption DEF Stream!NodeClientConstants
<1>3. Stream!WriteAll(m) \in Seq(Stream!Byte)
  <2>1. Len(m) \in 0..Len(m)
    BY <1>2
  <2> QED BY <1>2, <2>1, BegunNext
<1>4. sent'.message = m /\ sent'.bytes = Stream!WriteAll(m)
  BY <1>1
<1>5. Stream!WriteAll(sent'.message) = Stream!WriteAll(m)
  BY <1>4
<1> QED BY <1>1, <1>2, <1>3, <1>4, <1>5 DEF StreamInv

\* Every step keeps it.
LEMMA StreamInductive == StreamInv /\ [Stream!Next]_(Stream!vars) => StreamInv'
<1> SUFFICES ASSUME StreamInv, [Stream!Next]_(Stream!vars) PROVE StreamInv'
  OBVIOUS
<1>1. CASE UNCHANGED Stream!vars
  BY <1>1 DEF Stream!vars, StreamInv
<1>2. CASE Stream!Terminate
  <2>1. /\ packet' = <<>> /\ fieldsRead' = <<>> /\ ostream' = <<>>
        /\ istream' = [bytes |-> <<>>, pos |-> 0, failed |-> FALSE]
        /\ sent' = [message |-> <<>>, bytes |-> <<>>]
    BY <1>2 DEF Stream!Terminate
  <2>2. (/\ packet = <<>> /\ fieldsRead = <<>> /\ ostream = <<>>
         /\ istream = [bytes |-> <<>>, pos |-> 0, failed |-> FALSE]
         /\ sent = [message |-> <<>>, bytes |-> <<>>])' => StreamInv'
    BY StreamsEmpty, PTL
  <2> QED BY <2>1, <2>2
<1> QED BY <1>1, <1>2, PacketStep, ReadStep, SendStep DEF Stream!Next

\* Of a unit narrowed and widened: it is the same if it is a char's, or one of the
\* last, which chars of the upper half become.
LEMMA UnitSurvives ==
    ASSUME NEW u \in Stream!Word
    PROVE  LET c == u % Base
               h == Base \div 2
           IN  (IF c < h THEN c ELSE c + Base * Base - Base) = u
                   <=> u < h \/ u >= Base * Base - h
<1> DEFINE c == u % Base
           h == Base \div 2
           q == u \div Base
           B2 == Base * Base
<1>1. Base \in Nat /\ Base > 1 /\ Base = 2 * h /\ h \in Nat \ {0} /\ B2 \in Nat
  BY BaseIs
<1>2. u \in Nat /\ u < B2
  BY <1>1 DEF Stream!Word
<1>3. u = Base * q + c /\ q \in Nat /\ c \in 0..(Base - 1) /\ q < Base
  BY <1>1, <1>2, Divides, QuotientLess
<1>4. B2 = Base * (Base - 1) + Base /\ Base - 1 \in Nat
  BY <1>1
<1> SUFFICES (IF c < h THEN c ELSE c + B2 - Base) = u <=> u < h \/ u >= B2 - h
  OBVIOUS
<1> HIDE DEF B2, h, c, q
<1>5. CASE q = 0
  <2>1. u = c
    BY <1>1, <1>3, <1>5
  <2>2. B2 >= 2 * Base
    <3>1. Base * 2 <= Base * Base
      BY <1>1, Products
    <3> QED BY <1>1, <3>1 DEF B2
  <2> QED BY <1>1, <1>3, <2>1, <2>2
<1>6. CASE q # 0 /\ q # Base - 1
  <2>1. Base * q >= Base /\ Base * q \in Nat
    BY <1>1, <1>3, <1>6
  <2>2. Base * q + Base <= Base * (Base - 1)
    <3>1. q < Base - 1
      BY <1>1, <1>3, <1>6
    <3> QED BY <1>1, <1>3, <1>4, <3>1, Products
  <2> DEFINE x == Base * q
             y == Base * (Base - 1)
  <2>3. /\ x \in Nat /\ x >= Base /\ x + Base <= y /\ u = x + c /\ B2 = y + Base /\ y \in Nat
    BY <1>1, <1>3, <1>4, <2>1, <2>2, Products
  <2> HIDE DEF x, y
  <2>4. ~(u < h) /\ ~(u >= B2 - h)
    <3>1. u >= Base
      BY <1>1, <1>3, <2>3
    <3>2. u < y + Base - h
      BY <1>1, <1>3, <2>3
    <3> QED BY <1>1, <1>2, <2>3, <3>1, <3>2
  <2>5. (IF c < h THEN c ELSE c + B2 - Base) # u
    <3>1. c < u
      BY <1>1, <1>3, <2>3
    <3>2. c + B2 - Base > u
      BY <1>1, <1>3, <2>3
    <3> QED BY <1>1, <1>2, <1>3, <3>1, <3>2
  <2> QED BY <2>4, <2>5
<1>7. CASE q # 0 /\ q = Base - 1
  <2>1. u = B2 - Base + c
    <3> DEFINE y == Base * (Base - 1)
    <3>1. u = y + c /\ B2 = y + Base /\ y \in Int
      BY <1>1, <1>3, <1>4, <1>7
    <3> HIDE DEF y
    <3> QED BY <1>1, <1>3, <3>1
  <2>2. B2 >= 2 * Base
    <3>1. Base * 2 <= Base * Base
      BY <1>1, Products
    <3> QED BY <1>1, <3>1 DEF B2
  <2>3. ~(u < h)
    BY <1>1, <1>3, <2>1, <2>2
  <2>4. CASE c < h
    <3>1. ~(u >= B2 - h)
      BY <1>1, <1>3, <2>1, <2>4
    <3>2. c < u
      BY <1>1, <1>3, <2>1, <2>2
    <3>3. (IF c < h THEN c ELSE c + B2 - Base) # u
      BY <1>3, <2>4, <3>2
    <3> QED BY <2>3, <3>1, <3>3
  <2>5. CASE ~(c < h)
    <3>1. c + B2 - Base = u /\ u >= B2 - h
      BY <1>1, <1>3, <2>1, <2>5
    <3> QED BY <2>5, <3>1
  <2> QED BY <2>4, <2>5
<1> QED BY <1>5, <1>6, <1>7

\* So of strings of units.
LEMMA StringSurvives ==
    ASSUME NEW s \in Seq(Stream!Word)
    PROVE  Stream!ToWideString(Stream!FromWideString(s)) = s
               <=> \A k \in DOMAIN s :
                       s[k] < Base \div 2 \/ s[k] >= Stream!Weight[3] - Base \div 2
<1> DEFINE narrow == Stream!FromWideString(s)
           wide == Stream!ToWideString(narrow)
           Same(u) == u < Base \div 2 \/ u >= Stream!Weight[3] - Base \div 2
<1>1. narrow = [i \in DOMAIN s |-> s[i] % Base]
  BY DEF Stream!FromWideString
<1>2. wide = [i \in DOMAIN narrow |-> IF narrow[i] < Base \div 2 THEN narrow[i]
                                      ELSE narrow[i] + Stream!Weight[3] - Base]
  BY DEF Stream!ToWideString
<1>3. /\ DOMAIN wide = DOMAIN s /\ wide = [i \in DOMAIN s |-> wide[i]]
      /\ s = [i \in DOMAIN s |-> s[i]]
  BY <1>1, <1>2
<1>4. ASSUME NEW i \in DOMAIN s PROVE wide[i] = s[i] <=> Same(s[i])
  <2>1. s[i] \in Stream!Word /\ Stream!Weight[3] = Base * Base
    BY DEF Stream!Weight
  <2> DEFINE u == s[i]
  <2>2. wide[i] = IF u % Base < Base \div 2 THEN u % Base
                  ELSE (u % Base) + Stream!Weight[3] - Base
    BY <1>1, <1>2
  <2> HIDE DEF u, wide
  <2>3. (IF u % Base < Base \div 2 THEN u % Base ELSE (u % Base) + Base * Base - Base) = u
            <=> u < Base \div 2 \/ u >= Base * Base - Base \div 2
    BY <2>1, UnitSurvives DEF u
  <2> QED BY <2>1, <2>2, <2>3 DEF u
<1> HIDE DEF wide, Same
<1>5. wide = s <=> \A i \in DOMAIN s : wide[i] = s[i]
  BY <1>3
<1>6. wide = s <=> \A i \in DOMAIN s : Same(s[i])
  BY <1>4, <1>5
<1> QED BY <1>6 DEF wide, Same

\* The properties follow.
LEMMA StreamSoundIs == StreamInv => StreamsSound
<1> SUFFICES ASSUME StreamInv PROVE StreamsSound
  OBVIOUS
<1> DEFINE b == istream.bytes
<1>1. /\ packet \in Seq(Stream!Field) /\ b \in Seq(Stream!Byte) /\ Len(b) \in Nat
      /\ istream = StreamAfter(packet, b, Len(fieldsRead))
      /\ DOMAIN fieldsRead = 1..Len(fieldsRead)
      /\ Len(fieldsRead) \in Nat /\ Len(packet) \in Nat
      /\ DOMAIN fieldsRead \subseteq DOMAIN packet /\ Len(fieldsRead) <= Len(packet)
      /\ \A i \in DOMAIN fieldsRead : fieldsRead[i] = FieldOf(packet, b, i)
  BY DEF StreamInv
<1>2. \A m \in Seq(Stream!Field) : \A i \in 0..Len(m) : Stream!EndOf(m, i) \in Nat
  <2> SUFFICES ASSUME NEW m \in Seq(Stream!Field), NEW i \in 0..Len(m)
               PROVE  Stream!EndOf(m, i) \in Nat
    OBVIOUS
  <2>1. Begun(m, i) \in Seq(Stream!Byte)
    BY BegunNext
  <2> QED BY <2>1 DEF Stream!EndOf, Begun
<1>3. Stream!TypeOK
  <2>1. istream.pos \in 0..Len(b) /\ istream.failed \in BOOLEAN
    <3>1. Stream!EndOf(packet, Len(fieldsRead)) \in Nat
      BY <1>1, <1>2
    <3> DEFINE end == Stream!EndOf(packet, Len(fieldsRead))
    <3> HIDE DEF b
    <3>2. CASE end <= Len(b)
      <4>1. istream = Good(b, end)
        BY <1>1, <3>2 DEF StreamAfter, Outcome
      <4>2. istream.pos = end /\ istream.failed = FALSE
        BY <4>1 DEF Good
      <4>3. end \in 0..Len(b)
        <5> HIDE DEF end
        <5>1. end \in Nat
          BY <3>1 DEF end
        <5> QED BY <1>1, <3>2, <5>1
      <4> QED BY <4>2, <4>3
    <3>3. CASE ~(end <= Len(b))
      <4>1. istream = [bytes |-> b, pos |-> Len(b), failed |-> TRUE]
        BY <1>1, <3>3 DEF StreamAfter, Outcome
      <4>2. istream.pos = Len(b) /\ istream.failed = TRUE
        BY <4>1
      <4>3. Len(b) \in 0..Len(b)
        BY <1>1
      <4> QED BY <4>2, <4>3
    <3> QED BY <3>2, <3>3
  <2> QED BY <1>1, <2>1 DEF Stream!TypeOK, StreamInv
<1>4. ASSUME NEW i \in DOMAIN fieldsRead
      PROVE  fieldsRead[i] = IF Stream!EndOf(packet, i) <= Len(b) THEN Stream!Kept(packet[i])
                         ELSE Undefined
  <2>1. fieldsRead[i] = FieldOf(packet, b, i)
    BY <1>1
  <2> HIDE DEF b
  <2> QED BY <2>1 DEF FieldOf, Outcome
<1>5. Stream!ReadsWhatIsThere
  BY <1>4 DEF Stream!ReadsWhatIsThere
<1>6. Stream!SentIsRead
  <2> DEFINE m == sent.message
             w == sent.bytes
  <2> SUFFICES ASSUME NEW i \in DOMAIN m
               PROVE  Stream!ReadField(
                          [bytes |-> w, pos |-> Stream!EndOf(m, i - 1), failed |-> FALSE],
                          m[i].kind).value
                          = Stream!Kept(m[i])
    BY DEF Stream!SentIsRead
  <2>1. m \in Seq(Stream!Field) /\ w = Stream!WriteAll(m)
    BY DEF StreamInv
  <2> HIDE DEF m, w
  <2>2. i \in 1..Len(m) /\ m[i] \in Stream!Field /\ i - 1 \in 0..Len(m) /\ Len(m) \in 0..Len(m)
    BY <2>1
  <2>3. w \in Seq(Stream!Byte) /\ Has(w, 0, w)
    <3>1. w \in Seq(Stream!Byte)
      BY <2>1, <2>2, BegunNext
    <3> QED BY <3>1 DEF Has
  <2> DEFINE at == Stream!EndOf(m, i - 1)
             end == Stream!EndOf(m, i)
  <2>4. Has(w, at, Stream!Write(m[i])) /\ end <= Len(w)
    BY <2>1, <2>2, <2>3, FieldAt
  <2>5. end = at + Len(Stream!Write(m[i])) /\ end \in Nat /\ at \in Nat /\ at <= end
    BY <2>1, <2>2, EndsAfter
  <2> HIDE DEF at, end
  <2>6. at \in 0..Len(w)
    <3>1. Len(w) \in Nat
      BY <2>3
    <3> QED BY <2>4, <2>5, <3>1
  <2>7. Stream!ReadField(Good(w, at), m[i].kind)
            = Outcome(w, at + Len(Stream!Write(m[i])), Stream!Kept(m[i]))
    BY <2>2, <2>3, <2>4, <2>6, FieldRead
  <2>8. Stream!ReadField(Good(w, at), m[i].kind).value = Stream!Kept(m[i])
    BY <2>4, <2>5, <2>7 DEF Outcome
  <2> QED BY <2>8 DEF Good, at
<1>7. Stream!OnlyAsciiSurvives
  <2> SUFFICES ASSUME NEW i \in DOMAIN fieldsRead,
                      packet[i].kind = "u16string", fieldsRead[i] # Undefined
               PROVE  Stream!ToWideString(Stream!FromWideString(fieldsRead[i])) = fieldsRead[i]
                          <=> \A k \in DOMAIN fieldsRead[i] :
                                  \/ fieldsRead[i][k] < Base \div 2
                                  \/ fieldsRead[i][k] >= Stream!Weight[3] - Base \div 2
    BY DEF Stream!OnlyAsciiSurvives
  <2>1. packet[i] \in Stream!Field
    BY <1>1
  <2>2. fieldsRead[i] = Stream!Kept(packet[i])
    BY <1>4
  <2>3. fieldsRead[i] \in Seq(Stream!Word)
    BY <2>1, <2>2, FieldKinds
  <2> QED BY <2>3, StringSurvives
<1> QED BY <1>3, <1>5, <1>6, <1>7 DEF StreamsSound

\* Whatever messages there are, wherever packets are cut and whatever is sent
\* between them, a field that is wholly in its packet is read as it was written, one
\* that is not has no value, and a peer reads from each message sent what was put
\* in (OnRoutePacket, Send, Serialization.hpp).
THEOREM StreamsAreSound == Stream!Spec => []StreamsSound
  BY StreamInitially, StreamInductive, StreamSoundIs, PTL DEF Stream!Spec
=============================================================================
