------------------------- MODULE RegistrarNode_proofs -------------------------
(***************************************************************************)
(* What holds of the registrar as the program uses it, for every cluster   *)
(* and every sequence of requests; what its public methods promise in      *)
(* whatever order they are called; and that the list it walks is what the  *)
(* configuration asks for, however many lines that has.                    *)
(***************************************************************************)
EXTENDS Registrar, FiniteSetTheorems, WellFoundedInduction, TLAPS

\* How often endpoint e occurs among the first n places of the list.
Count(e, n) == Cardinality({i \in 1..n : Weighted[i] = e})

\* How many places the walk has passed since it came to the head of the list.
\* At the head it has passed all of them, or it has not set out yet.
Passed == IF turn = 0 /\ served # NoneServed THEN Total ELSE turn

\* The walk serves what it passes: WeightedShare holds because this does all
\* along the list.
WalkServes == \A e \in Known : served[e] = Count(e, Passed)

IInv == TypeOK /\ NothingBlacklisted /\ PreferenceHonored /\ WalkServes

\* With nothing blacklisted, pruning changes nothing.
LEMMA PrunedSame ==
    ASSUME NothingBlacklisted, health \in [Known -> Health]
    PROVE  Pruned(health) = health
  BY DEF NothingBlacklisted, Pruned, Healthy, Never

\* With nothing blacklisted the walk finds an endpoint at its first place.
LEMMA WalkFinds ==
    ASSUME TypeOK, NothingBlacklisted
    PROVE  Ahead(health) = {Weighted[turn + 1]} /\ Weighted[turn + 1] \in Known
<1>1. /\ Weighted \in Seq(Known) /\ Total \in Nat \ {0} /\ turn \in 0..(Total - 1)
  BY RegistrarNodeAssumption DEF TypeOK, Total
<1>2. (turn + 0) % Total = turn
  BY <1>1
<1>3. Weighted[turn + 1] \in Known
  BY <1>1 DEF Total
<1>4. ~Blacklisted(health, Weighted[((turn + 0) % Total) + 1])
  BY <1>2, <1>3 DEF NothingBlacklisted, Healthy, Never, Blacklisted
<1>5. 0 \in 0..(Total - 1) /\ \A k \in 0..(0 - 1) : FALSE
  BY <1>1
<1>6. Weighted[turn + 1] \in Ahead(health)
  BY <1>2, <1>4, <1>5 DEF Ahead
<1>7. ASSUME NEW e \in Ahead(health)
      PROVE  e = Weighted[turn + 1]
  <2>1. PICK i \in 0..(Total - 1) :
          /\ e = Weighted[((turn + i) % Total) + 1]
          /\ \A k \in 0..(i - 1) : Blacklisted(health, Weighted[((turn + k) % Total) + 1])
    BY <1>7 DEF Ahead
  <2>2. CASE i = 0
    BY <1>2, <2>1, <2>2
  <2>3. CASE i # 0
    <3>1. 0 \in 0..(i - 1)
      BY <1>1, <2>3
    <3> QED BY <1>4, <2>1, <3>1
  <2> QED BY <2>2, <2>3
<1> QED BY <1>3, <1>6, <1>7

\* A request changes the health of no endpoint and honours its preference.
LEMMA RequestStep ==
    ASSUME IInv, NEW preference \in Preference, RegistrarGetChatServer(preference)
    PROVE  /\ health' = health
           /\ answer' \in [asked: Preference, given: Known]
           /\ answer'.asked \in Known => answer'.given = answer'.asked
           /\ turn' \in 0..(Total - 1) /\ served' \in [Known -> Nat]
           /\ \/ UNCHANGED <<turn, served>>
              \/ TakeTurn(preference, Weighted[turn + 1])
<1>1. PICK endpoint \in Known :
        \E h \in {Pruned(health)} \cup {[Pruned(health) EXCEPT ![e].left = Never] : e \in Known} :
            /\ Select(preference, endpoint, h)
            /\ health' = MarkSuccess(IF preference \in {NoPreference, endpoint} THEN h
                                     ELSE MarkFailure(h, preference), endpoint)
  BY DEF RegistrarGetChatServer
<1>2. PICK h \in {Pruned(health)} \cup {[Pruned(health) EXCEPT ![e].left = Never] : e \in Known} :
            /\ Select(preference, endpoint, h)
            /\ health' = MarkSuccess(IF preference \in {NoPreference, endpoint} THEN h
                                     ELSE MarkFailure(h, preference), endpoint)
  BY <1>1
<1>3. Pruned(health) = health /\ health \in [Known -> Health]
  BY PrunedSame DEF IInv, TypeOK
<1>4. \A e \in Known : ~Blacklisted(health, e)
  BY DEF IInv, NothingBlacklisted, Healthy, Never, Blacklisted
<1>5. answer' = [asked |-> preference, given |-> endpoint]
  BY <1>2 DEF Select
<1>6. Total \in Nat \ {0} /\ turn \in 0..(Total - 1) /\ served \in [Known -> Nat]
  BY RegistrarNodeAssumption DEF IInv, TypeOK, Total
<1>7. MarkSuccess(health, endpoint) = health
  BY <1>3 DEF IInv, NothingBlacklisted, MarkSuccess
<1>8. CASE Preferred(preference, endpoint, h)
  <2>1. endpoint = preference /\ h = health /\ preference \in Known
    BY <1>3, <1>8 DEF Preferred
  <2>2. health' = health
    BY <1>2, <1>7, <2>1
  <2>3. turn' = turn /\ served' = served
    BY <1>8 DEF Preferred
  <2> QED BY <1>5, <1>6, <2>1, <2>2, <2>3
<1>9. CASE Walked(preference, endpoint, h)
  <2>1. preference \notin Known
    BY <1>3, <1>4, <1>9 DEF Walked
  <2>2. h = health
    BY <1>3, <1>9, WalkFinds DEF Walked, IInv
  <2>3. MarkFailure(h, preference) = h
    BY <2>1 DEF MarkFailure
  <2>4. health' = health
    BY <1>2, <1>7, <2>2, <2>3
  <2>5. TakeTurn(preference, endpoint)
    BY <1>9 DEF Walked
  <2>6. turn' \in 0..(Total - 1)
    BY <1>6, <2>5 DEF TakeTurn
  <2>7. served' \in [Known -> Nat]
    BY <1>6, <2>5 DEF TakeTurn, NoneServed
  <2>8. endpoint = Weighted[turn + 1]
    BY <1>3, <1>9, WalkFinds DEF Walked, IInv
  <2> QED BY <1>5, <2>1, <2>4, <2>5, <2>6, <2>7, <2>8
<1> QED BY <1>2, <1>8, <1>9 DEF Select

\* One place more holds one occurrence more of the endpoint found there.
LEMMA CountNext ==
    ASSUME NEW e, NEW n \in Nat
    PROVE  /\ Count(e, 0) = 0 /\ Count(e, n) \in Nat
           /\ Count(e, n + 1) = IF Weighted[n + 1] = e THEN Count(e, n) + 1 ELSE Count(e, n)
<1> DEFINE S == {i \in 1..n : Weighted[i] = e}
<1>1. IsFiniteSet(S) /\ Cardinality(S) \in Nat
  <2>1. IsFiniteSet(1..n)
    BY FS_Interval
  <2> QED BY <2>1, FS_Subset, FS_CardinalityType
<1>2. n + 1 \notin S
  OBVIOUS
<1>3. {i \in 1..(n + 1) : Weighted[i] = e} = IF Weighted[n + 1] = e THEN S \cup {n + 1} ELSE S
  OBVIOUS
<1>4. Cardinality(S \cup {n + 1}) = Cardinality(S) + 1
  BY <1>1, <1>2, FS_AddElement
<1>5. {i \in 1..0 : Weighted[i] = e} = {}
  OBVIOUS
<1>6. Count(e, 0) = 0
  BY <1>5, FS_EmptySet DEF Count
<1> QED BY <1>1, <1>3, <1>4, <1>6 DEF Count

\* Taking the turn at the place the walk stands at keeps WalkServes.
LEMMA TurnStep ==
    ASSUME IInv, NEW preference, TakeTurn(preference, Weighted[turn + 1])
    PROVE  WalkServes'
<1>1. Total \in Nat \ {0} /\ turn \in 0..(Total - 1) /\ served \in [Known -> Nat]
  BY RegistrarNodeAssumption DEF IInv, TypeOK, Total
<1>2. Weighted[turn + 1] \in Known
  BY WalkFinds DEF IInv
<1> DEFINE before == IF turn = 0 THEN NoneServed ELSE served
           here == Weighted[turn + 1]
<1>3. \A e \in Known : before[e] = Count(e, turn) /\ before[e] \in Nat
  BY <1>1, CountNext DEF IInv, WalkServes, Passed, NoneServed
<1>4. before \in [Known -> Nat]
  BY <1>1 DEF NoneServed
<1>5. served' = [before EXCEPT ![here] = @ + 1] /\ turn' = (turn + 1) % Total
  BY DEF TakeTurn
<1>6. \A e \in Known : served'[e] = Count(e, turn + 1)
  BY <1>1, <1>2, <1>3, <1>4, <1>5, CountNext
<1>7. served'[here] # NoneServed[here]
  BY <1>2, <1>3, <1>4, <1>5 DEF NoneServed
<1>8. Passed' = turn + 1
  <2>1. CASE turn + 1 = Total
    BY <1>1, <1>5, <1>7, <2>1 DEF Passed, NoneServed, Total
  <2>2. CASE turn + 1 # Total
    BY <1>1, <1>5, <2>2 DEF Passed, Total
  <2> QED BY <2>1, <2>2
<1> QED BY <1>6, <1>8 DEF WalkServes, Count

\* Time passes no penalty, as there is none.
LEMMA TickStep == IInv /\ Tick => UNCHANGED vars
  BY DEF IInv, TypeOK, NothingBlacklisted, Healthy, Never, Tick, Health, vars

\* The initial states satisfy the invariant.
LEMMA Initially == Init => IInv
<1> SUFFICES ASSUME Init PROVE IInv
  OBVIOUS
<1>1. Healthy \in Health
  BY RegistrarNodeAssumption DEF Health, Healthy
<1>2. Total \in Nat \ {0}
  BY RegistrarNodeAssumption DEF Total
<1>3. TypeOK
  BY <1>1, <1>2 DEF Init, TypeOK, Preference, NoneServed
<1>4. NothingBlacklisted
  BY DEF Init, NothingBlacklisted
<1>5. PreferenceHonored
  BY RegistrarNodeAssumption DEF Init, PreferenceHonored
<1>6. WalkServes
  BY <1>2, CountNext DEF Init, WalkServes, Passed, NoneServed
<1> QED BY <1>3, <1>4, <1>5, <1>6 DEF IInv

\* Every request keeps it.
LEMMA Inductive == IInv /\ [Next]_vars => IInv'
<1> SUFFICES ASSUME IInv, [Next]_vars PROVE IInv'
  OBVIOUS
<1>1. CASE UNCHANGED vars
  <2>1. WalkServes'
    BY <1>1 DEF IInv, WalkServes, Passed, Count, vars
  <2> QED
    BY <1>1, <2>1 DEF IInv, TypeOK, NothingBlacklisted, PreferenceHonored, vars
<1>2. CASE Tick
  BY <1>1, <1>2, TickStep
<1>3. ASSUME NEW preference \in Preference, RegistrarGetChatServer(preference)
      PROVE  IInv'
  <2>1. TypeOK' /\ NothingBlacklisted' /\ PreferenceHonored'
    BY <1>3, RequestStep DEF IInv, TypeOK, NothingBlacklisted, PreferenceHonored
  <2>2. CASE UNCHANGED <<turn, served>>
    <3>1. WalkServes'
      BY <2>2 DEF IInv, WalkServes, Passed, Count
    <3> QED BY <2>1, <3>1 DEF IInv
  <2>3. CASE TakeTurn(preference, Weighted[turn + 1])
    BY <2>1, <2>3, TurnStep DEF IInv
  <2> QED BY <1>3, <2>2, <2>3, RequestStep
<1> QED BY <1>1, <1>2, <1>3 DEF Next

\* The invariant holds always.
LEMMA Invariance == Spec => []IInv
  BY Initially, Inductive, PTL DEF Spec

-----------------------------------------------------------------------------
\* Whatever game servers ask for, no endpoint is ever blacklisted: the
\* blacklist of RegistrarNode.cpp is out of reach of its one caller.
THEOREM NeverBlacklisted == Spec => []NothingBlacklisted
<1>1. IInv => NothingBlacklisted
  BY DEF IInv
<1> QED BY <1>1, Invariance, PTL

\* A request that prefers an endpoint of the cluster is answered with it.
THEOREM PreferencesHonored == Spec => []PreferenceHonored
<1>1. IInv => PreferenceHonored
  BY DEF IInv
<1> QED BY <1>1, Invariance, PTL

\* Between one return to the head of the list and the next, however many
\* requests with preferences come in between, the walk sends every endpoint
\* as many game servers as it has places in the list.
THEOREM SharesAreWeighted == Spec => []WeightedShare
<1>1. IInv => WeightedShare
  BY DEF IInv, WalkServes, WeightedShare, Passed, Count, Total, TypeOK
<1> QED BY <1>1, Invariance, PTL

-----------------------------------------------------------------------------
(***************************************************************************)
(* The public methods in any order: endpoints do get blacklisted here.     *)
(***************************************************************************)
\* What Registrar assumes of its constants, as the facts below need it.
LEMMA Constants ==
    /\ ApiWeighted \in Seq(Api!Known) /\ ApiWeighted # <<>>
    /\ Stranger \notin Api!Known /\ NoPreference \notin Api!Known
    /\ BaseBlacklist \in Nat \ {0} /\ MaxBlacklist \in Nat \ {0} /\ MaxFailures \in Nat \ {0}
  BY RegistrarNodeAssumption, RegistrarAssumption

\* A set of natural numbers that is not empty has a smallest member.
LEMMA SmallestIn ==
    ASSUME NEW T \in SUBSET Nat, T # {}
    PROVE  \E x \in T : \A y \in T : x <= y
<1> DEFINE R == {p \in Nat \X Nat : p[1] < p[2]}
<1>1. OpToRel(<, Nat) = R
  BY DEF OpToRel
<1>2. IsWellFoundedOn(R, Nat)
  BY <1>1, NatLessThanWellFounded
<1>3. \A x, y \in Nat : y < x => <<y, x>> \in R
  OBVIOUS
<1> HIDE DEF R
<1>4. PICK x \in T : \A y \in T : ~(<<y, x>> \in R)
  BY <1>2, WFMin
<1>5. \A y \in T : ~(y < x)
  BY <1>3, <1>4
<1>6. \A y \in T : x <= y
  BY <1>5
<1> QED BY <1>6

\* From any turn the walk comes past every place of the list.
LEMMA WalkPasses ==
    ASSUME NEW t \in 0..(Api!Total - 1), NEW p \in DOMAIN ApiWeighted
    PROVE  \E j \in 0..(Api!Total - 1) : ((t + j) % Api!Total) + 1 = p
<1>1. Api!Total \in Nat \ {0} /\ p \in 1..Api!Total
  BY Constants DEF Api!Total
<1>2. CASE p - 1 >= t
  <2>1. /\ p - 1 - t \in 0..(Api!Total - 1) /\ t + (p - 1 - t) = p - 1
        /\ (p - 1) % Api!Total = p - 1
    BY <1>1, <1>2
  <2>2. ((t + (p - 1 - t)) % Api!Total) + 1 = p
    BY <1>1, <2>1
  <2> DEFINE j == p - 1 - t
  <2>3. j \in 0..(Api!Total - 1) /\ ((t + j) % Api!Total) + 1 = p
    BY <2>1, <2>2
  <2> HIDE DEF j
  <2> QED BY <2>3
<1>3. CASE p - 1 < t
  <2>1. /\ p - 1 - t + Api!Total \in 0..(Api!Total - 1)
        /\ t + (p - 1 - t + Api!Total) = p - 1 + Api!Total
    BY <1>1, <1>3
  <2>2. (p - 1 + Api!Total) % Api!Total = p - 1
    BY <1>1
  <2>3. ((t + (p - 1 - t + Api!Total)) % Api!Total) + 1 = p
    BY <1>1, <2>1, <2>2
  <2> DEFINE j == p - 1 - t + Api!Total
  <2>4. j \in 0..(Api!Total - 1) /\ ((t + j) % Api!Total) + 1 = p
    BY <2>1, <2>3
  <2> HIDE DEF j
  <2> QED BY <2>4
<1> QED BY <1>1, <1>2, <1>3

\* The walk finds nobody only when everybody is blacklisted: its one round
\* leaves out no endpoint, wherever it starts.
LEMMA WalkLeavesOutNobody ==
    ASSUME NEW h, apiTurn \in 0..(Api!Total - 1), Api!Ahead(h) = {}, NEW e \in Api!Known
    PROVE  Api!Blacklisted(h, e)
<1> DEFINE there(j) == ApiWeighted[((apiTurn + j) % Api!Total) + 1]
           free == {j \in 0..(Api!Total - 1) : ~Api!Blacklisted(h, there(j))}
<1>1. Api!Total \in Nat \ {0}
  BY Constants DEF Api!Total
<1>2. PICK p \in DOMAIN ApiWeighted : ApiWeighted[p] = e
  BY DEF Api!Known
<1>3. PICK j \in 0..(Api!Total - 1) : there(j) = e
  BY <1>2, WalkPasses
<1>4. free = {}
  <2> SUFFICES ASSUME free # {} PROVE FALSE
    OBVIOUS
  <2>1. free \in SUBSET Nat
    BY <1>1
  <2>2. PICK i \in free : \A k \in free : i <= k
    <3> HIDE DEF free
    <3> QED BY <2>1, SmallestIn
  <2>3. i \in 0..(Api!Total - 1) /\ ~Api!Blacklisted(h, there(i))
        /\ \A k \in 0..(i - 1) : Api!Blacklisted(h, there(k))
    <3>1. i \in 0..(Api!Total - 1) /\ ~Api!Blacklisted(h, there(i))
      BY <2>2
    <3>2. ASSUME NEW k \in 0..(i - 1), ~Api!Blacklisted(h, there(k)) PROVE FALSE
      <4>1. k \in 0..(Api!Total - 1) /\ ~(i <= k)
        BY <1>1, <3>1
      <4>2. k \in free
        BY <3>2, <4>1
      <4> QED BY <2>2, <4>1, <4>2
    <3> QED BY <3>1, <3>2
  <2>4. there(i) \in Api!Ahead(h)
    BY <2>3 DEF Api!Ahead
  <2> QED BY <2>4
<1> QED BY <1>3, <1>4

\* Pruning forgets penalties that have ended, and nothing else.
LEMMA PrunedPenalties ==
    ASSUME Api!TypeOK, Api!PenaltyEarned
    PROVE  /\ Api!Pruned(apiHealth) \in [Api!Known -> Api!Health]
           /\ \A e \in Api!Known :
                 /\ Api!Blacklisted(Api!Pruned(apiHealth), e) <=> Api!Blacklisted(apiHealth, e)
                 /\ Api!Pruned(apiHealth)[e].left
                       <= BaseBlacklist * Api!Pruned(apiHealth)[e].failureCount
<1>1. Api!Healthy \in Api!Health /\ Api!Healthy.left <= BaseBlacklist * Api!Healthy.failureCount
      /\ ~(Api!Healthy.left > 0)
  BY Constants DEF Api!Health, Api!Healthy, Api!Never
<1>2. \A e \in Api!Known :
         \/ Api!Pruned(apiHealth)[e] = Api!Healthy /\ apiHealth[e].left = 0
         \/ Api!Pruned(apiHealth)[e] = apiHealth[e]
  BY DEF Api!Pruned
<1> QED BY <1>1, <1>2 DEF Api!TypeOK, Api!PenaltyEarned, Api!Blacklisted, Api!Pruned

\* A product of the duration and a count is a duration.
LEMMA Penalty == \A n \in Nat : BaseBlacklist * n \in Nat
  BY Constants

\* What SelectGatewayEndpoint leaves.
LEMMA SelectStep ==
    ASSUME Api!TypeOK, Api!PenaltyEarned, NEW preference \in Api!Preference,
           Api!SelectGatewayEndpoint(preference)
    PROVE  Api!TypeOK' /\ Api!PenaltyEarned'
<1>1. PICK endpoint \in Api!Known :
         \E h \in {Api!Pruned(apiHealth)} \cup
                 {[Api!Pruned(apiHealth) EXCEPT ![e].left = Api!Never] : e \in Api!Known} :
            Api!Select(preference, endpoint, h) /\ apiHealth' = h
  BY DEF Api!SelectGatewayEndpoint
<1>2. /\ apiAnswer' = [asked |-> preference, given |-> endpoint]
      /\ UNCHANGED <<apiTurn, apiServed>> \/ Api!TakeTurn(preference, endpoint)
  BY <1>1 DEF Api!Select, Api!Preferred, Api!Walked
<1>3. Api!Total \in Nat \ {0} /\ apiTurn \in 0..(Api!Total - 1) /\ apiServed \in [Api!Known -> Nat]
  BY Constants DEF Api!TypeOK, Api!Total
<1>4. apiTurn' \in 0..(Api!Total - 1) /\ apiServed' \in [Api!Known -> Nat]
  <2>1. CASE UNCHANGED <<apiTurn, apiServed>>
    BY <1>3, <2>1
  <2>2. CASE Api!TakeTurn(preference, endpoint)
    BY <1>3, <2>2 DEF Api!TakeTurn, Api!NoneServed
  <2> QED BY <1>2, <2>1, <2>2
<1> DEFINE h0 == Api!Pruned(apiHealth)
<1>5. h0 \in [Api!Known -> Api!Health]
      /\ \A e \in Api!Known : h0[e].left <= BaseBlacklist * h0[e].failureCount
  BY PrunedPenalties
<1>6. apiHealth' = h0 \/ \E e \in Api!Known : apiHealth' = [h0 EXCEPT ![e].left = Api!Never]
  BY <1>1
<1> HIDE DEF h0
<1>7. apiHealth' \in [Api!Known -> Api!Health]
  BY <1>5, <1>6 DEF Api!Health
<1>8. \A e \in Api!Known :
         /\ apiHealth'[e].failureCount = h0[e].failureCount
         /\ apiHealth'[e].left = h0[e].left \/ apiHealth'[e].left = Api!Never
         /\ h0[e].failureCount \in Nat
  <2>1. \A e \in Api!Known : h0[e] \in Api!Health /\ h0[e].failureCount \in Nat
    BY <1>5, Constants DEF Api!Health
  <2>2. CASE apiHealth' = h0
    BY <2>1, <2>2
  <2>3. ASSUME NEW f \in Api!Known, apiHealth' = [h0 EXCEPT ![f].left = Api!Never]
        PROVE  \A e \in Api!Known :
                  /\ apiHealth'[e].failureCount = h0[e].failureCount
                  /\ apiHealth'[e].left = h0[e].left \/ apiHealth'[e].left = Api!Never
    <3>1. \A e \in Api!Known : e # f => apiHealth'[e] = h0[e]
      BY <1>5, <2>3
    <3>2. apiHealth'[f] = [h0[f] EXCEPT !.left = Api!Never]
      BY <1>5, <2>3
    <3>3. apiHealth'[f].failureCount = h0[f].failureCount /\ apiHealth'[f].left = Api!Never
      BY <2>1, <3>2 DEF Api!Health
    <3> QED BY <3>1, <3>3
  <2> QED BY <1>6, <2>1, <2>2, <2>3
<1>9. Api!PenaltyEarned'
  <2> SUFFICES ASSUME NEW e \in Api!Known
               PROVE  apiHealth'[e].left <= BaseBlacklist * apiHealth'[e].failureCount
    BY DEF Api!PenaltyEarned
  <2>1. BaseBlacklist * h0[e].failureCount \in Nat
    BY <1>8, Penalty
  <2>2. /\ h0[e].left <= BaseBlacklist * h0[e].failureCount
        /\ apiHealth'[e].failureCount = h0[e].failureCount
        /\ apiHealth'[e].left = h0[e].left \/ apiHealth'[e].left = -1
    BY <1>5, <1>8 DEF Api!Never
  <2> QED BY <2>1, <2>2
<1> QED BY <1>2, <1>4, <1>7, <1>9 DEF Api!TypeOK

\* A failure earns a longer penalty, up to the largest.
LEMMA FailureStep ==
    ASSUME Api!TypeOK, Api!PenaltyEarned, NEW e \in Api!Known, Api!ReportGatewayFailure(e)
    PROVE  Api!TypeOK' /\ Api!PenaltyEarned'
<1> DEFINE count == IF apiHealth[e].failureCount < MaxFailures
                    THEN apiHealth[e].failureCount + 1 ELSE MaxFailures
           penalty == BaseBlacklist * count
           left == IF penalty > MaxBlacklist THEN MaxBlacklist ELSE penalty
<1>1. apiHealth \in [Api!Known -> Api!Health] /\ count \in 0..MaxFailures
  BY Constants DEF Api!TypeOK, Api!Health
<1>2. penalty \in Nat
  BY <1>1, Constants, Penalty
<1>3. apiHealth' = [apiHealth EXCEPT ![e] = [failureCount |-> count, left |-> left]]
      /\ UNCHANGED <<apiTurn, apiAnswer, apiServed>>
  BY DEF Api!ReportGatewayFailure, Api!MarkFailure
<1> HIDE DEF count
<1>4. left <= BaseBlacklist * count
  BY <1>2, Constants
<1>5. left \in 0..MaxBlacklist
  BY <1>2, Constants
<1> HIDE DEF left
<1>6. Api!TypeOK'
  BY <1>1, <1>3, <1>5 DEF Api!TypeOK, Api!Health
<1>7. Api!PenaltyEarned'
  BY <1>1, <1>3, <1>4 DEF Api!PenaltyEarned
<1> QED BY <1>6, <1>7

\* Every call of a public method, and every tick, keeps penalties earned.
LEMMA InterfaceInductive ==
    ASSUME Api!TypeOK, Api!PenaltyEarned, [Api!InterfaceNext]_(Api!vars)
    PROVE  Api!TypeOK' /\ Api!PenaltyEarned'
<1>1. CASE UNCHANGED Api!vars
  BY <1>1 DEF Api!TypeOK, Api!PenaltyEarned, Api!vars
<1>2. CASE Api!Tick
  <2>1. \A f \in Api!Known : apiHealth[f] \in Api!Health
    BY DEF Api!TypeOK
  <2>2. \A f \in Api!Known :
           /\ apiHealth'[f] \in Api!Health
           /\ apiHealth'[f].failureCount = apiHealth[f].failureCount
           /\ apiHealth'[f].left <= apiHealth[f].left
    BY <1>2, <2>1, Constants DEF Api!Tick, Api!Health, Api!Never
  <2>3. Api!TypeOK'
    BY <1>2, <2>2 DEF Api!Tick, Api!TypeOK
  <2>4. Api!PenaltyEarned'
    <3> SUFFICES ASSUME NEW f \in Api!Known
                 PROVE  apiHealth'[f].left <= BaseBlacklist * apiHealth'[f].failureCount
      BY DEF Api!PenaltyEarned
    <3>1. /\ apiHealth[f].left <= BaseBlacklist * apiHealth[f].failureCount
          /\ apiHealth[f].failureCount \in Nat
      BY <2>1, Constants DEF Api!PenaltyEarned, Api!Health
    <3>2. BaseBlacklist * apiHealth[f].failureCount \in Nat
      BY <3>1, Penalty
    <3>3. apiHealth[f].left \in Int /\ apiHealth'[f].left \in Int
      BY <2>1, <2>2, Constants DEF Api!Health, Api!Never
    <3> QED BY <2>2, <3>1, <3>2, <3>3
  <2> QED BY <2>3, <2>4
<1>3. ASSUME NEW preference \in Api!Preference, Api!SelectGatewayEndpoint(preference)
      PROVE  Api!TypeOK' /\ Api!PenaltyEarned'
  BY <1>3, SelectStep
<1>4. ASSUME NEW e \in Api!Known, Api!ReportGatewayFailure(e)
      PROVE  Api!TypeOK' /\ Api!PenaltyEarned'
  BY <1>4, FailureStep
<1>5. ASSUME NEW e \in Api!Known, Api!ReportGatewaySuccess(e)
      PROVE  Api!TypeOK' /\ Api!PenaltyEarned'
  <2>1. Api!Healthy \in Api!Health /\ Api!Healthy.left <= BaseBlacklist * Api!Healthy.failureCount
    BY Constants DEF Api!Health, Api!Healthy, Api!Never
  <2>2. /\ apiHealth' = [apiHealth EXCEPT ![e] = Api!Healthy]
        /\ UNCHANGED <<apiTurn, apiAnswer, apiServed>>
    BY <1>5 DEF Api!ReportGatewaySuccess, Api!MarkSuccess
  <2> QED BY <2>1, <2>2 DEF Api!TypeOK, Api!PenaltyEarned
<1> QED BY <1>1, <1>2, <1>3, <1>4, <1>5 DEF Api!InterfaceNext

\* Penalties are always earned.
LEMMA InterfaceInvariance == Api!InterfaceSpec => [](Api!TypeOK /\ Api!PenaltyEarned)
<1>1. Api!Init => Api!TypeOK /\ Api!PenaltyEarned
  <2> SUFFICES ASSUME Api!Init PROVE Api!TypeOK /\ Api!PenaltyEarned
    OBVIOUS
  <2>1. Api!TypeOK
    <3>1. Api!Healthy \in Api!Health /\ Api!Total \in Nat \ {0}
      BY Constants DEF Api!Health, Api!Healthy, Api!Total
    <3> QED BY <3>1 DEF Api!Init, Api!TypeOK, Api!Preference, Api!NoneServed
  <2>2. Api!PenaltyEarned
    BY Constants DEF Api!Init, Api!PenaltyEarned, Api!Healthy, Api!Never
  <2> QED BY <2>1, <2>2
<1>2. Api!TypeOK /\ Api!PenaltyEarned /\ [Api!InterfaceNext]_(Api!vars)
         => (Api!TypeOK /\ Api!PenaltyEarned)'
  BY InterfaceInductive
<1> QED BY <1>1, <1>2, PTL DEF Api!InterfaceSpec

\* In whatever order the public methods are called and however much time passes,
\* what is left of a penalty never exceeds what the failures so far have earned.
THEOREM PenaltiesEarned == Api!InterfaceSpec => []PenaltySound
  BY InterfaceInvariance, PTL DEF PenaltySound

\* In whatever order the public methods are called, a blacklisted endpoint is
\* returned only if all are, and then one that will be free again first.
THEOREM BlacklistAvoided == Api!InterfaceSpec => BlacklistedOnlyIfAll
<1>1. ASSUME Api!TypeOK, Api!PenaltyEarned, [Api!InterfaceNext]_(Api!vars),
             apiAnswer' # apiAnswer,
             Api!Blacklisted(apiHealth, apiAnswer'.given), NEW f \in Api!Known
      PROVE  Api!Blacklisted(apiHealth, f) /\ apiHealth[apiAnswer'.given].left <= apiHealth[f].left
  <2>1. PICK preference \in Api!Preference : Api!SelectGatewayEndpoint(preference)
    BY <1>1
    DEF Api!InterfaceNext, Api!Tick, Api!ReportGatewayFailure, Api!ReportGatewaySuccess, Api!vars
  <2>2. PICK e, h : e \in Api!Known /\ Api!Select(preference, e, h)
    BY <2>1 DEF Api!SelectGatewayEndpoint
  <2>3. apiAnswer'.given = e
    BY <2>2 DEF Api!Select
  <2>4. Api!Blacklisted(Api!Pruned(apiHealth), e)
    BY <1>1, <2>2, <2>3, PrunedPenalties
  <2>5. e \in Api!FirstFree
    BY <2>2, <2>4 DEF Api!Select, Api!Preferred, Api!Walked, Api!Ahead
  <2>6. apiHealth[e].left <= apiHealth[f].left
    BY <2>5 DEF Api!FirstFree
  <2>7. apiHealth[e].left \in Int /\ apiHealth[f].left \in Int /\ apiHealth[e].left > 0
    BY <1>1, <2>2, <2>3, Constants, SMTT(20) DEF Api!TypeOK, Api!Health, Api!Never, Api!Blacklisted
  <2> QED BY <2>3, <2>6, <2>7 DEF Api!Blacklisted
<1>2. Api!TypeOK /\ Api!PenaltyEarned /\ [Api!InterfaceNext]_(Api!vars) =>
         [apiAnswer' # apiAnswer /\ Api!Blacklisted(apiHealth, apiAnswer'.given) =>
            \A e \in Api!Known :
               Api!Blacklisted(apiHealth, e)
               /\ apiHealth[apiAnswer'.given].left <= apiHealth[e].left]_(Api!vars)
  BY <1>1
<1> QED
  BY <1>2, InterfaceInvariance, PTL
  DEF Api!InterfaceSpec, BlacklistedOnlyIfAll, Api!AvoidsBlacklisted

\* A request whose preference cannot be had is answered by an endpoint that is
\* not blacklisted, if the cluster has one: the walk leaves out nobody.
THEOREM HealthyIsFound ==
    ASSUME Api!TypeOK, NEW preference, NEW endpoint, NEW h, Api!Walked(preference, endpoint, h),
           NEW e \in Api!Known, ~Api!Blacklisted(Api!Pruned(apiHealth), e)
    PROVE  ~Api!Blacklisted(Api!Pruned(apiHealth), endpoint)
<1>1. apiTurn \in 0..(Api!Total - 1)
  BY DEF Api!TypeOK
<1>2. Api!Ahead(Api!Pruned(apiHealth)) # {}
  BY <1>1, WalkLeavesOutNobody
<1> QED BY <1>2 DEF Api!Walked, Api!Ahead

-----------------------------------------------------------------------------
(***************************************************************************)
(* The list that is made of the configuration, by induction over its lines *)
(* and over the endpoints merged from them.                                *)
(***************************************************************************)
\* Induction, over a set of naturals.
LEMMA InductionIn ==
    ASSUME NEW T \in SUBSET Nat, 0 \in T, \A n \in T : n + 1 \in T
    PROVE  T = Nat
<1> SUFFICES ASSUME Nat \ T # {} PROVE FALSE
  OBVIOUS
<1>1. PICK x \in Nat \ T : \A y \in Nat \ T : x <= y
  BY SmallestIn
<1>2. x # 0 /\ x - 1 \in Nat /\ x - 1 \in T
  BY <1>1
<1> QED BY <1>1, <1>2

\* f is what a recursion over the numbers up to n computes in S: it begins
\* with first, and step[m] makes what follows the value at m - 1.
Unrolls(f, n, S, first, step) ==
    f \in [0..n -> S] /\ f[0] = first /\ \A m \in 1..n : f[m] = step[m][f[m - 1]]

\* Such a function exists.
LEMMA RecursionExists ==
    ASSUME NEW n \in Nat, NEW S, NEW first \in S, NEW step \in [1..n -> [S -> S]]
    PROVE  \E f : Unrolls(f, n, S, first, step)
<1> DEFINE T == {k \in Nat : k <= n => \E f : Unrolls(f, k, S, first, step)}
<1>1. 0 \in T
  <2>1. Unrolls([m \in 0..0 |-> first], 0, S, first, step)
    BY DEF Unrolls
  <2> QED BY <2>1
<1>2. ASSUME NEW k \in T PROVE k + 1 \in T
  <2>1. k \in Nat /\ k + 1 \in Nat
    OBVIOUS
  <2>2. ASSUME k + 1 <= n PROVE \E f : Unrolls(f, k + 1, S, first, step)
    <3>1. k <= n
      BY <2>1, <2>2
    <3>2. PICK f : Unrolls(f, k, S, first, step)
      BY <1>2, <3>1
    <3> DEFINE next == step[k + 1][f[k]]
               g == [m \in 0..(k + 1) |-> IF m <= k THEN f[m] ELSE next]
    <3>3. f \in [0..k -> S] /\ f[0] = first /\ \A m \in 1..k : f[m] = step[m][f[m - 1]]
      BY <3>2 DEF Unrolls
    <3>4. f[k] \in S /\ next \in S
      BY <2>1, <2>2, <3>3
    <3> HIDE DEF next
    <3>5. g \in [0..(k + 1) -> S] /\ g[0] = first
      BY <2>1, <3>3, <3>4
    <3>6. ASSUME NEW m \in 1..(k + 1) PROVE g[m] = step[m][g[m - 1]]
      <4>1. CASE m <= k
        BY <2>1, <3>3, <4>1
      <4>2. CASE m = k + 1
        <5>1. g[m] = next /\ g[k] = f[k] /\ m - 1 = k
          BY <2>1, <4>2
        <5> HIDE DEF g
        <5> QED BY <4>2, <5>1 DEF next
      <4>3. m <= k \/ m = k + 1
        BY <2>1
      <4> QED BY <4>1, <4>2, <4>3
    <3> HIDE DEF g
    <3>7. Unrolls(g, k + 1, S, first, step)
      BY <3>5, <3>6 DEF Unrolls
    <3> QED BY <3>7
  <2> QED BY <2>1, <2>2
<1>3. T = Nat
  <2>1. T \in SUBSET Nat
    OBVIOUS
  <2> HIDE DEF T
  <2> QED BY <1>1, <1>2, <2>1, InductionIn
<1>4. n \in T
  BY <1>3
<1> QED BY <1>4

\* What merging the lines is, line by line.
MergedBy(u, entries) ==
    /\ u \in [0..Len(entries) -> Seq(View!Entry)] /\ u[0] = <<>>
    /\ \A n \in 1..Len(entries) : u[n] = View!AccumulateEndpoint(u[n - 1], entries[n])

\* A line is merged into lines.
LEMMA AccumulateType ==
    ASSUME NEW unique \in Seq(View!Entry), NEW entry \in View!Entry
    PROVE  View!AccumulateEndpoint(unique, entry) \in Seq(View!Entry)
<1> DEFINE same == {i \in DOMAIN unique : unique[i].at = entry.at}
<1>0. MaxWord \in Nat \ {0}
  BY RegistrarAssumption DEF View!ClusterViewConstants
<1>1. CASE same = {}
  BY <1>1 DEF View!AccumulateEndpoint
<1>2. CASE same # {}
  <2> DEFINE i == CHOOSE j \in same : TRUE
  <2>1. i \in DOMAIN unique
    BY <1>2
  <2> HIDE DEF i
  <2>2. unique[i] \in View!Entry
    BY <2>1
  <2>3. View!AddWeights(unique[i].weight, entry.weight) \in 1..MaxWord
    BY <1>0, <2>2 DEF View!AddWeights, View!Lesser, View!Entry
  <2>4. [unique EXCEPT ![i].weight = View!AddWeights(@, entry.weight)] \in Seq(View!Entry)
    BY <2>1, <2>2, <2>3 DEF View!Entry
  <2> QED BY <1>2, <2>4 DEF View!AccumulateEndpoint, i
<1> QED BY <1>1, <1>2

\* Accumulated is that.
LEMMA AccumulatedIs ==
    ASSUME NEW entries \in Seq(View!Entry)
    PROVE  MergedBy(View!Accumulated(entries), entries)
<1> DEFINE L == Len(entries)
           S == Seq(View!Entry)
           F == [m \in 1..L |-> [unique \in S |-> View!AccumulateEndpoint(unique, entries[m])]]
<1>1. F \in [1..L -> [S -> S]]
  <2>1. ASSUME NEW m \in 1..L, NEW unique \in S
        PROVE  View!AccumulateEndpoint(unique, entries[m]) \in S
    <3>1. entries[m] \in View!Entry
      OBVIOUS
    <3> QED BY <3>1, AccumulateType
  <2> QED BY <2>1
<1>2. L \in Nat /\ <<>> \in S
  OBVIOUS
<1>3. PICK f : Unrolls(f, L, S, <<>>, F)
  <2> HIDE DEF F, L, S
  <2> QED BY <1>1, <1>2, RecursionExists
<1>4. \A m \in 1..L : f[m] = View!AccumulateEndpoint(f[m - 1], entries[m])
  <2>1. ASSUME NEW m \in 1..L PROVE f[m] = View!AccumulateEndpoint(f[m - 1], entries[m])
    <3>1. f[m - 1] \in S
      BY <1>2, <1>3 DEF Unrolls
    <3> HIDE DEF S
    <3> QED BY <1>3, <3>1 DEF Unrolls
  <2> QED BY <2>1
<1> DEFINE P(g) == g = [n \in 0..Len(entries) |->
                          IF n = 0 THEN <<>> ELSE View!AccumulateEndpoint(g[n - 1], entries[n])]
<1>5. P(f)
  BY <1>2, <1>3, <1>4 DEF Unrolls
<1>6. P(CHOOSE g : P(g))
  <2> HIDE DEF P
  <2> QED BY <1>5
<1>7. View!Accumulated(entries) = CHOOSE g : P(g)
  BY DEF View!Accumulated
<1>8. PICK u : u = View!Accumulated(entries) /\ P(u)
  BY <1>6, <1>7
<1>9. DOMAIN u = 0..L /\ u[0] = <<>>
      /\ \A n \in 1..L : u[n] = View!AccumulateEndpoint(u[n - 1], entries[n])
  BY <1>2, <1>8
<1>10. \A n \in 0..L : u[n] \in Seq(View!Entry)
  <2> DEFINE T == {n \in Nat : n <= L => u[n] \in Seq(View!Entry)}
  <2>1. 0 \in T
    BY <1>2, <1>9
  <2>2. ASSUME NEW n \in T PROVE n + 1 \in T
    <3> SUFFICES ASSUME n + 1 <= L PROVE u[n + 1] \in Seq(View!Entry)
      BY <2>2
    <3>1. u[n] \in Seq(View!Entry) /\ n + 1 \in 1..L /\ entries[n + 1] \in View!Entry
      BY <2>2
    <3>2. u[n + 1] = View!AccumulateEndpoint(u[n], entries[n + 1])
      BY <1>9, <3>1
    <3> QED BY <3>1, <3>2, AccumulateType
  <2>3. T = Nat
    BY <2>1, <2>2, InductionIn
  <2> QED BY <2>3
<1>11. u \in [0..L -> Seq(View!Entry)]
  BY <1>8, <1>10
<1> QED BY <1>8, <1>9, <1>11 DEF MergedBy

\* How many lines may have been read.
Lines == 0..Len(gatewayCluster)

\* A line weighs something, and no more than a word.
LEMMA LineType ==
    ASSUME gatewayCluster \in Seq(View!Entry), NEW n \in 1..Len(gatewayCluster)
    PROVE  /\ gatewayCluster[n] \in View!Entry /\ gatewayCluster[n].at \in Endpoint
           /\ gatewayCluster[n].weight \in Nat \ {0} /\ gatewayCluster[n].weight <= MaxWord
<1>1. gatewayCluster[n] \in View!Entry /\ MaxWord \in Nat
  BY RegistrarAssumption DEF View!ClusterViewConstants
<1> QED BY <1>1 DEF View!Entry

\* What the first lines ask for an endpoint, the sum WeightAsked is the last of.
AskedUpTo(endpoint) ==
    LET sum[n \in 0..Len(gatewayCluster)] ==
            IF n = 0 THEN 0
            ELSE sum[n - 1]
                 + (IF gatewayCluster[n].at = endpoint THEN gatewayCluster[n].weight ELSE 0)
    IN  sum

LEMMA AskedIs ==
    ASSUME gatewayCluster \in Seq(View!Entry), NEW endpoint
    PROVE  /\ View!WeightAsked(endpoint) = AskedUpTo(endpoint)[Len(gatewayCluster)]
           /\ AskedUpTo(endpoint) \in [Lines -> Nat] /\ AskedUpTo(endpoint)[0] = 0
           /\ \A n \in 1..Len(gatewayCluster) :
                 AskedUpTo(endpoint)[n] =
                    IF gatewayCluster[n].at = endpoint
                    THEN AskedUpTo(endpoint)[n - 1] + gatewayCluster[n].weight
                    ELSE AskedUpTo(endpoint)[n - 1]
<1> DEFINE L == Len(gatewayCluster)
           given(n) == IF gatewayCluster[n].at = endpoint THEN gatewayCluster[n].weight ELSE 0
           F == [m \in 1..L |-> [s \in Nat |-> s + given(m)]]
<1>0. L \in Nat /\ MaxWord \in Nat
  BY RegistrarAssumption DEF View!ClusterViewConstants
<1>1. \A n \in 1..L : gatewayCluster[n].weight \in Nat /\ given(n) \in Nat
  BY <1>0, LineType
<1>2. F \in [1..L -> [Nat -> Nat]]
  <2> HIDE DEF given
  <2> QED BY <1>1
<1>3. PICK f : Unrolls(f, L, Nat, 0, F)
  <2> HIDE DEF F, L
  <2> QED BY <1>0, <1>2, RecursionExists
<1>4. f \in [0..L -> Nat] /\ f[0] = 0 /\ \A m \in 1..L : f[m] = f[m - 1] + given(m)
  <2>1. f \in [0..L -> Nat] /\ f[0] = 0 /\ \A m \in 1..L : f[m] = F[m][f[m - 1]]
    BY <1>3 DEF Unrolls
  <2>2. ASSUME NEW m \in 1..L PROVE f[m] = f[m - 1] + given(m)
    <3>1. f[m - 1] \in Nat
      BY <1>0, <2>1
    <3> HIDE DEF given
    <3> QED BY <2>1, <3>1
  <2> QED BY <2>1, <2>2
<1> DEFINE P(g) == g = [n \in 0..Len(gatewayCluster) |->
                          IF n = 0 THEN 0
                          ELSE g[n - 1]
                               + (IF gatewayCluster[n].at = endpoint
                                  THEN gatewayCluster[n].weight ELSE 0)]
<1>5. P(f)
  <2>1. \A n \in 0..L : f[n] = IF n = 0 THEN 0 ELSE f[n - 1] + given(n)
    <3> HIDE DEF given
    <3> QED BY <1>0, <1>4
  <2> QED BY <1>4, <2>1
<1>6. P(CHOOSE g : P(g))
  <2> HIDE DEF P
  <2> QED BY <1>5
<1>7. AskedUpTo(endpoint) = CHOOSE g : P(g)
  BY DEF AskedUpTo
<1>8. PICK u : u = AskedUpTo(endpoint) /\ P(u)
  BY <1>6, <1>7
<1>9. DOMAIN u = 0..L /\ u[0] = 0 /\ \A n \in 1..L : u[n] = u[n - 1] + given(n)
  BY <1>0, <1>8
<1>10. \A n \in 0..L : u[n] = f[n]
  <2> DEFINE T == {n \in Nat : n <= L => u[n] = f[n]}
  <2>1. 0 \in T
    BY <1>4, <1>9
  <2>2. ASSUME NEW n \in T PROVE n + 1 \in T
    <3> SUFFICES ASSUME n + 1 <= L PROVE u[n + 1] = f[n + 1]
      BY <2>2
    <3>1. u[n] = f[n] /\ n + 1 \in 1..L /\ (n + 1) - 1 = n
      BY <1>0, <2>2
    <3> HIDE DEF given
    <3> QED BY <1>4, <1>9, <3>1
  <2>3. T = Nat
    <3> HIDE DEF T
    <3>1. T \in SUBSET Nat
      BY DEF T
    <3> QED BY <2>1, <2>2, <3>1, InductionIn
  <2> QED BY <2>3
<1>11. u \in [0..L -> Nat]
  BY <1>4, <1>8, <1>10
<1>12. \A n \in 1..L : u[n] = IF gatewayCluster[n].at = endpoint
                              THEN u[n - 1] + gatewayCluster[n].weight ELSE u[n - 1]
  <2> SUFFICES ASSUME NEW n \in 1..L
               PROVE  u[n] = IF gatewayCluster[n].at = endpoint
                             THEN u[n - 1] + gatewayCluster[n].weight ELSE u[n - 1]
    OBVIOUS
  <2>1. u[n] = u[n - 1] + given(n) /\ u[n - 1] \in Nat
    BY <1>0, <1>9, <1>11
  <2> QED BY <2>1
<1>13. View!WeightAsked(endpoint) = AskedUpTo(endpoint)[L]
  BY DEF View!WeightAsked, AskedUpTo
<1> QED BY <1>8, <1>9, <1>11, <1>12, <1>13 DEF Lines

\* An endpoint is asked for when it has a line.
LEMMA AskedByLine ==
    ASSUME gatewayCluster \in Seq(View!Entry), NEW endpoint, NEW n \in Lines
    PROVE  AskedUpTo(endpoint)[n] > 0 <=> \E k \in 1..n : gatewayCluster[k].at = endpoint
<1> DEFINE a == AskedUpTo(endpoint)
           T == {k \in Nat : k \in Lines =>
                   (a[k] > 0 <=> \E j \in 1..k : gatewayCluster[j].at = endpoint)}
<1>0. Lines = 0..Len(gatewayCluster) /\ Len(gatewayCluster) \in Nat
      /\ \A k \in 1..Len(gatewayCluster) : gatewayCluster[k].weight \in Nat \ {0}
  BY LineType DEF Lines
<1>1. a[0] = 0 /\ a \in [Lines -> Nat]
      /\ \A k \in 1..Len(gatewayCluster) :
            a[k] = IF gatewayCluster[k].at = endpoint
                   THEN a[k - 1] + gatewayCluster[k].weight ELSE a[k - 1]
  BY AskedIs
<1> HIDE DEF a
<1>2. 0 \in T
  BY <1>1
<1>3. ASSUME NEW k \in T PROVE k + 1 \in T
  <2> SUFFICES ASSUME k + 1 \in Lines
               PROVE  a[k + 1] > 0 <=> \E j \in 1..(k + 1) : gatewayCluster[j].at = endpoint
    BY <1>3
  <2>1. k \in Nat /\ k \in Lines /\ k + 1 \in 1..Len(gatewayCluster) /\ (k + 1) - 1 = k
    BY <1>0
  <2>2. a[k] > 0 <=> \E j \in 1..k : gatewayCluster[j].at = endpoint
    BY <1>3, <2>1
  <2>3. a[k] \in Nat /\ gatewayCluster[k + 1].weight \in Nat \ {0}
    BY <1>0, <1>1, <2>1
  <2>4. a[k + 1] = IF gatewayCluster[k + 1].at = endpoint
                   THEN a[k] + gatewayCluster[k + 1].weight ELSE a[k]
    BY <1>1, <2>1
  <2>5. (\E j \in 1..(k + 1) : gatewayCluster[j].at = endpoint)
          <=> gatewayCluster[k + 1].at = endpoint \/ \E j \in 1..k : gatewayCluster[j].at = endpoint
    BY <2>1
  <2> QED BY <2>2, <2>3, <2>4, <2>5
<1>4. T = Nat
  <2>1. T \in SUBSET Nat
    OBVIOUS
  <2> HIDE DEF T
  <2> QED BY <1>2, <1>3, <2>1, InductionIn
<1>5. n \in T
  BY <1>0, <1>4
<1> QED BY <1>5 DEF a

\* The k-th line is the first of its endpoint.
FirstLine(endpoint, k) ==
    /\ k \in DOMAIN gatewayCluster /\ gatewayCluster[k].at = endpoint
    /\ \A j \in 1..(k - 1) : gatewayCluster[j].at # endpoint

\* The endpoints of the first n lines, and no other.
Endpoints(u, n) ==
    /\ \A i \in DOMAIN u : \E k \in 1..n : gatewayCluster[k].at = u[i].at
    /\ \A k \in 1..n : \E i \in DOMAIN u : u[i].at = gatewayCluster[k].at

\* Each weighs what the first n lines ask for it, up to a word.
Sums(u, n) == \A i \in DOMAIN u : u[i].weight = View!Lesser(AskedUpTo(u[i].at)[n], MaxWord)

\* None occurs twice, and they stand in the order of their first lines.
InOrder(u) ==
    \A i, j \in DOMAIN u : i < j =>
        /\ u[i].at # u[j].at
        /\ \A a, b \in DOMAIN gatewayCluster :
              FirstLine(u[i].at, a) /\ FirstLine(u[j].at, b) => a < b

\* What is merged after the n-th line.
Merged(u, n) == u \in Seq(View!Entry) /\ Endpoints(u, n) /\ Sums(u, n) /\ InOrder(u)

\* The first line of an endpoint makes a new place.
LEMMA MergeNew ==
    ASSUME gatewayCluster \in Seq(View!Entry), NEW n \in Nat, n + 1 \in Lines,
           NEW u, Merged(u, n),
           \A i \in DOMAIN u : u[i].at # gatewayCluster[n + 1].at
    PROVE  Merged(Append(u, gatewayCluster[n + 1]), n + 1)
<1> DEFINE entry == gatewayCluster[n + 1]
           v == Append(u, entry)
<1>0. n + 1 \in 1..Len(gatewayCluster) /\ n \in Lines /\ (n + 1) - 1 = n
      /\ Len(gatewayCluster) \in Nat /\ DOMAIN gatewayCluster = 1..Len(gatewayCluster)
  BY DEF Lines
<1>1. /\ entry \in View!Entry /\ u \in Seq(View!Entry)
      /\ entry.weight \in Nat /\ entry.weight <= MaxWord
  BY <1>0, LineType DEF Merged
<1> HIDE DEF entry
<1>2. /\ v \in Seq(View!Entry) /\ Len(u) \in Nat /\ Len(v) = Len(u) + 1
      /\ DOMAIN u = 1..Len(u) /\ DOMAIN v = 1..(Len(u) + 1) /\ v[Len(u) + 1] = entry
      /\ \A i \in DOMAIN u : i \in DOMAIN v /\ v[i] = u[i]
  BY <1>1
<1> HIDE DEF v
<1>3. \A i \in DOMAIN v : i \in DOMAIN u \/ i = Len(u) + 1
  BY <1>2
<1>4. Endpoints(v, n + 1)
  <2>1. ASSUME NEW i \in DOMAIN v PROVE \E k \in 1..(n + 1) : gatewayCluster[k].at = v[i].at
    <3>1. CASE i \in DOMAIN u
      <4>1. PICK k \in 1..n : gatewayCluster[k].at = u[i].at
        BY <3>1 DEF Merged, Endpoints
      <4> QED BY <1>2, <3>1, <4>1
    <3>2. CASE i = Len(u) + 1
      BY <1>2, <3>2 DEF entry
    <3> QED BY <1>3, <3>1, <3>2
  <2>2. ASSUME NEW k \in 1..(n + 1) PROVE \E i \in DOMAIN v : v[i].at = gatewayCluster[k].at
    <3>1. CASE k \in 1..n
      <4>1. PICK i \in DOMAIN u : u[i].at = gatewayCluster[k].at
        BY <3>1 DEF Merged, Endpoints
      <4> QED BY <1>2, <4>1
    <3>2. CASE k = n + 1
      BY <1>2, <3>2 DEF entry
    <3>3. k \in 1..n \/ k = n + 1
      OBVIOUS
    <3> QED BY <3>1, <3>2, <3>3
  <2> QED BY <2>1, <2>2 DEF Endpoints
<1>5. Sums(v, n + 1)
  <2> SUFFICES ASSUME NEW i \in DOMAIN v
               PROVE  v[i].weight = View!Lesser(AskedUpTo(v[i].at)[n + 1], MaxWord)
    BY DEF Sums
  <2>1. CASE i \in DOMAIN u
    <3>1. u[i].at # gatewayCluster[n + 1].at
      BY <2>1
    <3>2. AskedUpTo(u[i].at)[n + 1] = AskedUpTo(u[i].at)[n]
      BY <1>0, <3>1, AskedIs
    <3> QED BY <1>2, <2>1, <3>2 DEF Merged, Sums
  <2>2. CASE i = Len(u) + 1
    <3>1. ~(\E k \in 1..n : gatewayCluster[k].at = entry.at)
      BY DEF Merged, Endpoints, entry
    <3>2. AskedUpTo(entry.at)[n] \in Nat
      BY <1>0, AskedIs
    <3>3. AskedUpTo(entry.at)[n] = 0
      BY <1>0, <3>1, <3>2, AskedByLine
    <3>4. AskedUpTo(entry.at)[n + 1] = AskedUpTo(entry.at)[n] + entry.weight
      BY <1>0, AskedIs DEF entry
    <3> QED BY <1>1, <1>2, <2>2, <3>3, <3>4 DEF View!Lesser
  <2> QED BY <1>3, <2>1, <2>2
<1>6. InOrder(v)
  <2> SUFFICES ASSUME NEW i \in DOMAIN v, NEW j \in DOMAIN v, i < j
               PROVE  /\ v[i].at # v[j].at
                      /\ \A a, b \in DOMAIN gatewayCluster :
                            FirstLine(v[i].at, a) /\ FirstLine(v[j].at, b) => a < b
    BY DEF InOrder
  <2>1. i \in DOMAIN u
    BY <1>2
  <2>2. CASE j \in DOMAIN u
    BY <1>2, <2>1, <2>2 DEF Merged, InOrder
  <2>3. CASE j = Len(u) + 1
    <3>1. v[i] = u[i] /\ v[j] = entry /\ u[i].at # entry.at
      BY <1>2, <2>1, <2>3 DEF entry
    <3>2. PICK k \in 1..n : gatewayCluster[k].at = u[i].at
      BY <2>1 DEF Merged, Endpoints
    <3>3. ASSUME NEW a \in DOMAIN gatewayCluster, NEW b \in DOMAIN gatewayCluster,
                 FirstLine(u[i].at, a), FirstLine(entry.at, b)
          PROVE  a < b
      <4>1. a \in Nat /\ b \in Nat
        BY <1>0
      <4>2. a <= k
        BY <1>0, <3>2, <3>3, <4>1 DEF FirstLine
      <4>3. ~(b \in 1..n)
        BY <3>3 DEF FirstLine, Merged, Endpoints, entry
      <4> QED BY <1>0, <4>1, <4>2, <4>3
    <3> QED BY <3>1, <3>3
  <2> QED BY <1>3, <2>2, <2>3
<1>7. Merged(v, n + 1)
  BY <1>2, <1>4, <1>5, <1>6 DEF Merged
<1> QED BY <1>7 DEF v, entry

\* A later line of an endpoint adds to the weight at its place.
LEMMA MergeSame ==
    ASSUME gatewayCluster \in Seq(View!Entry), NEW n \in Nat, n + 1 \in Lines,
           NEW u, Merged(u, n),
           NEW p \in DOMAIN u, u[p].at = gatewayCluster[n + 1].at
    PROVE  Merged([u EXCEPT ![p].weight = View!AddWeights(@, gatewayCluster[n + 1].weight)], n + 1)
<1> DEFINE entry == gatewayCluster[n + 1]
           v == [u EXCEPT ![p].weight = View!AddWeights(@, entry.weight)]
<1>0. n + 1 \in 1..Len(gatewayCluster) /\ n \in Lines /\ (n + 1) - 1 = n
      /\ Len(gatewayCluster) \in Nat /\ DOMAIN gatewayCluster = 1..Len(gatewayCluster)
  BY DEF Lines
<1>1. /\ entry \in View!Entry /\ u \in Seq(View!Entry) /\ entry.weight \in Nat \ {0}
      /\ MaxWord \in Nat /\ u[p] \in View!Entry /\ u[p].weight \in Nat \ {0}
  <2>1. /\ entry \in View!Entry /\ u \in Seq(View!Entry)
        /\ entry.weight \in Nat \ {0} /\ MaxWord \in Nat
    BY <1>0, LineType, RegistrarAssumption DEF Merged, View!ClusterViewConstants
  <2>2. u[p] \in View!Entry
    BY <2>1
  <2> QED BY <2>1, <2>2 DEF View!Entry
<1> HIDE DEF entry
<1>2. /\ DOMAIN v = DOMAIN u
      /\ \A i \in DOMAIN u : i # p => v[i] = u[i]
      /\ v[p] = [u[p] EXCEPT !.weight = View!AddWeights(u[p].weight, entry.weight)]
  BY <1>1
<1>3. v[p].at = u[p].at /\ v[p].weight = View!AddWeights(u[p].weight, entry.weight)
  BY <1>1, <1>2 DEF View!Entry
<1>4. View!AddWeights(u[p].weight, entry.weight) \in 1..MaxWord
  BY <1>1 DEF View!AddWeights, View!Lesser, View!Entry
<1>5. v \in Seq(View!Entry)
  <2>1. v[p] \in View!Entry
    BY <1>1, <1>2, <1>4 DEF View!Entry
  <2>2. v \in [1..Len(u) -> View!Entry]
    <3>1. DOMAIN u = 1..Len(u) /\ \A i \in DOMAIN u : u[i] \in View!Entry
      BY <1>1
    <3>2. v = [i \in DOMAIN u |-> v[i]]
      OBVIOUS
    <3> HIDE DEF v
    <3> QED BY <1>2, <2>1, <3>1, <3>2
  <2>3. Len(u) \in Nat
    BY <1>1
  <2> HIDE DEF v
  <2> QED BY <2>2, <2>3
<1> HIDE DEF v
<1>6. \A i \in DOMAIN u : v[i].at = u[i].at
  BY <1>2, <1>3
<1>7. Endpoints(v, n + 1)
  <2>1. \A i \in DOMAIN v : \E k \in 1..(n + 1) : gatewayCluster[k].at = v[i].at
    <3> SUFFICES ASSUME NEW i \in DOMAIN v
                 PROVE  \E k \in 1..(n + 1) : gatewayCluster[k].at = u[i].at
      BY <1>2, <1>6
    <3>1. PICK k \in 1..n : gatewayCluster[k].at = u[i].at
      BY <1>2 DEF Merged, Endpoints
    <3> QED BY <3>1
  <2>2. \A k \in 1..(n + 1) : \E i \in DOMAIN u : u[i].at = gatewayCluster[k].at
    <3> SUFFICES ASSUME NEW k \in 1..(n + 1)
                 PROVE  \E i \in DOMAIN u : u[i].at = gatewayCluster[k].at
      OBVIOUS
    <3>1. k \in 1..n \/ k = n + 1
      OBVIOUS
    <3> QED BY <3>1 DEF Merged, Endpoints
  <2> QED BY <1>2, <1>6, <2>1, <2>2 DEF Endpoints
<1>8. \A i \in DOMAIN u : i # p => u[i].at # u[p].at
  <2> SUFFICES ASSUME NEW i \in DOMAIN u, i # p PROVE u[i].at # u[p].at
    OBVIOUS
  <2>1. i < p \/ p < i
    BY <1>1
  <2> QED BY <2>1 DEF Merged, InOrder
<1>9. Sums(v, n + 1)
  <2> SUFFICES ASSUME NEW i \in DOMAIN u
               PROVE  v[i].weight = View!Lesser(AskedUpTo(u[i].at)[n + 1], MaxWord)
    BY <1>2, <1>6 DEF Sums
  <2>1. u[i].weight = View!Lesser(AskedUpTo(u[i].at)[n], MaxWord)
    BY DEF Merged, Sums
  <2>2. AskedUpTo(u[i].at)[n] \in Nat
    BY <1>0, AskedIs
  <2>3. CASE i = p
    <3>1. AskedUpTo(u[p].at)[n + 1] = AskedUpTo(u[p].at)[n] + entry.weight
      BY <1>0, AskedIs DEF entry
    <3> QED BY <1>1, <1>3, <2>1, <2>2, <2>3, <3>1 DEF View!AddWeights, View!Lesser
  <2>4. CASE i # p
    <3>1. AskedUpTo(u[i].at)[n + 1] = AskedUpTo(u[i].at)[n]
      BY <1>0, <1>8, <2>4, AskedIs DEF entry
    <3> QED BY <1>2, <2>1, <2>4, <3>1
  <2> QED BY <2>3, <2>4
<1>10. InOrder(v)
  BY <1>2, <1>6 DEF Merged, InOrder
<1>11. Merged(v, n + 1)
  BY <1>5, <1>7, <1>9, <1>10 DEF Merged
<1> QED BY <1>11 DEF v, entry

\* After the n-th line, all the lines up to it are merged.
LEMMA AccumulatedMerged ==
    ASSUME gatewayCluster \in Seq(View!Entry), NEW n \in Lines
    PROVE  Merged(View!Accumulated(gatewayCluster)[n], n)
<1> DEFINE u == View!Accumulated(gatewayCluster)
           T == {k \in Nat : k \in Lines => Merged(u[k], k)}
<1>1. MergedBy(u, gatewayCluster)
  BY AccumulatedIs
<1> HIDE DEF u
<1>2. u[0] = <<>> /\ \A k \in 1..Len(gatewayCluster) :
         u[k] = View!AccumulateEndpoint(u[k - 1], gatewayCluster[k])
  BY <1>1 DEF MergedBy
<1>3. 0 \in T
  <2>1. Merged(<<>>, 0)
    BY DEF Merged, Endpoints, Sums, InOrder
  <2> QED BY <1>2, <2>1
<1>4. ASSUME NEW k \in T PROVE k + 1 \in T
  <2> SUFFICES ASSUME k + 1 \in Lines PROVE Merged(u[k + 1], k + 1)
    BY <1>4
  <2>1. k \in Nat /\ k \in Lines /\ k + 1 \in 1..Len(gatewayCluster) /\ (k + 1) - 1 = k
    BY DEF Lines
  <2>2. Merged(u[k], k) /\ u[k + 1] = View!AccumulateEndpoint(u[k], gatewayCluster[k + 1])
    BY <1>2, <1>4, <2>1
  <2> DEFINE same == {i \in DOMAIN u[k] : u[k][i].at = gatewayCluster[k + 1].at}
  <2>3. CASE same = {}
    <3>1. u[k + 1] = Append(u[k], gatewayCluster[k + 1])
      BY <2>2, <2>3 DEF View!AccumulateEndpoint
    <3>2. \A i \in DOMAIN u[k] : u[k][i].at # gatewayCluster[k + 1].at
      BY <2>3
    <3> QED BY <2>1, <2>2, <3>1, <3>2, MergeNew
  <2>4. CASE same # {}
    <3> DEFINE p == CHOOSE i \in same : TRUE
    <3>1. p \in DOMAIN u[k] /\ u[k][p].at = gatewayCluster[k + 1].at
      BY <2>4
    <3>2. u[k + 1] = [u[k] EXCEPT ![p].weight = View!AddWeights(@, gatewayCluster[k + 1].weight)]
      BY <2>2, <2>4 DEF View!AccumulateEndpoint
    <3> HIDE DEF p
    <3> QED BY <2>1, <2>2, <3>1, <3>2, MergeSame
  <2> QED BY <2>3, <2>4
<1>5. T = Nat
  <2>1. T \in SUBSET Nat
    OBVIOUS
  <2> HIDE DEF T
  <2> QED BY <1>3, <1>4, <2>1, InductionIn
<1>6. n \in T
  BY <1>5 DEF Lines
<1> QED BY <1>6 DEF u

\* The cluster has the endpoints that are asked for, each once, and the local one.
LEMMA NormalizedIs ==
    ASSUME gatewayCluster \in Seq(View!Entry)
    PROVE  /\ View!Normalized \in Seq(View!Entry) /\ View!Normalized # <<>>
           /\ \E u : /\ Merged(u, Len(gatewayCluster))
                     /\ \/ (\E i \in DOMAIN u : u[i].at = Self) /\ View!Normalized = u
                        \/ /\ \A i \in DOMAIN u : u[i].at # Self
                           /\ View!Normalized = Append(u, [at |-> Self, weight |-> 1])
<1> DEFINE u == View!Accumulated(gatewayCluster)[Len(gatewayCluster)]
           local == [at |-> Self, weight |-> 1]
<1>1. Merged(u, Len(gatewayCluster))
  BY AccumulatedMerged DEF Lines
<1>2. local \in View!Entry
  BY RegistrarAssumption DEF View!Entry, View!ClusterViewConstants
<1>3. View!Normalized = IF \E i \in DOMAIN u : u[i].at = Self THEN u ELSE Append(u, local)
  BY DEF View!Normalized, View!NormalizeClusterGateways
<1> HIDE DEF u, local
<1>4. u \in Seq(View!Entry)
  BY <1>1 DEF Merged
<1>5. CASE \E i \in DOMAIN u : u[i].at = Self
  <2>1. View!Normalized = u /\ u # <<>>
    BY <1>3, <1>5
  <2> QED BY <1>1, <1>4, <1>5, <2>1
<1>6. CASE \A i \in DOMAIN u : u[i].at # Self
  <2>1. View!Normalized = Append(u, local)
    BY <1>3, <1>6
  <2>2. Append(u, local) \in Seq(View!Entry) /\ Append(u, local) # <<>>
    BY <1>2, <1>4
  <2> QED BY <1>1, <1>6, <2>1, <2>2 DEF local
<1> QED BY <1>5, <1>6

\* An endpoint that has a line has a first line, the one Place looks for.
LEMMA FirstLineExists ==
    ASSUME gatewayCluster \in Seq(View!Entry), NEW k \in DOMAIN gatewayCluster
    PROVE  \E a \in DOMAIN gatewayCluster : FirstLine(gatewayCluster[k].at, a)
<1> DEFINE T == {j \in DOMAIN gatewayCluster : gatewayCluster[j].at = gatewayCluster[k].at}
<1>1. DOMAIN gatewayCluster = 1..Len(gatewayCluster) /\ Len(gatewayCluster) \in Nat
  OBVIOUS
<1>2. T \in SUBSET Nat /\ T # {}
  BY <1>1
<1>3. PICK a \in T : \A j \in T : a <= j
  <2> HIDE DEF T
  <2> QED BY <1>2, SmallestIn
<1>4. a \in DOMAIN gatewayCluster /\ gatewayCluster[a].at = gatewayCluster[k].at
  BY <1>3
<1>5. ASSUME NEW j \in 1..(a - 1) PROVE gatewayCluster[j].at # gatewayCluster[k].at
  <2>1. j \in DOMAIN gatewayCluster /\ ~(a <= j)
    BY <1>1, <1>4
  <2> QED BY <1>3, <2>1
<1> QED BY <1>4, <1>5 DEF FirstLine

\* Merging meets its reference, whatever the lines.
LEMMA NormalizeIsReference ==
    ASSUME gatewayCluster \in Seq(View!Entry)
    PROVE  View!NormalizeMeetsReference
<1> DEFINE N == View!Normalized
           L == Len(gatewayCluster)
           asked == {endpoint \in Endpoint : View!WeightAsked(endpoint) > 0}
           Place(endpoint) ==
               CHOOSE i \in DOMAIN gatewayCluster :
                   /\ gatewayCluster[i].at = endpoint
                   /\ \A j \in 1..(i - 1) : gatewayCluster[j].at # endpoint
<1>1. PICK u : /\ Merged(u, L)
               /\ \/ (\E i \in DOMAIN u : u[i].at = Self) /\ N = u
                  \/ /\ \A i \in DOMAIN u : u[i].at # Self
                     /\ N = Append(u, [at |-> Self, weight |-> 1])
  BY NormalizedIs
<1>2. L \in Nat /\ L \in Lines /\ DOMAIN gatewayCluster = 1..L /\ Self \in Endpoint
  BY RegistrarAssumption DEF Lines, View!ClusterViewConstants
<1>3. \A endpoint : View!WeightAsked(endpoint) = AskedUpTo(endpoint)[L]
  BY AskedIs
<1>4. \A endpoint : endpoint \in asked <=> \E k \in 1..L : gatewayCluster[k].at = endpoint
  <2>1. \A endpoint : View!WeightAsked(endpoint) > 0
                         <=> \E k \in 1..L : gatewayCluster[k].at = endpoint
    BY <1>2, <1>3, AskedByLine
  <2>2. \A k \in 1..L : gatewayCluster[k].at \in Endpoint
    BY LineType
  <2> QED BY <2>1, <2>2
<1>5. u \in Seq(View!Entry) /\ Endpoints(u, L) /\ Sums(u, L) /\ InOrder(u)
  BY <1>1 DEF Merged
<1>6. \A endpoint \in asked : FirstLine(endpoint, Place(endpoint))
  <2> SUFFICES ASSUME NEW endpoint \in asked PROVE FirstLine(endpoint, Place(endpoint))
    OBVIOUS
  <2>1. \E i \in DOMAIN gatewayCluster : FirstLine(endpoint, i)
    BY <1>2, <1>4, FirstLineExists
  <2> HIDE DEF asked
  <2> QED BY <2>1 DEF FirstLine
<1> DEFINE n == Len(u)
           local == [at |-> Self, weight |-> 1]
<1>7. n \in Nat /\ DOMAIN u = 1..n
  BY <1>5
<1> HIDE DEF asked, Place, N, L, n
<1>8. /\ \A i \in DOMAIN u : i \in DOMAIN N /\ N[i] = u[i] /\ u[i].at \in asked
      /\ \A endpoint \in asked : \E i \in DOMAIN u : u[i].at = endpoint
  <2>1. \A i \in DOMAIN u : i \in DOMAIN N /\ N[i] = u[i]
    BY <1>1, <1>5
  <2>2. ASSUME NEW i \in DOMAIN u PROVE u[i].at \in asked
    <3>1. PICK k \in 1..L : gatewayCluster[k].at = u[i].at
      BY <1>5 DEF Endpoints
    <3> QED BY <1>4, <3>1
  <2>3. ASSUME NEW endpoint \in asked PROVE \E i \in DOMAIN u : u[i].at = endpoint
    <3>1. PICK k \in 1..L : gatewayCluster[k].at = endpoint
      BY <1>4
    <3>2. PICK i \in DOMAIN u : u[i].at = gatewayCluster[k].at
      BY <1>5 DEF Endpoints
    <3> QED BY <3>1, <3>2
  <2> QED BY <2>1, <2>2, <2>3
<1>9. \/ DOMAIN N = DOMAIN u /\ Self \in asked
      \/ /\ DOMAIN N = 1..(n + 1) /\ N[n + 1] = local /\ Self \notin asked
         /\ \A i \in DOMAIN u : u[i].at # Self
  <2>1. CASE N = u /\ \E i \in DOMAIN u : u[i].at = Self
    BY <1>8, <2>1
  <2>2. CASE (\A i \in DOMAIN u : u[i].at # Self) /\ N = Append(u, local)
    <3>1. DOMAIN N = 1..(n + 1) /\ N[n + 1] = local
      BY <1>5, <2>2 DEF n
    <3>2. Self \notin asked
      BY <1>8, <2>2
    <3> QED BY <2>2, <3>1, <3>2
  <2>3. \/ N = u /\ \E i \in DOMAIN u : u[i].at = Self
        \/ (\A i \in DOMAIN u : u[i].at # Self) /\ N = Append(u, local)
    BY <1>1
  <2> HIDE DEF local
  <2> QED BY <2>1, <2>2, <2>3
<1>10. {N[i].at : i \in DOMAIN N} = asked \cup {Self}
  <2>1. CASE DOMAIN N = DOMAIN u /\ Self \in asked
    BY <1>8, <2>1
  <2>2. CASE DOMAIN N = 1..(n + 1) /\ N[n + 1] = local
    <3>1. \A i \in 1..(n + 1) : i \in DOMAIN u \/ i = n + 1
      BY <1>7
    <3>2. local.at = Self /\ n + 1 \in 1..(n + 1)
      BY <1>7
    <3> HIDE DEF local
    <3> QED BY <1>8, <2>2, <3>1, <3>2
  <2> QED BY <1>9, <2>1, <2>2
<1>11. ASSUME NEW i \in DOMAIN N, NEW j \in DOMAIN N, i < j
       PROVE  /\ N[i].at # N[j].at
              /\ {N[i].at, N[j].at} \subseteq asked => Place(N[i].at) < Place(N[j].at)
  <2>1. CASE i \in DOMAIN u /\ j \in DOMAIN u
    <3>1. N[i] = u[i] /\ N[j] = u[j] /\ u[i].at # u[j].at
          /\ FirstLine(u[i].at, Place(u[i].at)) /\ FirstLine(u[j].at, Place(u[j].at))
      BY <1>5, <1>6, <1>8, <1>11, <2>1 DEF InOrder
    <3>2. Place(u[i].at) < Place(u[j].at)
      <4>1. Place(u[i].at) \in DOMAIN gatewayCluster /\ Place(u[j].at) \in DOMAIN gatewayCluster
        BY <3>1 DEF FirstLine
      <4> QED BY <1>5, <1>11, <2>1, <3>1, <4>1 DEF InOrder
    <3> QED BY <3>1, <3>2
  <2>2. CASE DOMAIN N = 1..(n + 1) /\ i \in DOMAIN u /\ j = n + 1
    <3>1. N[j].at = Self /\ Self \notin asked /\ N[i].at # Self
      BY <1>7, <1>8, <1>9, <2>2
    <3> QED BY <3>1
  <2>3. \/ i \in DOMAIN u /\ j \in DOMAIN u
        \/ DOMAIN N = 1..(n + 1) /\ i \in DOMAIN u /\ j = n + 1
    BY <1>7, <1>9, <1>11
  <2> QED BY <2>1, <2>2, <2>3
<1>12. ASSUME NEW i \in DOMAIN N
       PROVE  N[i].weight = IF N[i].at \in asked
                            THEN View!Lesser(View!WeightAsked(N[i].at), MaxWord) ELSE 1
  <2>1. CASE i \in DOMAIN u
    BY <1>3, <1>5, <1>8, <2>1 DEF Sums
  <2>2. CASE i \notin DOMAIN u
    BY <1>7, <1>9, <2>2
  <2> QED BY <2>1, <2>2
<1> QED BY <1>10, <1>11, <1>12 DEF View!NormalizeMeetsReference, N, asked, Place

\* f is what FlattenSeq makes of sequences over A, one after the other.
Flattens(f, seqs, A) ==
    /\ f \in [0..Len(seqs) -> Seq(A)] /\ f[0] = <<>>
    /\ \A m \in 1..Len(seqs) : f[m] = f[m - 1] \o seqs[m]
    /\ View!FlattenSeq(seqs) = f[Len(seqs)]

\* FlattenSeq does that.
LEMMA FlattenIs ==
    ASSUME NEW A, NEW seqs \in Seq(Seq(A)), seqs # <<>>
    PROVE  \E f : Flattens(f, seqs, A)
<1> DEFINE L == Len(seqs)
           S == Seq(A)
           F == [m \in 1..L |-> [s \in S |-> s \o seqs[m]]]
<1>1. L \in Nat \ {0} /\ <<>> \in S /\ \A m \in 1..L : seqs[m] \in Seq(A)
  OBVIOUS
<1>2. F \in [1..L -> [S -> S]]
  <2>1. ASSUME NEW m \in 1..L, NEW s \in S PROVE s \o seqs[m] \in S
    BY <1>1
  <2> QED BY <2>1
<1>3. PICK f : Unrolls(f, L, S, <<>>, F)
  <2> HIDE DEF F, L, S
  <2> QED BY <1>1, <1>2, RecursionExists
<1>4. f \in [0..L -> S] /\ f[0] = <<>> /\ \A m \in 1..L : f[m] = f[m - 1] \o seqs[m]
  <2>1. f \in [0..L -> S] /\ f[0] = <<>> /\ \A m \in 1..L : f[m] = F[m][f[m - 1]]
    BY <1>3 DEF Unrolls
  <2>2. ASSUME NEW m \in 1..L PROVE f[m] = f[m - 1] \o seqs[m]
    <3>1. f[m - 1] \in S
      BY <1>1, <2>1
    <3> HIDE DEF S
    <3> QED BY <2>1, <3>1
  <2> QED BY <2>1, <2>2
<1> DEFINE P(g) == g = [i \in 1..Len(seqs) |-> IF i = 1 THEN seqs[i] ELSE g[i - 1] \o seqs[i]]
           h == [i \in 1..L |-> f[i]]
<1>5. f[1] = seqs[1]
  <2>1. 1 \in 1..L /\ seqs[1] \in Seq(A)
    BY <1>1
  <2>2. f[1] = f[1 - 1] \o seqs[1]
    BY <1>4, <2>1
  <2>3. 1 - 1 = 0
    OBVIOUS
  <2>4. f[1] = <<>> \o seqs[1]
    BY <1>4, <2>2, <2>3
  <2> QED BY <2>1, <2>4
<1>6. P(h)
  <2>1. ASSUME NEW i \in 1..L PROVE h[i] = IF i = 1 THEN seqs[i] ELSE h[i - 1] \o seqs[i]
    <3>1. CASE i = 1
      BY <1>5, <3>1
    <3>2. CASE i # 1
      <4>1. i - 1 \in 1..L
        BY <3>2
      <4> QED BY <1>4, <3>2, <4>1
    <3> QED BY <3>1, <3>2
  <2>2. h = [i \in 1..L |-> h[i]]
    OBVIOUS
  <2> HIDE DEF h
  <2> QED BY <2>1, <2>2
<1>7. P(CHOOSE g : P(g))
  <2> HIDE DEF P
  <2> QED BY <1>6
<1>8. PICK u : u = (CHOOSE g : P(g)) /\ P(u)
  <2> HIDE DEF P
  <2> QED BY <1>7
<1>9. View!FlattenSeq(seqs) = u[L]
  <2>1. Len(seqs) # 0
    BY <1>1
  <2> QED BY <1>8, <2>1 DEF View!FlattenSeq
<1>10. u[1] = seqs[1] /\ \A i \in 2..L : u[i] = u[i - 1] \o seqs[i]
  <2>1. \A i \in 1..L : u[i] = IF i = 1 THEN seqs[i] ELSE u[i - 1] \o seqs[i]
    BY <1>8
  <2>2. ASSUME NEW i \in 2..L PROVE u[i] = u[i - 1] \o seqs[i]
    <3>1. i \in 1..L /\ i # 1
      BY <1>1
    <3> QED BY <2>1, <3>1
  <2>3. 1 \in 1..L
    BY <1>1
  <2> HIDE DEF L
  <2> QED BY <2>1, <2>2, <2>3
<1>11. u[L] = f[L]
  <2> DEFINE T == {n \in Nat : n + 1 <= L => u[n + 1] = f[n + 1]}
  <2>1. 0 \in T
    BY <1>5, <1>10
  <2>2. ASSUME NEW n \in T PROVE n + 1 \in T
    <3> SUFFICES ASSUME (n + 1) + 1 <= L PROVE u[(n + 1) + 1] = f[(n + 1) + 1]
      BY <2>2
    <3> DEFINE m == (n + 1) + 1
    <3>1. n \in Nat /\ u[n + 1] = f[n + 1]
      BY <1>1, <2>2
    <3>2. m \in 2..L /\ m \in 1..L /\ m - 1 = n + 1
      BY <1>1, <3>1
    <3> HIDE DEF m, L
    <3>3. u[m] = u[m - 1] \o seqs[m] /\ f[m] = f[m - 1] \o seqs[m]
      BY <1>4, <1>10, <3>2
    <3>4. u[m] = f[m]
      BY <3>1, <3>2, <3>3
    <3> QED BY <3>4 DEF m
  <2>3. T = Nat
    <3> HIDE DEF T
    <3>1. T \in SUBSET Nat
      BY DEF T
    <3> QED BY <2>1, <2>2, <3>1, InductionIn
  <2>4. L - 1 \in Nat /\ (L - 1) + 1 = L
    BY <1>1
  <2>5. L - 1 \in T
    <3> HIDE DEF T
    <3> QED BY <2>3, <2>4
  <2> QED BY <2>4, <2>5
<1> QED BY <1>4, <1>9, <1>11 DEF Flattens

\* Where an endpoint stands in a list.
Places(endpoint, list) == {i \in DOMAIN list : list[i] = endpoint}

\* ClusterView counts as this module does.
LEMMA SameCardinality ==
    ASSUME NEW S
    PROVE  View!Cardinality(S) = Cardinality(S)
  BY DEF View!Cardinality, Cardinality

\* A run of places of one endpoint, added to a list.
LEMMA OccurrencesAfter ==
    ASSUME NEW list \in Seq(Endpoint), NEW x \in Endpoint, NEW r \in Nat, NEW endpoint
    PROVE  LET longer == list \o [n \in 1..r |-> x]
           IN  /\ longer \in Seq(Endpoint) /\ Len(longer) = Len(list) + r
               /\ View!Occurrences(endpoint, list) \in Nat
               /\ View!Occurrences(endpoint, longer) =
                    View!Occurrences(endpoint, list) + (IF endpoint = x THEN r ELSE 0)
<1> DEFINE run == [n \in 1..r |-> x]
           longer == list \o run
           old == Places(endpoint, list)
           added == (Len(list) + 1)..(Len(list) + r)
<1>1. run \in Seq(Endpoint) /\ Len(run) = r /\ \A n \in 1..r : run[n] = x
  <2>1. run \in [1..r -> Endpoint]
    OBVIOUS
  <2>2. run \in Seq(Endpoint)
    <3> HIDE DEF run
    <3> QED BY <2>1
  <2>3. DOMAIN run = 1..r
    OBVIOUS
  <2>4. Len(run) = r
    <3> HIDE DEF run
    <3> QED BY <2>2, <2>3
  <2> QED BY <2>2, <2>4
<1> HIDE DEF run
<1>2. /\ longer \in Seq(Endpoint) /\ Len(longer) = Len(list) + r /\ Len(list) \in Nat
      /\ DOMAIN list = 1..Len(list) /\ DOMAIN longer = 1..(Len(list) + r)
      /\ \A i \in DOMAIN list : longer[i] = list[i]
      /\ \A i \in added : i \notin DOMAIN list /\ longer[i] = x
  BY <1>1
<1> HIDE DEF longer
<1>3. IsFiniteSet(old) /\ Cardinality(old) \in Nat
  <2>1. IsFiniteSet(1..Len(list)) /\ old \in SUBSET (1..Len(list))
    BY <1>2, FS_Interval DEF Places
  <2> QED BY <2>1, FS_Subset, FS_CardinalityType
<1>4. IsFiniteSet(added) /\ Cardinality(added) = r
  BY <1>2, FS_Interval
<1>5. Places(endpoint, longer) = IF endpoint = x THEN old \cup added ELSE old
  <2>1. \A i : i \in DOMAIN longer <=> i \in DOMAIN list \/ i \in added
    BY <1>2
  <2> HIDE DEF added
  <2> QED BY <1>2, <2>1 DEF Places
<1>6. old \cap added = {} /\ Cardinality({}) = 0
  BY <1>2, FS_EmptySet DEF Places
<1>7. Cardinality(old \cup added) = Cardinality(old) + r
  <2> HIDE DEF old, added
  <2>1. Cardinality(old \cup added) = Cardinality(old) + Cardinality(added) - Cardinality({})
    BY <1>3, <1>4, <1>6, FS_Union
  <2> QED BY <1>3, <1>4, <1>6, <2>1
<1>8. View!Occurrences(endpoint, list) = Cardinality(old)
      /\ View!Occurrences(endpoint, longer) = Cardinality(Places(endpoint, longer))
  <2>1. View!Occurrences(endpoint, list) = View!Cardinality(old)
    BY DEF View!Occurrences, Places
  <2>2. View!Occurrences(endpoint, longer) = View!Cardinality(Places(endpoint, longer))
    BY DEF View!Occurrences, Places
  <2> HIDE DEF old
  <2> QED BY <2>1, <2>2, SameCardinality
<1>9. View!Occurrences(endpoint, longer) = Cardinality(old) + (IF endpoint = x THEN r ELSE 0)
  <2> HIDE DEF old, added
  <2> QED BY <1>3, <1>5, <1>7, <1>8
<1> QED BY <1>2, <1>3, <1>8, <1>9 DEF longer, run

\* What the first m endpoints of a cluster add to the list.
Listed(cluster, list, m) ==
    /\ list \in Seq(Endpoint) /\ m <= Len(list) /\ Len(list) <= m * KMaxWeight
    /\ \A i \in 1..m :
          View!Occurrences(cluster[i].at, list) = View!Repetitions(cluster[i])
    /\ \A endpoint :
          (\A i \in 1..m : cluster[i].at # endpoint) => View!Occurrences(endpoint, list) = 0

LEMMA ListGrows ==
    ASSUME NEW cluster \in Seq(View!Entry),
           \A i, j \in DOMAIN cluster : i < j => cluster[i].at # cluster[j].at,
           NEW m \in Nat, m + 1 \in DOMAIN cluster, NEW list, Listed(cluster, list, m)
    PROVE  LET x == cluster[m + 1].at
               r == View!Repetitions(cluster[m + 1])
           IN  Listed(cluster, list \o [n \in 1..r |-> x], m + 1)
<1> DEFINE x == cluster[m + 1].at
           r == View!Repetitions(cluster[m + 1])
           longer == list \o [n \in 1..r |-> x]
<1>1. DOMAIN cluster = 1..Len(cluster) /\ Len(cluster) \in Nat /\ KMaxWeight \in Nat \ {0}
      /\ cluster[m + 1] \in View!Entry
  BY RegistrarAssumption DEF View!ClusterViewConstants
<1>2. x \in Endpoint /\ r \in Nat /\ 1 <= r /\ r <= KMaxWeight
  BY <1>1 DEF View!Entry, View!Repetitions, View!Lesser
<1>3. list \in Seq(Endpoint) /\ Len(list) \in Nat /\ m <= Len(list) /\ Len(list) <= m * KMaxWeight
  BY DEF Listed
<1> HIDE DEF x, r
<1>4. /\ longer \in Seq(Endpoint) /\ Len(longer) = Len(list) + r
      /\ \A endpoint : /\ View!Occurrences(endpoint, list) \in Nat
                       /\ View!Occurrences(endpoint, longer) =
                            View!Occurrences(endpoint, list) + (IF endpoint = x THEN r ELSE 0)
  BY <1>2, <1>3, OccurrencesAfter
<1> HIDE DEF longer
<1>5. m + 1 <= Len(longer) /\ Len(longer) <= (m + 1) * KMaxWeight
  <2>1. (m + 1) * KMaxWeight = m * KMaxWeight + KMaxWeight /\ m * KMaxWeight \in Nat
    BY <1>1
  <2> DEFINE p == m * KMaxWeight
             q == (m + 1) * KMaxWeight
  <2>2. q = p + KMaxWeight /\ p \in Nat /\ Len(list) <= p
    BY <1>3, <2>1
  <2> HIDE DEF p, q
  <2>3. m + 1 <= Len(longer) /\ Len(longer) <= q
    BY <1>1, <1>2, <1>3, <1>4, <2>2
  <2> QED BY <2>3 DEF q
<1>6. \A i \in 1..m : cluster[i].at # x
  <2> SUFFICES ASSUME NEW i \in 1..m PROVE cluster[i].at # x
    OBVIOUS
  <2>1. i \in DOMAIN cluster /\ i < m + 1
    BY <1>1
  <2> QED BY <2>1 DEF x
<1>7. ASSUME NEW i \in 1..(m + 1)
      PROVE  View!Occurrences(cluster[i].at, longer) = View!Repetitions(cluster[i])
  <2>1. CASE i \in 1..m
    <3>1. /\ View!Occurrences(cluster[i].at, list) = View!Repetitions(cluster[i])
          /\ cluster[i].at # x
      BY <1>6, <2>1 DEF Listed
    <3>2. View!Occurrences(cluster[i].at, longer) = View!Occurrences(cluster[i].at, list) + 0
          /\ View!Occurrences(cluster[i].at, list) \in Nat
      BY <1>4, <3>1
    <3> QED BY <3>1, <3>2
  <2>2. CASE i = m + 1
    <3>1. View!Occurrences(x, list) = 0
      BY <1>6 DEF Listed
    <3>2. View!Occurrences(x, longer) = r
      BY <1>2, <1>4, <3>1
    <3> QED BY <2>2, <3>2 DEF x, r
  <2>3. i \in 1..m \/ i = m + 1
    OBVIOUS
  <2> QED BY <2>1, <2>2, <2>3
<1>8. ASSUME NEW endpoint, \A i \in 1..(m + 1) : cluster[i].at # endpoint
      PROVE  View!Occurrences(endpoint, longer) = 0
  <2>1. endpoint # x /\ \A i \in 1..m : cluster[i].at # endpoint
    BY <1>8 DEF x
  <2>2. View!Occurrences(endpoint, list) = 0
    BY <2>1 DEF Listed
  <2> QED BY <1>4, <2>1, <2>2
<1>9. Listed(cluster, longer, m + 1)
  BY <1>4, <1>5, <1>7, <1>8 DEF Listed
<1> QED BY <1>9 DEF longer, x, r

\* The whole cluster, listed.
LEMMA WeightedListIs ==
    ASSUME NEW cluster \in Seq(View!Entry), cluster # <<>>,
           \A i, j \in DOMAIN cluster : i < j => cluster[i].at # cluster[j].at
    PROVE  Listed(cluster, View!WeightedEndpoints(cluster), Len(cluster))
<1> DEFINE L == Len(cluster)
           run(i) == [n \in 1..View!Repetitions(cluster[i]) |-> cluster[i].at]
           runs == [i \in DOMAIN cluster |-> run(i)]
<1>1. L \in Nat \ {0} /\ DOMAIN cluster = 1..L
  OBVIOUS
<1>2. \A i \in 1..L : run(i) \in Seq(Endpoint)
  <2> SUFFICES ASSUME NEW i \in 1..L PROVE run(i) \in Seq(Endpoint)
    OBVIOUS
  <2>1. cluster[i] \in View!Entry /\ KMaxWeight \in Nat
    BY RegistrarAssumption DEF View!ClusterViewConstants
  <2>2. cluster[i].at \in Endpoint /\ View!Repetitions(cluster[i]) \in Nat
    BY <2>1 DEF View!Entry, View!Repetitions, View!Lesser
  <2>3. run(i) \in [1..View!Repetitions(cluster[i]) -> Endpoint]
    BY <2>2
  <2> HIDE DEF run
  <2> QED BY <2>2, <2>3
<1>3. runs \in Seq(Seq(Endpoint)) /\ Len(runs) = L /\ runs # <<>>
      /\ \A i \in 1..L : runs[i] = run(i)
  <2> HIDE DEF run
  <2>1. runs \in [1..L -> Seq(Endpoint)]
    BY <1>1, <1>2
  <2>2. DOMAIN runs = 1..L /\ \A i \in 1..L : runs[i] = run(i)
    BY <1>1
  <2> HIDE DEF runs, L
  <2>3. runs \in Seq(Seq(Endpoint))
    BY <1>1, <2>1
  <2>4. Len(runs) = L
    BY <1>1, <2>2, <2>3
  <2> QED BY <1>1, <2>2, <2>3, <2>4
<1> HIDE DEF runs, run
<1>4. PICK f : Flattens(f, runs, Endpoint)
  BY <1>3, FlattenIs
<1>5. f[0] = <<>> /\ (\A m \in 1..L : f[m] = f[m - 1] \o run(m)) /\ View!FlattenSeq(runs) = f[L]
  BY <1>3, <1>4 DEF Flattens
<1>6. View!WeightedEndpoints(cluster) = f[L]
  BY <1>5 DEF View!WeightedEndpoints, runs, run
<1> DEFINE T == {m \in Nat : m <= L => Listed(cluster, f[m], m)}
<1>7. 0 \in T
  <2>1. \A e : Places(e, <<>>) = {}
    BY DEF Places
  <2>2. \A e : View!Occurrences(e, <<>>) = 0
    BY <2>1, SameCardinality, FS_EmptySet DEF View!Occurrences, Places
  <2>3. KMaxWeight \in Nat
    BY RegistrarAssumption DEF View!ClusterViewConstants
  <2>4. Listed(cluster, <<>>, 0)
    BY <2>2, <2>3 DEF Listed
  <2> QED BY <1>5, <2>4
<1>8. ASSUME NEW m \in T PROVE m + 1 \in T
  <2> SUFFICES ASSUME m + 1 <= L PROVE Listed(cluster, f[m + 1], m + 1)
    BY <1>8
  <2>1. m \in Nat /\ m + 1 \in DOMAIN cluster /\ (m + 1) - 1 = m /\ m + 1 \in 1..L
        /\ Listed(cluster, f[m], m)
    BY <1>1, <1>8
  <2>2. f[m + 1] = f[m] \o run(m + 1)
    BY <1>5, <2>1
  <2>3. Listed(cluster, f[m] \o run(m + 1), m + 1)
    BY <2>1, ListGrows DEF run
  <2> QED BY <2>2, <2>3
<1>9. T = Nat
  <2>1. T \in SUBSET Nat
    OBVIOUS
  <2> HIDE DEF T
  <2> QED BY <1>7, <1>8, <2>1, InductionIn
<1>10. L \in T
  BY <1>1, <1>9
<1> QED BY <1>6, <1>10

\* The list the registrar walks has each endpoint as often as it weighs.
LEMMA ListIsReference ==
    ASSUME gatewayCluster \in Seq(View!Entry)
    PROVE  View!WeightedListMeetsReference
<1> DEFINE N == View!Normalized
           list == View!WeightedEndpoints(N)
<1>1. N \in Seq(View!Entry) /\ N # <<>>
  BY NormalizedIs
<1>2. \A i, j \in DOMAIN N : i < j => N[i].at # N[j].at
  BY NormalizeIsReference DEF View!NormalizeMeetsReference
<1> HIDE DEF N
<1>3. Listed(N, list, Len(N))
  BY <1>1, <1>2, WeightedListIs
<1> HIDE DEF list
<1>4. 0 < Len(list) /\ Len(list) <= Len(N) * KMaxWeight
  <2>1. Len(N) \in Nat \ {0} /\ list \in Seq(Endpoint)
    BY <1>1, <1>3 DEF Listed
  <2>2. Len(list) \in Nat /\ Len(N) <= Len(list)
    BY <1>3, <2>1 DEF Listed
  <2> QED BY <1>3, <2>1, <2>2 DEF Listed
<1>5. ASSUME NEW i \in DOMAIN N
      PROVE  /\ View!Occurrences(N[i].at, list) >= 1
             /\ N[i].weight <= KMaxWeight => View!Occurrences(N[i].at, list) = N[i].weight
  <2>1. i \in 1..Len(N) /\ N[i] \in View!Entry /\ KMaxWeight \in Nat \ {0} /\ MaxWord \in Nat
    BY <1>1, RegistrarAssumption DEF View!ClusterViewConstants
  <2>2. View!Occurrences(N[i].at, list) = View!Repetitions(N[i])
    BY <1>3, <2>1 DEF Listed
  <2>3. N[i].weight \in 1..MaxWord
    BY <2>1 DEF View!Entry
  <2> QED BY <2>1, <2>2, <2>3 DEF View!Repetitions, View!Lesser
<1> QED BY <1>4, <1>5 DEF View!WeightedListMeetsReference, N, list

\* What the configuration asks for is what the registrar walks, whatever
\* the lines are: none is lost or invented.
THEOREM ConfigurationListed == View!Spec => []ListMeetsReference
<1> DEFINE Typed == gatewayCluster \in Seq(View!Entry)
<1>1. View!Init => Typed
  BY DEF View!Init
<1>2. Typed /\ [View!Next]_gatewayCluster => Typed'
  <2> SUFFICES ASSUME gatewayCluster \in Seq(View!Entry), [View!Next]_gatewayCluster
               PROVE  gatewayCluster' \in Seq(View!Entry)
    OBVIOUS
  <2>1. ASSUME NEW endpoint \in Endpoint, NEW weight \in Weights, View!ReadEntry(endpoint, weight)
        PROVE  gatewayCluster' \in Seq(View!Entry)
    <3>1. weight \in Nat \ {0} /\ MaxWord \in Nat \ {0}
      BY RegistrarAssumption DEF View!ClusterViewConstants
    <3>2. View!Parse(endpoint, weight) \in View!Entry
      BY <3>1 DEF View!Parse, View!Lesser, View!Entry
    <3> QED BY <2>1, <3>2 DEF View!ReadEntry
  <2> QED BY <2>1 DEF View!Next
<1>3. Typed => ListMeetsReference
  BY NormalizeIsReference, ListIsReference DEF ListMeetsReference
<1> HIDE DEF Typed
<1> QED BY <1>1, <1>2, <1>3, PTL DEF View!Spec
=============================================================================
