---------------------------- MODULE RegistrarNode ----------------------------
(***************************************************************************)
(* The registrar (RegistrarNode.cpp) and its one request,                  *)
(* REGISTRAR_GETCHATSERVER: which gateway a game server is sent to.  It    *)
(* walks a list in which an endpoint occurs as often as it weighs,         *)
(* returns the endpoint the request prefers if it is in the list, and      *)
(* passes over endpoints that are blacklisted after a reported failure.    *)
(*                                                                         *)
(* Times are counted from now: left is what remains of a penalty, 0 when   *)
(* it has expired and was not pruned yet.  The index counts modulo the     *)
(* length of the list; the 2^64 requests after which size_t wraps are not  *)
(* modelled.  EndpointHealth holds an entry for each endpoint of the list  *)
(* from RebuildClusterView on, so the code that adds a missing one never   *)
(* runs and is left out.                                                   *)
(*                                                                         *)
(* Next is what the program does.  InterfaceNext calls the node's public   *)
(* methods in any order, as other code could.                              *)
(***************************************************************************)
EXTENDS Integers, Sequences, FiniteSets

CONSTANTS
    Weighted,         \* weightedGatewayEndpoints_, see ClusterView
    Stranger,         \* what a request may prefer that is not in the list
    NoPreference,     \* no host name, or port 0
    BaseBlacklist,    \* kBaseBlacklistDuration: 5 s in the code
    MaxBlacklist,     \* kMaxBlacklistDuration: 60 s in the code
    MaxFailures       \* the largest uint16_t, at which failureCount stays

Known == {Weighted[i] : i \in DOMAIN Weighted}

ASSUME RegistrarNodeAssumption ==
    /\ Weighted \in Seq(Known) /\ Weighted # <<>>
    /\ Stranger \notin Known /\ NoPreference \notin Known
    /\ BaseBlacklist \in Nat \ {0} /\ MaxBlacklist \in Nat \ {0} /\ MaxFailures \in Nat \ {0}

Total == Len(Weighted)

Never == -1    \* blacklistUntil is the epoch

VARIABLES
    health,     \* endpointHealth_
    turn,       \* nextGatewayIndex_
    answer,     \* the last request and the endpoint returned
    served      \* how often the walk chose each endpoint since it last
                \* came to the head of the list

vars == <<health, turn, answer, served>>

Health == [failureCount: 0..MaxFailures, left: {Never} \cup 0..MaxBlacklist]

Healthy == [failureCount |-> 0, left |-> Never]

Preference == Known \cup {Stranger, NoPreference}

TypeOK ==
    /\ health \in [Known -> Health]
    /\ turn \in 0..(Total - 1)
    /\ answer \in [asked: Preference, given: Known \cup {NoPreference}]
    /\ served \in [Known -> Nat]

NoneServed == [e \in Known |-> 0]

Init ==
    /\ health = [e \in Known |-> Healthy]
    /\ turn = 0
    /\ answer = [asked |-> NoPreference, given |-> NoPreference]
    /\ served = NoneServed

-----------------------------------------------------------------------------
\* Mutant: pruning forgets the failures of endpoints still blacklisted.
PrunedForgiving(h) ==
    [e \in Known |-> IF h[e].left = 0 THEN Healthy ELSE [h[e] EXCEPT !.failureCount = 0]]

Pruned(h) == [e \in Known |-> IF h[e].left = 0 THEN Healthy ELSE h[e]]

Blacklisted(h, e) == h[e].left > 0

\* Mutant: the count of failures is not capped.
MarkFailureUncapped(h, e) ==
    [h EXCEPT ![e] = [failureCount |-> h[e].failureCount + 1,
                      left |-> IF BaseBlacklist * (h[e].failureCount + 1) > MaxBlacklist
                               THEN MaxBlacklist
                               ELSE BaseBlacklist * (h[e].failureCount + 1)]]

MarkFailure(h, e) ==
    IF e \notin Known THEN h
    ELSE LET count == IF h[e].failureCount < MaxFailures
                      THEN h[e].failureCount + 1 ELSE MaxFailures
             penalty == BaseBlacklist * count
         IN  [h EXCEPT ![e] =
                [failureCount |-> count,
                 left |-> IF penalty > MaxBlacklist THEN MaxBlacklist ELSE penalty]]

MarkSuccess(h, e) == [h EXCEPT ![e] = Healthy]

\* Mutant: the walk does not look at the blacklist.
AheadBlindly(h) == {Weighted[turn + 1]}

\* The first place from turn on that is not blacklisted.
Ahead(h) ==
    {Weighted[((turn + i) % Total) + 1] :
        i \in {j \in 0..(Total - 1) :
                 /\ ~Blacklisted(h, Weighted[((turn + j) % Total) + 1])
                 /\ \A k \in 0..(j - 1) : Blacklisted(h, Weighted[((turn + k) % Total) + 1])}}

\* With everything blacklisted, the endpoints that are free again first.
FirstFree == {e \in Known : \A f \in Known : health[e].left <= health[f].left}

(***************************************************************************)
(* SelectGatewayEndpoint: endpoint is the one returned, h the health left. *)
(* The request takes a turn unless it gets the endpoint it prefers.        *)
(***************************************************************************)
Preferred(preference, endpoint, h) ==
    /\ preference \in Known /\ ~Blacklisted(Pruned(health), preference)
    /\ endpoint = preference /\ h = Pruned(health)
    /\ UNCHANGED <<turn, served>>

\* Mutant: the turn is not taken when the request has a preference.
TakeTurnUnlessAsked(preference, endpoint) ==
    /\ turn' = IF preference = NoPreference THEN (turn + 1) % Total ELSE turn
    /\ served' = [(IF turn = 0 THEN NoneServed ELSE served) EXCEPT ![endpoint] = @ + 1]

TakeTurn(preference, endpoint) ==
    /\ turn' = (turn + 1) % Total
    /\ served' = [(IF turn = 0 THEN NoneServed ELSE served) EXCEPT ![endpoint] = @ + 1]

Walked(preference, endpoint, h) ==
    /\ ~(preference \in Known /\ ~Blacklisted(Pruned(health), preference))
    /\ TakeTurn(preference, endpoint)
    /\ \/ endpoint \in Ahead(Pruned(health)) /\ h = Pruned(health)
       \/ /\ Ahead(Pruned(health)) = {}
          /\ endpoint \in FirstFree /\ h = [Pruned(health) EXCEPT ![endpoint].left = Never]

Select(preference, endpoint, h) ==
    /\ Preferred(preference, endpoint, h) \/ Walked(preference, endpoint, h)
    /\ answer' = [asked |-> preference, given |-> endpoint]

-----------------------------------------------------------------------------
\* Mutant: a preference is reported as failed even when it was returned.
RegistrarGetChatServerBlaming(preference) ==
    \E endpoint \in Known :
        /\ Select(preference, endpoint, Pruned(health))
        /\ health' = MarkFailure(MarkSuccess(Pruned(health), endpoint), preference)

\* The constructor of RegistrarGetChatServer: the whole request.
RegistrarGetChatServer(preference) ==
    \E endpoint \in Known : \E h \in {Pruned(health)} \cup
            {[Pruned(health) EXCEPT ![e].left = Never] : e \in Known} :
        /\ Select(preference, endpoint, h)
        /\ health' = MarkSuccess(IF preference \in {NoPreference, endpoint} THEN h
                                 ELSE MarkFailure(h, preference),
                                 endpoint)

\* A second passes.
Tick ==
    /\ health' = [e \in Known |->
                    [health[e] EXCEPT !.left = IF @ > 0 THEN @ - 1 ELSE @]]
    /\ UNCHANGED <<turn, answer, served>>

Next == Tick \/ \E preference \in Preference : RegistrarGetChatServer(preference)

Spec == Init /\ [][Next]_vars

\* The public methods, each on its own.
SelectGatewayEndpoint(preference) ==
    \E endpoint \in Known : \E h \in {Pruned(health)} \cup
            {[Pruned(health) EXCEPT ![e].left = Never] : e \in Known} :
        Select(preference, endpoint, h) /\ health' = h

ReportGatewayFailure(e) ==
    /\ health' = MarkFailure(health, e)
    /\ UNCHANGED <<turn, answer, served>>

ReportGatewaySuccess(e) ==
    /\ health' = MarkSuccess(health, e)
    /\ UNCHANGED <<turn, answer, served>>

InterfaceNext ==
    \/ Tick
    \/ \E preference \in Preference : SelectGatewayEndpoint(preference)
    \/ \E e \in Known : ReportGatewayFailure(e) \/ ReportGatewaySuccess(e)

InterfaceSpec == Init /\ [][InterfaceNext]_vars

-----------------------------------------------------------------------------
(***************************************************************************)
(* Properties                                                              *)
(***************************************************************************)
\* The only code that reports a failure is the request handler, when the
\* endpoint returned is not the one preferred; and that takes a blacklisted
\* endpoint.  So nothing is ever blacklisted: failover by blacklist, though
\* implemented, is never reached.
NothingBlacklisted == \A e \in Known : health[e] = Healthy

\* A game server that prefers an endpoint of the cluster always gets it.
PreferenceHonored == answer.asked \in Known => answer.given = answer.asked

\* In each round of the list, whatever preferences interrupt it, the walk
\* chooses every endpoint as often as it weighs.
WeightedShare ==
    turn = 0 /\ served # NoneServed =>
        \A e \in Known : served[e] = Cardinality({i \in DOMAIN Weighted : Weighted[i] = e})

\* With failures reported, an endpoint that is blacklisted is returned only
\* if all are, and then none of the others would have been free before it.
AvoidsBlacklisted ==
    [][answer' # answer /\ Blacklisted(health, answer'.given) =>
        \A e \in Known : Blacklisted(health, e) /\ health[answer'.given].left <= health[e].left]_vars

\* Failures add up to longer penalties and only success or the end of a
\* penalty forgives them: what is left of a penalty never exceeds what the
\* failures so far have earned.
PenaltyEarned ==
    \A e \in Known : health[e].left <= BaseBlacklist * health[e].failureCount
=============================================================================
