----------------------------- MODULE ClusterView -----------------------------
(***************************************************************************)
(* How the gateway_cluster entries of the configuration become the list    *)
(* the registrar walks: parsing (main.cpp) clips a weight to 16 bits,      *)
(* NormalizeClusterGateways (StationChatConfig.hpp) merges the entries of  *)
(* an endpoint and adds the local gateway, and RebuildClusterView          *)
(* (RegistrarNode.cpp) repeats each endpoint as often as it weighs.        *)
(*                                                                         *)
(* An endpoint is its address and port together.  An entry is what one     *)
(* line asks for; lines are read one by one, which the actions are.        *)
(***************************************************************************)
EXTENDS Naturals, SequencesExt

CONSTANTS
    Endpoint,
    Self,          \* the local gateway, of Endpoint
    Weights,       \* the weights that entries give, none 0
    KMaxWeight,    \* kMaxWeight: 100 in the code
    MaxWord,       \* the largest uint16_t
    MaxEntries     \* bound: lines in the configuration

\* What the constants must be.
ClusterViewConstants ==
    /\ Self \in Endpoint /\ Weights \subseteq Nat \ {0}
    /\ KMaxWeight \in Nat \ {0} /\ MaxWord \in Nat \ {0} /\ MaxEntries \in Nat

VARIABLE gatewayCluster    \* the entries read so far

Entry == [at: Endpoint, weight: 1..MaxWord]

Lesser(m, n) == IF m <= n THEN m ELSE n

\* ParseGatewayClusterEndpoint; a weight of 0 is refused.
Parse(endpoint, weight) == [at |-> endpoint, weight |-> Lesser(weight, MaxWord)]

Init == gatewayCluster = <<>>

ReadEntry(endpoint, weight) ==
    /\ Len(gatewayCluster) < MaxEntries
    /\ gatewayCluster' = Append(gatewayCluster, Parse(endpoint, weight))

Next == \E endpoint \in Endpoint, weight \in Weights : ReadEntry(endpoint, weight)

Spec == Init /\ [][Next]_gatewayCluster

-----------------------------------------------------------------------------
\* Mutant: the sum of the weights wraps around.
AddWeightsWrapping(m, n) == (m + n) % (MaxWord + 1)

AddWeights(m, n) == Lesser(m + n, MaxWord)

AccumulateEndpoint(unique, entry) ==
    LET same == {i \in DOMAIN unique : unique[i].at = entry.at}
    IN  IF same = {} THEN Append(unique, entry)
        ELSE [unique EXCEPT ![CHOOSE i \in same : TRUE].weight = AddWeights(@, entry.weight)]

\* The endpoints after each line.
Accumulated(entries) ==
    LET unique[n \in 0..Len(entries)] ==
            IF n = 0 THEN <<>> ELSE AccumulateEndpoint(unique[n - 1], entries[n])
    IN  unique

NormalizeClusterGateways(entries) ==
    LET unique == Accumulated(entries)[Len(entries)]
    IN  IF \E i \in DOMAIN unique : unique[i].at = Self
        THEN unique
        ELSE Append(unique, [at |-> Self, weight |-> 1])

\* Mutant: the weight is not clamped.
RepetitionsUnclamped(entry) == entry.weight

Repetitions(entry) == Lesser(entry.weight, KMaxWeight)

WeightedEndpoints(cluster) ==
    FlattenSeq([i \in DOMAIN cluster |-> [n \in 1..Repetitions(cluster[i]) |-> cluster[i].at]])

Occurrences(endpoint, list) == Cardinality({i \in DOMAIN list : list[i] = endpoint})

-----------------------------------------------------------------------------
(***************************************************************************)
(* Properties                                                              *)
(***************************************************************************)
Normalized == NormalizeClusterGateways(gatewayCluster)

WeightAsked(endpoint) ==
    LET sum[n \in 0..Len(gatewayCluster)] ==
            IF n = 0 THEN 0
            ELSE sum[n - 1]
                 + (IF gatewayCluster[n].at = endpoint THEN gatewayCluster[n].weight ELSE 0)
    IN  sum[Len(gatewayCluster)]

\* Merging loses no line and invents none: the normalized cluster holds the
\* endpoints asked for and the local gateway, each once, in the order of
\* their first lines, with the sum of the weights their lines give (the
\* largest 16-bit number when the sum is beyond it).
NormalizeMeetsReference ==
    LET asked == {endpoint \in Endpoint : WeightAsked(endpoint) > 0}
        Place(endpoint) ==
            CHOOSE i \in DOMAIN gatewayCluster :
                /\ gatewayCluster[i].at = endpoint
                /\ \A j \in 1..(i - 1) : gatewayCluster[j].at # endpoint
    IN  /\ {Normalized[i].at : i \in DOMAIN Normalized} = asked \cup {Self}
        /\ \A i, j \in DOMAIN Normalized : i < j =>
              /\ Normalized[i].at # Normalized[j].at
              /\ {Normalized[i].at, Normalized[j].at} \subseteq asked
                    => Place(Normalized[i].at) < Place(Normalized[j].at)
        /\ \A i \in DOMAIN Normalized :
              Normalized[i].weight =
                 IF Normalized[i].at \in asked
                 THEN Lesser(WeightAsked(Normalized[i].at), MaxWord) ELSE 1

\* The list the registrar walks is never empty, stays within kMaxWeight
\* places per endpoint, and gives every endpoint of the cluster its weight
\* when no weight is above kMaxWeight.
WeightedListMeetsReference ==
    LET list == WeightedEndpoints(Normalized)
    IN  /\ 0 < Len(list) /\ Len(list) <= Len(Normalized) * KMaxWeight
        /\ \A i \in DOMAIN Normalized :
              /\ Occurrences(Normalized[i].at, list) >= 1
              /\ Normalized[i].weight <= KMaxWeight
                    => Occurrences(Normalized[i].at, list) = Normalized[i].weight

\* "The registrar still honors relative weights while keeping the in-memory
\* representation bounded": an endpoint that weighs more than another has
\* more places.
HonorsRelativeWeights ==
    LET list == WeightedEndpoints(Normalized)
    IN  \A i, j \in DOMAIN Normalized :
            Normalized[i].weight > Normalized[j].weight
                => Occurrences(Normalized[i].at, list) > Occurrences(Normalized[j].at, list)
=============================================================================
