------------------------------ MODULE Registrar ------------------------------
(***************************************************************************)
(* The registrar from its configuration to its answers: the program, which *)
(* is RegistrarNode as it stands; a second node whose public methods are   *)
(* called in any order (Api), as only then endpoints get blacklisted; and  *)
(* the list that is made of the configuration (View).  They do not share   *)
(* state.                                                                  *)
(***************************************************************************)
EXTENDS RegistrarNode

CONSTANTS
    ApiWeighted,                                          \* the list of the second node
    Endpoint, Self, Weights, KMaxWeight, MaxWord, MaxEntries    \* of ClusterView

VARIABLES apiHealth, apiTurn, apiAnswer, apiServed, gatewayCluster

Api ==
    INSTANCE RegistrarNode WITH
        Weighted <- ApiWeighted,
        health <- apiHealth, turn <- apiTurn, answer <- apiAnswer,
        served <- apiServed

View == INSTANCE ClusterView

ASSUME RegistrarAssumption ==
    /\ ApiWeighted \in Seq(Api!Known) /\ ApiWeighted # <<>>
    /\ Stranger \notin Api!Known /\ NoPreference \notin Api!Known
    /\ View!ClusterViewConstants

-----------------------------------------------------------------------------
\* Of the public methods called in any order: RegistrarNode's TypeOK and its
\* PenaltyEarned, by which what is left of a penalty never exceeds what the
\* failures so far have earned.
PenaltySound == Api!TypeOK /\ Api!PenaltyEarned

\* RegistrarNode's AvoidsBlacklisted: a blacklisted endpoint is returned only if
\* all are, and then none of the others would have been free before it.
BlacklistedOnlyIfAll == Api!AvoidsBlacklisted

\* ClusterView's NormalizeMeetsReference and WeightedListMeetsReference: merging
\* the lines of the configuration loses none and invents none, and each endpoint
\* has its weight in the list the registrar walks, which is never empty and
\* is bounded.
ListMeetsReference == View!NormalizeMeetsReference /\ View!WeightedListMeetsReference
=============================================================================
