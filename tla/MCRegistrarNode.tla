--------------------------- MODULE MCRegistrarNode ---------------------------
(***************************************************************************)
(* Three instances in one run, of which each behaviour shows one, its part,*)
(* while the others stay as they begin:                                    *)
(*   program    the requests of a cluster of seven gateways whose weights  *)
(*              differ, 20 entries in all;                                 *)
(*   interface  the public methods in any order, of three gateways that    *)
(*              weigh 1; two failures earn more than the longest penalty;  *)
(*   view       the lines of the configuration that the list is made of,   *)
(*              for three endpoints and weights around the clamp and the   *)
(*              largest word, both scaled down.                            *)
(***************************************************************************)
EXTENDS Registrar

CONSTANTS g1, g2, g3, g4, g5, g6, g7

VARIABLE part

Seven == <<g1, g2, g2, g2, g3, g3, g4, g5, g5, g5, g5,
           g6, g6, g6, g6, g6, g6, g7, g7, g7>>

Three == <<g1, g2, g3>>

apiVars == <<apiHealth, apiTurn, apiAnswer, apiServed>>

PartsInit ==
    /\ part \in {"program", "interface", "view"}
    /\ Init /\ Api!Init /\ View!Init

\* The configuration ends.
PartsNext ==
    /\ \/ part = "program" /\ Next /\ UNCHANGED <<apiVars, gatewayCluster>>
       \/ part = "interface" /\ Api!InterfaceNext /\ UNCHANGED <<vars, gatewayCluster>>
       \/ part = "view" /\ [View!Next]_gatewayCluster /\ UNCHANGED <<vars, apiVars>>
    /\ UNCHANGED part

PartsSpec == PartsInit /\ [][PartsNext]_<<part, vars, apiVars, gatewayCluster>>
=============================================================================
