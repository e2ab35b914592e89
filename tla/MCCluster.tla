------------------------------ MODULE MCCluster ------------------------------
(***************************************************************************)
(* Instances of Cluster.                                                   *)
(***************************************************************************)
EXTENDS Cluster, TLC

GatewaysAndAvatars == Permutations(Gateway) \cup Permutations(Avatar)
=============================================================================
