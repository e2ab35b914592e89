---------------------------- MODULE MCClusterView ----------------------------
(***************************************************************************)
(* Three endpoints, with the code's own clamp and largest word.  The       *)
(* scaled instance is a part of MCRegistrarNode.                           *)
(***************************************************************************)
EXTENDS ClusterView

CONSTANTS g1, g2, g3

Configured == {100, 200}
=============================================================================
