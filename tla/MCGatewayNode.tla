----------------------------- MODULE MCGatewayNode -----------------------------
(***************************************************************************)
(* Two game servers, places for three clients: a server may connect anew   *)
(* while its old connection lasts, in a place used before or not.  Up to   *)
(* three messages are under way, in one queue or in several.               *)
(***************************************************************************)
EXTENDS GatewayNode, TLC

CONSTANTS s1, s2, ann, bob, cat, c1, c2, c3

\* ann, who creates the room, is on the first server, everyone else on the second.
Homes == [a \in Avatar |-> IF a = ann THEN s1 ELSE s2]

\* Places are alike, and so are the avatars of the second server.
Symmetry == Permutations({c1, c2, c3}) \cup Permutations({bob, cat})
=============================================================================
