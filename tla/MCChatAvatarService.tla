------------------------- MODULE MCChatAvatarService -------------------------
(***************************************************************************)
(* Finite instances of ChatAvatarService.                                  *)
(***************************************************************************)
EXTENDS ChatAvatarService

CONSTANTS a1, a2, n1, n2, n3

\* n1 names a1 and n2 names a2; n3, if asked for, is another spelling of n1, which
\* does not read back as it was written.
Owners == [name \in Name |-> IF name = n2 THEN a2 ELSE a1]

(***************************************************************************)
(* The region explored: n3 is not in use and nobody is cached twice; or    *)
(* anything goes, until a friend cannot be read or an answer is lost.  A   *)
(* step out of it is not taken.                                            *)
(***************************************************************************)
OneNameEach ==
    /\ Unaliased
    /\ \A a \in Avatar : stored[a] # n3 /\ \A k \in DOMAIN cache[a] : cache[a][k].name # n3

NothingTorn == torn = {} /\ \A a \in Avatar : \A k \in DOMAIN cache[a] : Walkable(cache[a][k])

SmallSpec == Init /\ [][Next /\ (OneNameEach \/ NothingTorn)']_vars
=============================================================================
