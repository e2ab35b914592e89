---------------------------- MODULE MCConnections ----------------------------
(***************************************************************************)
(* What becomes of statements and of updates while connections are lost,   *)
(* and how the text of a statement is made: three instances in one run, of *)
(* which each behaviour shows one, its part, while the others stay as they *)
(* begin:                                                                  *)
(*   statement  one statement over a table of up to three rows, with two   *)
(*              places for a handle, so that a new handle may lie where    *)
(*              the last one did or elsewhere;                             *)
(*   text       all texts of up to four tokens over two names, taken apart *)
(*              and rendered with two values;                              *)
(*   updates    what a gateway sends two game servers, with places for two *)
(*              clients and up to three messages under way, in one queue   *)
(*              or in both (GatewayNode).                                  *)
(***************************************************************************)
EXTENDS DatabaseClient

CONSTANTS h1, h2, s1, s2, ann, bob, c1, c2, NoClient

VARIABLES part, clients, clientAddressMap, room, avatars, pipe, view, session, synced

textVars ==
    <<sql, place, inStringLiteral, segments, placeholderToLogicalIndex, names, bindings, query>>

updateVars == <<clients, clientAddressMap, room, avatars, pipe, view, session, synced>>

Updates == INSTANCE GatewayNode WITH
    Server <- {s1, s2},
    Avatar <- {ann, bob},
    AddressOf <- [a \in {ann, bob} |-> IF a = ann THEN s1 ELSE s2],
    Creator <- ann,
    Client <- {c1, c2},
    None <- NoClient,
    MaxUnderWay <- 3

PartsInit ==
    /\ part \in {"statement", "text", "updates"}
    /\ Init /\ Text!Init /\ Updates!Init
    /\ part # "text" => sql = <<"text">>
    /\ part # "statement" => table = {} /\ handle = NoHandle /\ stmt.kind = "select"

\* A text ends when it has been rendered.
PartsNext ==
    /\ \/ part = "statement" /\ Next /\ UNCHANGED <<textVars, updateVars>>
       \/ part = "text" /\ [Text!Next]_textVars /\ UNCHANGED <<vars, updateVars>>
       \/ part = "updates" /\ Updates!Next /\ UNCHANGED <<vars, textVars>>
    /\ UNCHANGED part

PartsSpec ==
    /\ PartsInit /\ [][PartsNext]_<<part, vars, textVars, updateVars>>
    /\ WF_vars(part = "statement" /\ Step)
    /\ Updates!Fairness

\* In the end things settle: no game server goes on showing an avatar that left
\* the room, and no client of a lost connection stays (GatewayNode).
Settles == Updates!Settles
=============================================================================
