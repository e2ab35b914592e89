---------------------------- MODULE DatabaseClient ----------------------------
(***************************************************************************)
(* The two halves of the database client: the execution of a statement,    *)
(* which is MariaDBStatement as it stands, and how the text of a statement *)
(* is taken apart, bound and rendered (Text).  They do not share state.    *)
(***************************************************************************)
EXTENDS MariaDBStatement

CONSTANTS Name, Value, MaxTokens    \* of MariaDBPrepare

VARIABLES
    sql, place, inStringLiteral, segments, placeholderToLogicalIndex, names, bindings, query

Text == INSTANCE MariaDBPrepare WITH i <- place

ASSUME DatabaseClientAssumption == Text!MariaDBPrepareConstants

-----------------------------------------------------------------------------
\* MariaDBPrepare's TypeOK, IndexIsName and RenderedByName: a logical index belongs
\* to one name, and the query sent is the text with each parameter outside of
\* string literals replaced by the value bound under its name.
TextSound == Text!TypeOK /\ Text!IndexIsName /\ Text!RenderedByName
=============================================================================
