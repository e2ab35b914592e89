--------------------------- MODULE MariaDBStatement ---------------------------
(***************************************************************************)
(* The execution of one statement by the database client                   *)
(* (src/src/stationapi/MariaDB.cpp), as the services use it: prepare, then *)
(* step until the answer is not MARIADB_ROW.  A SELECT keeps its result in *)
(* the client and hands out a row per step; a statement that changes       *)
(* data answers MARIADB_DONE at once.                                      *)
(*                                                                         *)
(* Each step first makes sure of the connection.  mysql_ping repairs a     *)
(* lost link under the same handle; when it fails, the handle is closed    *)
(* and another one made, which may lie at the address of the one just      *)
(* freed.  A statement notices a new connection by the address of the      *)
(* handle, forgets its result and is executed once more.                   *)
(*                                                                         *)
(* libmysqlclient and the server are outside this repository and modelled  *)
(* from how this file uses them.                                           *)
(***************************************************************************)
EXTENDS Naturals, Sequences, FiniteSets, SequencesExt

CONSTANTS
    Row,         \* what other gateways and tools may store
    Handle,      \* addresses mysql_init may return
    NoHandle,    \* nullptr
    MaxFaults    \* how often a ping, a connect, or a query fails

ASSUME MariaDBStatementAssumption ==
    /\ IsFiniteSet(Row)
    /\ NoHandle \notin Handle /\ Handle # {}
    /\ MaxFaults \in Nat

VARIABLES
    table,       \* the rows that the query selects, as the server has them
    handle,      \* connection->handle
    stmt,        \* the MariaDBStatement
    caller,      \* where the service stands: what it does next, or was answered
    delivered,   \* how often each row was handed to the caller (history)
    got,         \* the rows handed out since the last execution (history)
    snapshot,    \* the rows at the last execution (history)
    connects,    \* new connections since the statement was prepared (history)
    changes,     \* how often the server carried the statement out, if it
                 \* changes data (history)
    faults       \* faults so far

vars == <<table, handle, stmt, caller, delivered, got, snapshot, connects, changes, faults>>

Kind == {"select", "change"}

Statement ==
    [kind: Kind,
     executed: BOOLEAN,
     result: Seq(Row),                     \* the rows not fetched yet
     connectionHandleAtExecution: Handle \cup {NoHandle}]

\* What an execution of the SELECT may find: the rows in some order, as the loops'
\* statements ask for none.
Selected == SetToSeqs(table)

TypeOK ==
    /\ table \subseteq Row
    /\ handle \in Handle \cup {NoHandle}
    /\ stmt \in Statement
    /\ caller \in {"prepare", "prepared", "thrown", "MARIADB_ROW", "MARIADB_DONE", "MARIADB_ERROR"}
    /\ delivered \in [Row -> Nat]
    /\ got \in Seq(Row) /\ snapshot \in Seq(Row)
    /\ connects \in Nat /\ changes \in Nat /\ faults \in Nat

\* The node holds an open connection, or one that was lost before.
Init ==
    /\ table \in SUBSET Row
    /\ handle \in Handle \cup {NoHandle}
    /\ \E k \in Kind : stmt = [kind |-> k, executed |-> FALSE, result |-> <<>>,
                               connectionHandleAtExecution |-> NoHandle]
    /\ caller = "prepare"
    /\ delivered = [r \in Row |-> 0]
    /\ got = <<>> /\ snapshot = <<>>
    /\ connects = 0 /\ changes = 0 /\ faults = 0

-----------------------------------------------------------------------------
\* The ways EnsureConnection can end: the handle it leaves, whether it made a
\* connection, and what went wrong on the way.  (Connect closes the old handle
\* before it makes another, and leaves none when the server refuses.)
EnsureConnection ==
    (IF handle # NoHandle THEN {[handle |-> handle, made |-> 0, faults |-> 0]} ELSE {})
    \cup {[handle |-> h, made |-> 1, faults |-> f] :
             h \in Handle, f \in IF handle = NoHandle THEN {0} ELSE {1}}
    \cup {[handle |-> NoHandle, made |-> 0, faults |-> 1]}

\* Mutant: the result is freed, but the statement still counts as executed.
ResetKeepsExecuted(s, h) ==
    IF s.executed /\ s.connectionHandleAtExecution # h
    THEN [s EXCEPT !.result = <<>>, !.connectionHandleAtExecution = NoHandle]
    ELSE s

\* The statement as the second part of mariadb_step finds it: one that ran on
\* another handle forgets its result.
Reset(s, h) ==
    IF s.executed /\ s.connectionHandleAtExecution # h
    THEN [s EXCEPT !.executed = FALSE, !.result = <<>>,
                   !.connectionHandleAtExecution = NoHandle]
    ELSE s

\* Mutant: the current row is handed out, but not taken from the result.
FetchStays(s, rows, before) ==
    \/ /\ rows = <<>>
       /\ stmt' = [s EXCEPT !.result = <<>>] /\ caller' = "MARIADB_DONE"
       /\ got' = before /\ UNCHANGED delivered
    \/ /\ rows # <<>>
       /\ stmt' = [s EXCEPT !.result = rows] /\ caller' = "MARIADB_ROW"
       /\ got' = before
       /\ delivered' = [delivered EXCEPT ![Head(rows)] = 1]

\* mysql_fetch_row on the rows not fetched yet, and the answer that follows;
\* "before" is what this execution has handed out already.
Fetch(s, rows, before) ==
    \/ /\ rows = <<>>
       /\ stmt' = [s EXCEPT !.result = <<>>] /\ caller' = "MARIADB_DONE"
       /\ got' = before /\ UNCHANGED delivered
    \/ /\ rows # <<>>
       /\ stmt' = [s EXCEPT !.result = Tail(rows)] /\ caller' = "MARIADB_ROW"
       /\ got' = Append(before, Head(rows))
       /\ delivered' = [delivered EXCEPT ![Head(rows)] = @ + 1]

\* Mutant: executed is not set, so the next step runs the statement again.
ExecuteAgain(s, h) ==
    \/ /\ s.kind = "select"
       /\ \E rows \in Selected :
             snapshot' = rows /\ Fetch([s EXCEPT !.connectionHandleAtExecution = h], rows, <<>>)
       /\ UNCHANGED changes
    \/ /\ s.kind = "change"
       /\ stmt' = s /\ caller' = "MARIADB_DONE" /\ changes' = changes + 1
       /\ UNCHANGED <<delivered, got, snapshot>>

\* Mutant: a statement without a result answers MARIADB_OK.
ExecuteOK(s, h) ==
    LET ran == [s EXCEPT !.executed = TRUE, !.connectionHandleAtExecution = h]
    IN  \/ /\ s.kind = "select"
           /\ \E rows \in Selected : snapshot' = rows /\ Fetch(ran, rows, <<>>)
           /\ UNCHANGED changes
        \/ /\ s.kind = "change"
           /\ stmt' = ran /\ caller' = "MARIADB_OK" /\ changes' = changes + 1
           /\ UNCHANGED <<delivered, got, snapshot>>

\* The statement runs: RenderQuery, mysql_query, and for a SELECT
\* mysql_store_result and the first row.
Execute(s, h) ==
    LET ran == [s EXCEPT !.executed = TRUE, !.connectionHandleAtExecution = h]
    IN  \/ /\ s.kind = "select"
           /\ \E rows \in Selected : snapshot' = rows /\ Fetch(ran, rows, <<>>)
           /\ UNCHANGED changes
        \/ /\ s.kind = "change"
           /\ stmt' = ran /\ caller' = "MARIADB_DONE" /\ changes' = changes + 1
           /\ UNCHANGED <<delivered, got, snapshot>>

\* Mutant: a query that fails is sent once more.
ExecuteRetries(s, h) ==
    /\ stmt' = [s EXCEPT !.connectionHandleAtExecution = h]
    /\ caller' = "MARIADB_ERROR"
    /\ changes' \in (IF s.kind = "change" THEN changes..(changes + 2) ELSE {changes})
    /\ UNCHANGED <<delivered, got, snapshot>>

\* mysql_query or mysql_store_result fails; the server may have carried the
\* statement out all the same.
ExecuteFails(s, h) ==
    /\ stmt' = [s EXCEPT !.connectionHandleAtExecution = h]
    /\ caller' = "MARIADB_ERROR"
    /\ changes' \in (IF s.kind = "change" THEN {changes, changes + 1} ELSE {changes})
    /\ UNCHANGED <<delivered, got, snapshot>>

\* A step of a statement that has run on this connection.
Resume(s) ==
    /\ IF s.kind = "select" THEN Fetch(s, s.result, got)
       ELSE stmt' = s /\ caller' = "MARIADB_DONE" /\ UNCHANGED <<delivered, got>>
    /\ UNCHANGED <<snapshot, changes>>

Spend(n) == faults + n <= MaxFaults /\ faults' = faults + n

\* The connection is seen to, with outcome c.
Connected(c) == handle' = c.handle /\ connects' = connects + c.made

-----------------------------------------------------------------------------
\* mariadb_prepare; without a connection it answers MARIADB_ERROR and the
\* service throws.
Prepare ==
    /\ caller = "prepare"
    /\ \E c \in EnsureConnection :
          /\ handle' = c.handle /\ Spend(c.faults)
          /\ caller' = IF c.handle # NoHandle THEN "prepared" ELSE "thrown"
    /\ UNCHANGED <<table, stmt, delivered, got, snapshot, connects, changes>>

\* mariadb_step, called first for a prepared statement and then, by the loops
\* that read a list, for as long as it answers MARIADB_ROW.
Step ==
    /\ caller \in {"prepared", "MARIADB_ROW"}
    /\ UNCHANGED table
    /\ \E c \in EnsureConnection :
          /\ Connected(c)
          /\ \/ /\ c.handle = NoHandle
                /\ caller' = "MARIADB_ERROR" /\ Spend(c.faults)
                /\ UNCHANGED <<stmt, delivered, got, snapshot, changes>>
             \/ /\ c.handle # NoHandle
                /\ LET s == Reset(stmt, c.handle)
                   IN  \/ s.executed /\ Resume(s) /\ Spend(c.faults)
                       \/ ~s.executed /\ Execute(s, c.handle) /\ Spend(c.faults)
                       \/ ~s.executed /\ ExecuteFails(s, c.handle) /\ Spend(c.faults + 1)

\* Between two steps the loop may run another statement on the connection
\* (LoadFriendList looks up each friend), and end by what that one throws.
Nested ==
    /\ caller = "MARIADB_ROW"
    /\ \E c \in EnsureConnection :
          /\ Connected(c)
          /\ \/ caller' = "thrown" /\ Spend(c.faults + 1)
             \/ c.handle # NoHandle /\ UNCHANGED caller /\ Spend(c.faults)
    /\ UNCHANGED <<table, stmt, delivered, got, snapshot, changes>>

\* The statement is finalized (or forgotten), and another one prepared later.
Finalize ==
    /\ caller \in {"MARIADB_DONE", "MARIADB_ERROR", "thrown"}
    /\ \E k \in Kind : stmt' = [kind |-> k, executed |-> FALSE, result |-> <<>>,
                                connectionHandleAtExecution |-> NoHandle]
    /\ caller' = "prepare"
    /\ delivered' = [r \in Row |-> 0]
    /\ got' = <<>> /\ snapshot' = <<>>
    /\ connects' = 0 /\ changes' = 0 /\ faults' = 0
    /\ UNCHANGED <<table, handle>>

\* Another gateway, or a tool, stores or deletes a row.
OtherWrites ==
    /\ \E r \in Row : table' \in {table \cup {r}, table \ {r}}
    /\ UNCHANGED <<handle, stmt, caller, delivered, got, snapshot, connects, changes, faults>>

Next == Prepare \/ Step \/ Nested \/ Finalize \/ OtherWrites

Spec == Init /\ [][Next]_vars

\* The gateway has one thread: once it has prepared a statement it does
\* nothing but go on with it.
FairSpec == Spec /\ WF_vars(Step)

-----------------------------------------------------------------------------
(***************************************************************************)
(* Properties                                                              *)
(***************************************************************************)
\* A loop that ended with MARIADB_DONE has been handed, since the last
\* execution, exactly the rows of one moment, in order: however often the
\* connection was replaced, and wherever the new handle lay, no row is missed.
CompleteWhenDone ==
    caller = "MARIADB_DONE" /\ stmt.kind = "select" => got = snapshot

\* While the list is read, what was handed out and what is still to come make
\* up that moment.
NothingSkipped == stmt.executed /\ stmt.kind = "select" => snapshot = got \o stmt.result

\* A row is handed out twice only if a new connection was made in between:
\* once for the first execution and once more for each new handle.
RepeatsNeedReconnect == \A r \in Row : delivered[r] <= 1 + connects

\* The rows handed out are right at every moment: they are those of one moment, none
\* is missed, and none repeated without a new connection (mariadb_step).
RowsSound == TypeOK /\ CompleteWhenDone /\ NothingSkipped /\ RepeatsNeedReconnect

\* A statement that changes data is carried out once if it answered DONE and
\* at most once otherwise, so only a failed one leaves doubt.
ChangesOnce ==
    /\ changes <= 1
    /\ stmt.kind = "change" /\ caller = "MARIADB_DONE" => changes = 1

\* A reading loop ends, if connections stop failing: other gateways that
\* keep adding rows cannot hold it up, as an execution reads one moment.
LoopEnds == caller = "prepared" ~> caller \in {"MARIADB_DONE", "MARIADB_ERROR", "thrown"}
=============================================================================
