------------------------ MODULE MariaDBStatement_proofs ------------------------
(***************************************************************************)
(* Proofs about MariaDBStatement, for tables of any finite size, any       *)
(* addresses a handle may lie at and any number of faults.  The inductive  *)
(* invariant adds to the properties that a result holds no row twice, and  *)
(* counts deliveries against the connection the result belongs to.         *)
(*                                                                         *)
(* After them proofs about MariaDBPrepare, for texts of any length, any    *)
(* names and any values: the invariant says at which place of the text     *)
(* each segment begins, so that joining them is the text again.            *)
(***************************************************************************)
EXTENDS DatabaseClient, SequenceTheorems, FiniteSetTheorems, WellFoundedInduction, TLAPS

Distinct(s) == \A i, j \in DOMAIN s : s[i] = s[j] => i = j

HandedOut(r) == \E i \in DOMAIN got : got[i] = r

\* A row was delivered once for each new connection, and once more if it came from
\* the connection there is now.
Counted ==
    \A r \in Row :
        \/ delivered[r] <= connects
        \/ /\ stmt.executed /\ stmt.connectionHandleAtExecution = handle /\ HandedOut(r)
           /\ delivered[r] <= connects + 1

\* What is known by where the service stands.
Stage ==
    /\ caller \in {"prepare", "prepared"} => ~stmt.executed /\ changes = 0
    /\ caller = "MARIADB_ROW" => stmt.executed /\ stmt.kind = "select"
    /\ caller \in {"prepare", "prepared", "MARIADB_ROW"} => Counted
    /\ stmt.kind = "select" => changes = 0
    /\ stmt.kind = "select" /\ stmt.executed => Distinct(snapshot)

IInv == RowsSound /\ ChangesOnce /\ Stage

-----------------------------------------------------------------------------
\* Taking the first row from the rest and putting it behind those handed out leaves
\* the two together as they were, and the row is none of those handed out.
LEMMA TakeOne ==
    ASSUME NEW before \in Seq(Row), NEW rows \in Seq(Row), rows # <<>>, Distinct(before \o rows)
    PROVE  /\ Head(rows) \in Row /\ Tail(rows) \in Seq(Row)
           /\ Append(before, Head(rows)) \in Seq(Row)
           /\ Append(before, Head(rows)) \o Tail(rows) = before \o rows
           /\ \A i \in DOMAIN before : before[i] # Head(rows)
<1> DEFINE all == before \o rows
           more == Append(before, Head(rows))
           rest == Tail(rows)
<1>1. /\ Head(rows) \in Row /\ rest \in Seq(Row) /\ Len(rest) = Len(rows) - 1
      /\ \A i \in 1..Len(rest) : rest[i] = rows[i + 1]
      /\ Head(rows) = rows[1] /\ Len(rows) \in Nat /\ Len(rows) > 0
  BY HeadTailProperties, EmptySeq, LenProperties
<1>2. /\ more \in Seq(Row) /\ Len(more) = Len(before) + 1
      /\ \A i \in 1..Len(before) : more[i] = before[i]
      /\ more[Len(before) + 1] = rows[1]
      /\ Len(before) \in Nat
  BY <1>1, AppendProperties, LenProperties
<1>3. /\ all \in Seq(Row) /\ Len(all) = Len(before) + Len(rows)
      /\ \A i \in 1..Len(before) + Len(rows) :
            all[i] = IF i <= Len(before) THEN before[i] ELSE rows[i - Len(before)]
      /\ DOMAIN before = 1..Len(before) /\ DOMAIN all = 1..Len(all)
      /\ \A i, j \in DOMAIN all : all[i] = all[j] => i = j
  BY ConcatProperties, LenProperties DEF Distinct
<1> HIDE DEF more, rest
<1>4. /\ more \o rest \in Seq(Row) /\ Len(more \o rest) = Len(more) + Len(rest)
      /\ \A i \in 1..Len(more) + Len(rest) :
            (more \o rest)[i] = IF i <= Len(more) THEN more[i] ELSE rest[i - Len(more)]
  BY <1>1, <1>2, ConcatProperties
<1> HIDE DEF all
<1>5. more \o rest = all
  <2> DEFINE both == more \o rest
  <2>1. both \in Seq(Row) /\ Len(both) = Len(all)
    BY <1>1, <1>2, <1>3, <1>4
  <2>2. \A i \in 1..Len(all) : both[i] = all[i]
    <3> SUFFICES ASSUME NEW i \in 1..Len(all) PROVE both[i] = all[i]
      OBVIOUS
    <3>1. i \in 1..Len(more) + Len(rest) /\ i \in 1..Len(before) + Len(rows)
      BY <1>1, <1>2, <1>3
    <3>2. CASE i <= Len(before)
      BY <1>2, <1>3, <1>4, <3>1, <3>2
    <3>3. CASE i = Len(before) + 1
      <4>1. i - Len(before) = 1 /\ i = Len(more) /\ ~(i <= Len(before))
        BY <1>2, <3>3
      <4>2. both[i] = more[i] /\ all[i] = rows[1]
        BY <1>2, <1>3, <1>4, <3>1, <4>1
      <4> QED
        BY <1>2, <3>3, <4>2
    <3>4. CASE i > Len(before) + 1
      <4>1. both[i] = rest[i - Len(more)] /\ all[i] = rows[i - Len(before)]
        BY <1>2, <1>3, <1>4, <3>1, <3>4
      <4>2. i - Len(more) \in 1..Len(rest) /\ (i - Len(more)) + 1 = i - Len(before)
        BY <1>1, <1>2, <3>1, <3>4
      <4> QED
        BY <1>1, <4>1, <4>2
    <3> QED
      BY <1>2, <3>1, <3>2, <3>3, <3>4
  <2> HIDE DEF both
  <2> QED
    BY <1>3, <2>1, <2>2, SeqEqual DEF both
<1>6. \A i \in DOMAIN before : before[i] # Head(rows)
  <2>1. all[Len(before) + 1] = rows[1] /\ Len(before) + 1 \in DOMAIN all
    BY <1>1, <1>2, <1>3
  <2>2. \A i \in 1..Len(before) : all[i] = before[i] /\ i \in DOMAIN all /\ i # Len(before) + 1
    BY <1>1, <1>2, <1>3
  <2> QED
    BY <1>1, <1>3, <2>1, <2>2, SMTT(20)
<1> QED
  BY <1>1, <1>2, <1>5, <1>6 DEF more, all, rest

\* An execution finds the rows of the table, none twice.
LEMMA SelectedOnce ==
    ASSUME table \subseteq Row, NEW rows \in Selected
    PROVE  rows \in Seq(Row) /\ Distinct(rows)
<1>1. IsFiniteSet(table) /\ Cardinality(table) \in Nat
  BY MariaDBStatementAssumption, FS_Subset, FS_CardinalityType
<1>2. rows \in [1..Cardinality(table) -> table] /\ Distinct(rows)
  BY DEF Selected, SetToSeqs, Distinct
<1> QED
  BY <1>1, <1>2, SeqDef

-----------------------------------------------------------------------------
\* The initial states satisfy the invariant.
LEMMA InitInv == Init => IInv
  BY EmptySeq DEF Init, IInv, RowsSound, TypeOK, CompleteWhenDone, NothingSkipped,
     RepeatsNeedReconnect, ChangesOnce, Stage, Counted, Kind, Statement

\* mysql_fetch_row keeps the invariant, where what the result has given and still
\* holds make up one moment, and deliveries are counted up to now.
LEMMA FetchInv ==
    ASSUME NEW s \in Statement, s.kind = "select", s.executed,
           s.connectionHandleAtExecution = handle',
           NEW before \in Seq(Row), NEW rows \in Seq(Row),
           snapshot' = before \o rows, Distinct(snapshot'),
           delivered \in [Row -> Nat], connects' \in Nat, faults' \in Nat, changes' = 0,
           table' \subseteq Row, handle' \in Handle \cup {NoHandle},
           \A r \in Row :
              \/ delivered[r] <= connects'
              \/ (\E i \in DOMAIN before : before[i] = r) /\ delivered[r] <= connects' + 1,
           Fetch(s, rows, before)
    PROVE  IInv'
<1>1. CASE rows = <<>>
  <2>1. /\ stmt' = [s EXCEPT !.result = <<>>] /\ caller' = "MARIADB_DONE"
        /\ got' = before /\ delivered' = delivered
    BY <1>1 DEF Fetch
  <2>2. stmt' \in Statement /\ stmt'.kind = "select" /\ stmt'.result = <<>> /\ stmt'.executed
    BY <2>1, EmptySeq DEF Statement
  <2>3. snapshot' = before /\ before \o <<>> = before
    BY <1>1, ConcatEmptySeq
  <2>4. TypeOK'
    BY <2>1, <2>2, <2>3 DEF TypeOK
  <2>5. RepeatsNeedReconnect'
    <3>1. \A r \in Row : delivered[r] \in Nat /\ delivered[r] <= connects' + 1
      OBVIOUS
    <3> QED
      BY <2>1, <3>1 DEF RepeatsNeedReconnect
  <2> QED
    BY <2>1, <2>2, <2>3, <2>4, <2>5
    DEF IInv, RowsSound, CompleteWhenDone, NothingSkipped, ChangesOnce, Stage
<1>2. CASE rows # <<>>
  <2> DEFINE row == Head(rows)
  <2>1. /\ stmt' = [s EXCEPT !.result = Tail(rows)] /\ caller' = "MARIADB_ROW"
        /\ got' = Append(before, row) /\ delivered' = [delivered EXCEPT ![row] = @ + 1]
    BY <1>2 DEF Fetch
  <2>2. /\ row \in Row /\ Tail(rows) \in Seq(Row) /\ got' \in Seq(Row)
        /\ got' \o Tail(rows) = snapshot' /\ \A i \in DOMAIN before : before[i] # row
    BY <1>2, <2>1, TakeOne
  <2>3. /\ stmt' \in Statement /\ stmt'.kind = "select" /\ stmt'.result = Tail(rows)
        /\ stmt'.executed /\ stmt'.connectionHandleAtExecution = handle'
    BY <2>1, <2>2 DEF Statement
  <2>4. /\ DOMAIN before = 1..Len(before) /\ DOMAIN got' = 1..(Len(before) + 1) /\ Len(before) \in Nat
        /\ (\A i \in 1..Len(before) : got'[i] = before[i]) /\ got'[Len(before) + 1] = row
    BY <2>1, <2>2, AppendProperties, LenProperties
  <2> HIDE DEF row
  <2>5. \A r \in Row : (r = row \/ \E i \in DOMAIN before : before[i] = r) => HandedOut(r)'
    <3>1. \A i \in DOMAIN before : i \in DOMAIN got' /\ got'[i] = before[i]
      BY <2>4
    <3>2. Len(before) + 1 \in DOMAIN got'
      BY <2>4
    <3> QED
      BY <2>4, <3>1, <3>2 DEF HandedOut
  <2>6. /\ delivered' \in [Row -> Nat] /\ delivered'[row] <= connects' + 1
        /\ \A r \in Row \ {row} : delivered'[r] = delivered[r]
    <3>1. delivered[row] \in Nat /\ delivered[row] <= connects'
      BY <2>2 DEF row
    <3>2. delivered' = [delivered EXCEPT ![row] = delivered[row] + 1] /\ row \in Row
      BY <2>1, <2>2 DEF row
    <3> HIDE DEF row
    <3> QED
      BY <3>1, <3>2
  <2>7. Counted'
    BY <2>3, <2>5, <2>6 DEF Counted
  <2>8. RepeatsNeedReconnect'
    BY <2>6, <2>7 DEF Counted, RepeatsNeedReconnect
  <2>9. snapshot' \in Seq(Row)
    BY ConcatProperties
  <2>10. TypeOK'
    BY <2>1, <2>2, <2>3, <2>6, <2>9 DEF TypeOK
  <2> QED
    BY <2>1, <2>2, <2>3, <2>7, <2>8, <2>10, SMTT(20)
    DEF IInv, RowsSound, CompleteWhenDone, NothingSkipped, ChangesOnce, Stage
<1> QED
  BY <1>1, <1>2

\* What EnsureConnection can do to the count: if it leaves another handle, it made a
\* connection.
LEMMA Connections ==
    ASSUME TypeOK, NEW c \in EnsureConnection
    PROVE  /\ c.handle \in Handle \cup {NoHandle} /\ c.made \in {0, 1} /\ c.faults \in {0, 1}
           /\ c.handle # NoHandle /\ c.handle # handle => c.made = 1
  BY DEF TypeOK, EnsureConnection

\* A step of the statement.
LEMMA StepInv == IInv /\ Step => IInv'
<1> SUFFICES ASSUME IInv, Step PROVE IInv'
  OBVIOUS
<1>1. /\ TypeOK /\ NothingSkipped /\ Stage /\ RepeatsNeedReconnect
      /\ caller \in {"prepared", "MARIADB_ROW"} /\ table' = table
  BY DEF IInv, RowsSound, Step
<1>2. PICK c \in EnsureConnection :
          /\ Connected(c)
          /\ \/ /\ c.handle = NoHandle
                /\ caller' = "MARIADB_ERROR" /\ Spend(c.faults)
                /\ UNCHANGED <<stmt, delivered, got, snapshot, changes>>
             \/ /\ c.handle # NoHandle
                /\ \/ Reset(stmt, c.handle).executed /\ Resume(Reset(stmt, c.handle))
                         /\ Spend(c.faults)
                   \/ ~Reset(stmt, c.handle).executed
                         /\ Execute(Reset(stmt, c.handle), c.handle) /\ Spend(c.faults)
                   \/ ~Reset(stmt, c.handle).executed
                         /\ ExecuteFails(Reset(stmt, c.handle), c.handle)
                         /\ Spend(c.faults + 1)
  BY DEF Step
<1>3. /\ handle' = c.handle /\ connects' = connects + c.made
      /\ handle' \in Handle \cup {NoHandle} /\ connects' \in Nat /\ connects <= connects'
      /\ (c.handle # NoHandle /\ c.handle # handle => connects' = connects + 1)
      /\ faults' \in Nat
  BY <1>1, <1>2, Connections, SMTT(20) DEF Connected, Spend, TypeOK
<1>4. CASE c.handle = NoHandle
  <2>1. caller' = "MARIADB_ERROR" /\ UNCHANGED <<stmt, delivered, got, snapshot, changes>>
    BY <1>2, <1>4
  <2>2. TypeOK'
    BY <1>1, <1>3, <2>1 DEF TypeOK
  <2>3. RepeatsNeedReconnect'
    BY <1>1, <1>3, <2>1 DEF RepeatsNeedReconnect, TypeOK
  <2> QED
    BY <1>1, <2>1, <2>2, <2>3
    DEF IInv, RowsSound, CompleteWhenDone, NothingSkipped, ChangesOnce, Stage
<1>5. ASSUME c.handle # NoHandle
      PROVE  IInv'
  <2> DEFINE s == Reset(stmt, c.handle)
  <2>1. /\ s \in Statement /\ s.kind = stmt.kind
        /\ s.executed => s = stmt /\ stmt.connectionHandleAtExecution = c.handle
    BY <1>1, EmptySeq DEF TypeOK, Statement, Reset
  <2>2. Counted
    BY <1>1 DEF Stage
  <2>3. CASE s.executed /\ Resume(s)
    <3>1. (s = stmt /\ stmt.executed /\ stmt.kind = "select") \/ caller = "prepared"
      BY <1>1, <2>1, <2>3 DEF Stage
    <3>2. s = stmt /\ stmt.executed /\ stmt.kind = "select"
      BY <1>1, <2>1, <2>3, <3>1 DEF Stage
    <3>3. /\ Fetch(s, stmt.result, got) /\ UNCHANGED <<snapshot, changes>>
      BY <2>3, <3>2 DEF Resume
    <3>4. /\ snapshot' = got \o stmt.result /\ Distinct(snapshot') /\ changes' = 0
          /\ got \in Seq(Row) /\ stmt.result \in Seq(Row) /\ delivered \in [Row -> Nat]
      BY <1>1, <3>2, <3>3 DEF NothingSkipped, Stage, TypeOK, Statement
    <3>5. \A r \in Row :
             \/ delivered[r] <= connects'
             \/ (\E i \in DOMAIN got : got[i] = r) /\ delivered[r] <= connects' + 1
      <4> SUFFICES ASSUME NEW r \in Row
                   PROVE  \/ delivered[r] <= connects'
                          \/ HandedOut(r) /\ delivered[r] <= connects' + 1
        BY DEF HandedOut
      <4>1. delivered[r] \in Nat /\ connects \in Nat
        BY <1>1, <3>4 DEF TypeOK
      <4>2. CASE delivered[r] <= connects
        BY <1>3, <4>1, <4>2
      <4>3. CASE HandedOut(r) /\ delivered[r] <= connects + 1
        BY <1>3, <4>1, <4>3
      <4> QED
        BY <2>2, <4>2, <4>3 DEF Counted
    <3>6. s.connectionHandleAtExecution = handle' /\ table' \subseteq Row
      BY <1>1, <1>3, <2>1, <2>3 DEF TypeOK
    <3> HIDE DEF s
    <3> QED
      BY <1>3, <2>1, <2>3, <3>2, <3>3, <3>4, <3>5, <3>6, FetchInv
  <2>4. ASSUME ~s.executed
        PROVE  \A r \in Row : delivered[r] <= connects'
    <3> SUFFICES ASSUME NEW r \in Row PROVE delivered[r] <= connects'
      OBVIOUS
    <3>1. delivered[r] \in Nat /\ connects \in Nat
      BY <1>1 DEF TypeOK
    <3>2. CASE delivered[r] <= connects
      BY <1>3, <3>1, <3>2
    <3>3. CASE /\ stmt.executed /\ stmt.connectionHandleAtExecution = handle
               /\ delivered[r] <= connects + 1
      <4>1. stmt.connectionHandleAtExecution # c.handle
        BY <2>4, <3>3 DEF Reset
      <4> QED
        BY <1>3, <1>5, <3>1, <3>3, <4>1
    <3> QED
      BY <2>2, <3>2, <3>3 DEF Counted
  <2>5. CASE ~s.executed /\ Execute(s, c.handle)
    <3> DEFINE ran == [s EXCEPT !.executed = TRUE, !.connectionHandleAtExecution = c.handle]
    <3> HIDE DEF s
    <3>1. /\ ran \in Statement /\ ran.kind = stmt.kind /\ ran.executed
          /\ ran.connectionHandleAtExecution = handle' /\ ran.result = s.result
      BY <1>3, <2>1 DEF Statement
    <3>2. CASE stmt.kind = "select"
      <4>1. PICK rows \in Selected : snapshot' = rows /\ Fetch(ran, rows, <<>>)
        BY <2>1, <2>5, <3>2 DEF Execute
      <4>2. changes' = 0
        BY <1>1, <2>1, <2>5, <3>2 DEF Execute, Stage
      <4>3. rows \in Seq(Row) /\ Distinct(rows)
        BY <1>1, SelectedOnce DEF TypeOK
      <4>4. <<>> \in Seq(Row) /\ snapshot' = <<>> \o rows
        BY <4>1, <4>3, EmptySeq, ConcatEmptySeq
      <4>5. delivered \in [Row -> Nat] /\ table' \subseteq Row
        BY <1>1 DEF TypeOK
      <4> HIDE DEF ran
      <4> QED
        BY <1>3, <2>4, <2>5, <3>1, <3>2, <4>1, <4>2, <4>3, <4>4, <4>5, FetchInv
    <3>3. CASE stmt.kind = "change"
      <4>1. /\ stmt' = ran /\ caller' = "MARIADB_DONE" /\ changes' = changes + 1
            /\ UNCHANGED <<delivered, got, snapshot>>
        BY <2>1, <2>5, <3>3 DEF Execute
      <4>2. changes = 0
        BY <1>1, <3>3 DEF Stage
      <4>3. TypeOK'
        BY <1>1, <1>3, <3>1, <4>1, <4>2 DEF TypeOK
      <4>4. RepeatsNeedReconnect'
        BY <1>1, <1>3, <2>4, <2>5, <4>1 DEF RepeatsNeedReconnect, TypeOK
      <4> QED
        BY <3>1, <3>3, <4>1, <4>2, <4>3, <4>4
        DEF IInv, RowsSound, CompleteWhenDone, NothingSkipped, ChangesOnce, Stage
    <3> QED
      BY <1>1, <3>2, <3>3 DEF TypeOK, Statement, Kind
  <2>6. CASE ~s.executed /\ ExecuteFails(s, c.handle)
    <3> HIDE DEF s
    <3>1. /\ stmt' = [s EXCEPT !.connectionHandleAtExecution = c.handle]
          /\ caller' = "MARIADB_ERROR" /\ UNCHANGED <<delivered, got, snapshot>>
          /\ changes' \in (IF s.kind = "change" THEN {changes, changes + 1} ELSE {changes})
      BY <2>6 DEF ExecuteFails
    <3>2. stmt' \in Statement /\ ~stmt'.executed /\ stmt'.kind = stmt.kind
      BY <1>3, <2>1, <2>6, <3>1 DEF Statement
    <3>3. (stmt.kind = "select" => changes' = 0) /\ changes' \in {0, 1}
      <4>1. changes = 0
        BY <1>1 DEF Stage, TypeOK, Statement, Kind
      <4> QED
        BY <2>1, <3>1, <4>1
    <3>4. TypeOK'
      BY <1>1, <1>3, <3>1, <3>2, <3>3 DEF TypeOK
    <3>5. RepeatsNeedReconnect'
      BY <1>1, <1>3, <2>4, <2>6, <3>1 DEF RepeatsNeedReconnect, TypeOK
    <3> QED
      BY <3>1, <3>2, <3>3, <3>4, <3>5
      DEF IInv, RowsSound, CompleteWhenDone, NothingSkipped, ChangesOnce, Stage
  <2> QED
    BY <1>2, <1>5, <2>3, <2>5, <2>6
<1> QED
  BY <1>4, <1>5

\* What happens around a statement.
LEMMA PrepareInv == IInv /\ Prepare => IInv'
<1> SUFFICES ASSUME IInv, Prepare PROVE IInv'
  OBVIOUS
<1>1. TypeOK /\ Stage /\ caller = "prepare" /\ RowsSound /\ ChangesOnce
  BY DEF IInv, RowsSound, Prepare
<1>2. PICK c \in EnsureConnection :
        /\ handle' = c.handle /\ Spend(c.faults)
        /\ caller' = IF c.handle # NoHandle THEN "prepared" ELSE "thrown"
        /\ UNCHANGED <<table, stmt, delivered, got, snapshot, connects, changes>>
  BY DEF Prepare
<1>3. handle' \in Handle \cup {NoHandle} /\ faults' \in Nat
  BY <1>1, <1>2, Connections DEF Spend, TypeOK
<1>4. ~stmt.executed /\ changes = 0 /\ Counted
  BY <1>1 DEF Stage
<1> QED
  BY <1>1, <1>2, <1>3, <1>4
  DEF IInv, RowsSound, TypeOK, CompleteWhenDone, NothingSkipped, RepeatsNeedReconnect,
      ChangesOnce, Stage, Counted, HandedOut

\* Another statement between two rows leaves this one alone.
LEMMA NestedInv == IInv /\ Nested => IInv'
<1> SUFFICES ASSUME IInv, Nested PROVE IInv'
  OBVIOUS
<1>1. /\ TypeOK /\ Stage /\ caller = "MARIADB_ROW" /\ RepeatsNeedReconnect
      /\ NothingSkipped /\ ChangesOnce
  BY DEF IInv, RowsSound, Nested
<1>2. PICK c \in EnsureConnection :
        /\ Connected(c)
        /\ \/ caller' = "thrown" /\ Spend(c.faults + 1)
           \/ c.handle # NoHandle /\ caller' = caller /\ Spend(c.faults)
        /\ UNCHANGED <<table, stmt, delivered, got, snapshot, changes>>
  BY DEF Nested
<1>3. /\ handle' = c.handle /\ handle' \in Handle \cup {NoHandle} /\ faults' \in Nat
      /\ connects' \in Nat /\ connects <= connects'
      /\ c.handle # NoHandle /\ c.handle # handle => connects' = connects + 1
  <2>1. /\ c.handle \in Handle \cup {NoHandle} /\ c.made \in {0, 1} /\ c.faults \in {0, 1}
        /\ c.handle # NoHandle /\ c.handle # handle => c.made = 1
    BY <1>1, Connections
  <2>2. handle' = c.handle /\ connects' = connects + c.made
    BY <1>2 DEF Connected
  <2>3. faults' = faults + c.faults + 1 \/ faults' = faults + c.faults
    BY <1>1, <1>2, <2>1 DEF Spend, TypeOK
  <2> QED
    BY <1>1, <2>1, <2>2, <2>3 DEF TypeOK
<1>4. TypeOK'
  BY <1>1, <1>2, <1>3 DEF TypeOK
<1>5. RepeatsNeedReconnect'
  BY <1>1, <1>2, <1>3 DEF RepeatsNeedReconnect, TypeOK
<1>6. c.handle # NoHandle => Counted'
  <2>1. Counted
    BY <1>1 DEF Stage
  <2> QED
    BY <1>1, <1>2, <1>3, <2>1 DEF Counted, HandedOut, TypeOK
<1> QED
  BY <1>1, <1>2, <1>4, <1>5, <1>6
  DEF IInv, RowsSound, CompleteWhenDone, NothingSkipped, ChangesOnce, Stage

\* The statement ends.
LEMMA FinalizeInv == IInv /\ Finalize => IInv'
  BY EmptySeq DEF Finalize, IInv, RowsSound, TypeOK, CompleteWhenDone, NothingSkipped,
     RepeatsNeedReconnect, ChangesOnce, Stage, Counted, Kind, Statement

\* Others write to the table.
LEMMA OtherWritesInv == IInv /\ OtherWrites => IInv'
  BY DEF OtherWrites, IInv, RowsSound, TypeOK, CompleteWhenDone, NothingSkipped,
     RepeatsNeedReconnect, ChangesOnce, Stage, Counted, HandedOut

\* The invariant holds always.
LEMMA Invariance == Spec => []IInv
<1>1. IInv /\ UNCHANGED vars => IInv'
  BY DEF vars, IInv, RowsSound, TypeOK, CompleteWhenDone, NothingSkipped,
     RepeatsNeedReconnect, ChangesOnce, Stage, Counted, HandedOut
<1>2. IInv /\ [Next]_vars => IInv'
  BY <1>1, PrepareInv, StepInv, NestedInv, FinalizeInv, OtherWritesInv DEF Next
<1> QED
  BY <1>2, InitInv, PTL DEF Spec

-----------------------------------------------------------------------------
\* A loop that reads a list is handed the rows of one moment, none missed and none
\* repeated but for new connections, wherever a new handle lies and whenever a
\* connection is lost (mariadb_step).
THEOREM RowsAreSound == Spec => []RowsSound
<1>1. IInv => RowsSound
  BY DEF IInv
<1> QED
  BY <1>1, Invariance, PTL

\* A statement that changes data is carried out at most once, and once if it answered
\* MARIADB_DONE (mariadb_step).
THEOREM CarriedOutOnce == Spec => []ChangesOnce
<1>1. IInv => ChangesOnce
  BY DEF IInv
<1> QED
  BY <1>1, Invariance, PTL

-----------------------------------------------------------------------------
(***************************************************************************)
(* The text of a statement: how it is taken apart, and what is rendered    *)
(* from it, by induction over the segments joined.                         *)
(***************************************************************************)
\* A set of natural numbers that is not empty has a smallest member.
LEMMA SmallestIn ==
    ASSUME NEW T \in SUBSET Nat, T # {}
    PROVE  \E x \in T : \A y \in T : x <= y
<1> DEFINE R == {p \in Nat \X Nat : p[1] < p[2]}
<1>1. OpToRel(<, Nat) = R
  BY DEF OpToRel
<1>2. IsWellFoundedOn(R, Nat)
  BY <1>1, NatLessThanWellFounded
<1>3. \A x, y \in Nat : y < x => <<y, x>> \in R
  OBVIOUS
<1> HIDE DEF R
<1>4. PICK x \in T : \A y \in T : ~(<<y, x>> \in R)
  BY <1>2, WFMin
<1>5. \A y \in T : ~(y < x)
  BY <1>3, <1>4
<1>6. \A y \in T : x <= y
  BY <1>5
<1> QED BY <1>6

\* Induction, over a set of naturals.
LEMMA InductionIn ==
    ASSUME NEW T \in SUBSET Nat, 0 \in T, \A n \in T : n + 1 \in T
    PROVE  T = Nat
<1> SUFFICES ASSUME Nat \ T # {} PROVE FALSE
  OBVIOUS
<1>1. PICK x \in Nat \ T : \A y \in Nat \ T : x <= y
  BY SmallestIn
<1>2. x # 0 /\ x - 1 \in Nat /\ x - 1 \in T
  BY <1>1
<1> QED BY <1>1, <1>2

\* f is what a recursion over the numbers up to n computes in S: it begins
\* with first, and step[m] makes what follows the value at m - 1.
Unrolls(f, n, S, first, step) ==
    f \in [0..n -> S] /\ f[0] = first /\ \A m \in 1..n : f[m] = step[m][f[m - 1]]

\* Such a function exists.
LEMMA RecursionExists ==
    ASSUME NEW n \in Nat, NEW S, NEW first \in S, NEW step \in [1..n -> [S -> S]]
    PROVE  \E f : Unrolls(f, n, S, first, step)
<1> DEFINE T == {k \in Nat : k <= n => \E f : Unrolls(f, k, S, first, step)}
<1>1. 0 \in T
  <2>1. Unrolls([m \in 0..0 |-> first], 0, S, first, step)
    BY DEF Unrolls
  <2> QED BY <2>1
<1>2. ASSUME NEW k \in T PROVE k + 1 \in T
  <2>1. k \in Nat /\ k + 1 \in Nat
    OBVIOUS
  <2>2. ASSUME k + 1 <= n PROVE \E f : Unrolls(f, k + 1, S, first, step)
    <3>1. k <= n
      BY <2>1, <2>2
    <3>2. PICK f : Unrolls(f, k, S, first, step)
      BY <1>2, <3>1
    <3> DEFINE next == step[k + 1][f[k]]
               g == [m \in 0..(k + 1) |-> IF m <= k THEN f[m] ELSE next]
    <3>3. f \in [0..k -> S] /\ f[0] = first /\ \A m \in 1..k : f[m] = step[m][f[m - 1]]
      BY <3>2 DEF Unrolls
    <3>4. f[k] \in S /\ next \in S
      BY <2>1, <2>2, <3>3
    <3> HIDE DEF next
    <3>5. g \in [0..(k + 1) -> S] /\ g[0] = first
      BY <2>1, <3>3, <3>4
    <3>6. ASSUME NEW m \in 1..(k + 1) PROVE g[m] = step[m][g[m - 1]]
      <4>1. CASE m <= k
        BY <2>1, <3>3, <4>1
      <4>2. CASE m = k + 1
        <5>1. g[m] = next /\ g[k] = f[k] /\ m - 1 = k
          BY <2>1, <4>2
        <5> HIDE DEF g
        <5> QED BY <4>2, <5>1 DEF next
      <4>3. m <= k \/ m = k + 1
        BY <2>1
      <4> QED BY <4>1, <4>2, <4>3
    <3> HIDE DEF g
    <3>7. Unrolls(g, k + 1, S, first, step)
      BY <3>5, <3>6 DEF Unrolls
    <3> QED BY <3>7
  <2> QED BY <2>1, <2>2
<1>3. T = Nat
  <2>1. T \in SUBSET Nat
    OBVIOUS
  <2> HIDE DEF T
  <2> QED BY <1>1, <1>2, <2>1, InductionIn
<1>4. n \in T
  BY <1>3
<1> QED BY <1>4

\* f is what FlattenSeq makes of sequences over A, one after the other.
Flattens(f, seqs, A) ==
    /\ f \in [0..Len(seqs) -> Seq(A)] /\ f[0] = <<>>
    /\ \A m \in 1..Len(seqs) : f[m] = f[m - 1] \o seqs[m]
    /\ Text!FlattenSeq(seqs) = f[Len(seqs)]

\* FlattenSeq does that.
LEMMA FlattenIs ==
    ASSUME NEW A, NEW seqs \in Seq(Seq(A)), seqs # <<>>
    PROVE  \E f : Flattens(f, seqs, A)
<1> DEFINE L == Len(seqs)
           S == Seq(A)
           F == [m \in 1..L |-> [s \in S |-> s \o seqs[m]]]
<1>1. L \in Nat \ {0} /\ <<>> \in S /\ \A m \in 1..L : seqs[m] \in Seq(A)
  OBVIOUS
<1>2. F \in [1..L -> [S -> S]]
  <2>1. ASSUME NEW m \in 1..L, NEW s \in S PROVE s \o seqs[m] \in S
    BY <1>1
  <2> QED BY <2>1
<1>3. PICK f : Unrolls(f, L, S, <<>>, F)
  <2> HIDE DEF F, L, S
  <2> QED BY <1>1, <1>2, RecursionExists
<1>4. f \in [0..L -> S] /\ f[0] = <<>> /\ \A m \in 1..L : f[m] = f[m - 1] \o seqs[m]
  <2>1. f \in [0..L -> S] /\ f[0] = <<>> /\ \A m \in 1..L : f[m] = F[m][f[m - 1]]
    BY <1>3 DEF Unrolls
  <2>2. ASSUME NEW m \in 1..L PROVE f[m] = f[m - 1] \o seqs[m]
    <3>1. f[m - 1] \in S
      BY <1>1, <2>1
    <3> HIDE DEF S
    <3> QED BY <2>1, <3>1
  <2> QED BY <2>1, <2>2
<1> DEFINE P(g) == g = [i \in 1..Len(seqs) |-> IF i = 1 THEN seqs[i] ELSE g[i - 1] \o seqs[i]]
           h == [i \in 1..L |-> f[i]]
<1>5. f[1] = seqs[1]
  <2>1. 1 \in 1..L /\ seqs[1] \in Seq(A)
    BY <1>1
  <2>2. f[1] = f[1 - 1] \o seqs[1]
    BY <1>4, <2>1
  <2>3. 1 - 1 = 0
    OBVIOUS
  <2>4. f[1] = <<>> \o seqs[1]
    BY <1>4, <2>2, <2>3
  <2> QED BY <2>1, <2>4
<1>6. P(h)
  <2>1. ASSUME NEW i \in 1..L PROVE h[i] = IF i = 1 THEN seqs[i] ELSE h[i - 1] \o seqs[i]
    <3>1. CASE i = 1
      BY <1>5, <3>1
    <3>2. CASE i # 1
      <4>1. i - 1 \in 1..L
        BY <3>2
      <4> QED BY <1>4, <3>2, <4>1
    <3> QED BY <3>1, <3>2
  <2>2. h = [i \in 1..L |-> h[i]]
    OBVIOUS
  <2> HIDE DEF h
  <2> QED BY <2>1, <2>2
<1>7. P(CHOOSE g : P(g))
  <2> HIDE DEF P
  <2> QED BY <1>6
<1>8. PICK u : u = (CHOOSE g : P(g)) /\ P(u)
  <2> HIDE DEF P
  <2> QED BY <1>7
<1>9. Text!FlattenSeq(seqs) = u[L]
  <2>1. Len(seqs) # 0
    BY <1>1
  <2> QED BY <1>8, <2>1 DEF Text!FlattenSeq
<1>10. u[1] = seqs[1] /\ \A i \in 2..L : u[i] = u[i - 1] \o seqs[i]
  <2>1. \A i \in 1..L : u[i] = IF i = 1 THEN seqs[i] ELSE u[i - 1] \o seqs[i]
    BY <1>8
  <2>2. ASSUME NEW i \in 2..L PROVE u[i] = u[i - 1] \o seqs[i]
    <3>1. i \in 1..L /\ i # 1
      BY <1>1
    <3> QED BY <2>1, <3>1
  <2>3. 1 \in 1..L
    BY <1>1
  <2> HIDE DEF L
  <2> QED BY <2>1, <2>2, <2>3
<1>11. u[L] = f[L]
  <2> DEFINE T == {n \in Nat : n + 1 <= L => u[n + 1] = f[n + 1]}
  <2>1. 0 \in T
    BY <1>5, <1>10
  <2>2. ASSUME NEW n \in T PROVE n + 1 \in T
    <3> SUFFICES ASSUME (n + 1) + 1 <= L PROVE u[(n + 1) + 1] = f[(n + 1) + 1]
      BY <2>2
    <3> DEFINE m == (n + 1) + 1
    <3>1. n \in Nat /\ u[n + 1] = f[n + 1]
      BY <1>1, <2>2
    <3>2. m \in 2..L /\ m \in 1..L /\ m - 1 = n + 1
      BY <1>1, <3>1
    <3> HIDE DEF m, L
    <3>3. u[m] = u[m - 1] \o seqs[m] /\ f[m] = f[m - 1] \o seqs[m]
      BY <1>4, <1>10, <3>2
    <3>4. u[m] = f[m]
      BY <3>1, <3>2, <3>3
    <3> QED BY <3>4 DEF m
  <2>3. T = Nat
    <3> HIDE DEF T
    <3>1. T \in SUBSET Nat
      BY DEF T
    <3> QED BY <2>1, <2>2, <3>1, InductionIn
  <2>4. L - 1 \in Nat /\ (L - 1) + 1 = L
    BY <1>1
  <2>5. L - 1 \in T
    <3> HIDE DEF T
    <3> QED BY <2>3, <2>4
  <2> QED BY <2>4, <2>5
<1> QED BY <1>4, <1>9, <1>11 DEF Flattens

\* MariaDBPrepare counts as this module does.
LEMMA SameCardinality ==
    ASSUME NEW S
    PROVE  Text!Cardinality(S) = Cardinality(S)
  BY DEF Text!Cardinality, Cardinality

\* The position k of any text is outside of string literals.
OutsideIn(text, k) == Cardinality({j \in 1..(k - 1) : text[j] = "quote"}) % 2 = 0

\* The value bound to a name, by any list and bindings.
BoundIn(list, values, n) == values[CHOOSE k \in DOMAIN list : list[k] = n]

\* What should be sent.
Wanted(text, list, values) ==
    [k \in DOMAIN text |->
        IF text[k] \in Name /\ OutsideIn(text, k) THEN BoundIn(list, values, text[k])
        ELSE text[k]]

\* A quote ends or begins a string literal, and nothing else does.
LEMMA OutsideNext ==
    ASSUME NEW text, NEW k \in Nat \ {0}
    PROVE  /\ OutsideIn(text, 1)
           /\ OutsideIn(text, k + 1)
                  <=> IF text[k] = "quote" THEN ~OutsideIn(text, k) ELSE OutsideIn(text, k)
<1> DEFINE Q(m) == {j \in 1..(m - 1) : text[j] = "quote"}
<1>1. \A m : OutsideIn(text, m) <=> Cardinality(Q(m)) % 2 = 0
  BY DEF OutsideIn
<1>2. IsFiniteSet(Q(k)) /\ Cardinality(Q(k)) \in Nat
  <2>1. IsFiniteSet(1..(k - 1)) /\ Q(k) \in SUBSET (1..(k - 1))
    BY FS_Interval
  <2> QED BY <2>1, FS_Subset, FS_CardinalityType
<1>3. Q(1) = {} /\ Cardinality({}) = 0
  BY FS_EmptySet
<1>4. Q(k + 1) = (IF text[k] = "quote" THEN Q(k) \cup {k} ELSE Q(k)) /\ k \notin Q(k)
  OBVIOUS
<1> HIDE DEF Q
<1>5. Cardinality(Q(k) \cup {k}) = Cardinality(Q(k)) + 1
  BY <1>2, <1>4, FS_AddElement
<1> DEFINE c == Cardinality(Q(k))
<1>6. Cardinality(Q(k + 1)) = (IF text[k] = "quote" THEN c + 1 ELSE c) /\ c \in Nat
  BY <1>2, <1>4, <1>5
<1> HIDE DEF c
<1>7. OutsideIn(text, k + 1) <=> IF text[k] = "quote" THEN ~(c % 2 = 0) ELSE c % 2 = 0
  <2>1. OutsideIn(text, k + 1) <=> Cardinality(Q(k + 1)) % 2 = 0
    BY <1>1
  <2>2. (c + 1) % 2 = 0 <=> ~(c % 2 = 0)
    BY <1>6
  <2> QED BY <1>6, <2>1, <2>2
<1>8. OutsideIn(text, k) <=> c % 2 = 0
  BY <1>1 DEF c
<1>9. OutsideIn(text, 1)
  BY <1>1, <1>3
<1> QED BY <1>7, <1>8, <1>9

\* The k-th token t is sent as it stands.
Kept(text, k, t) == k \in DOMAIN text /\ text[k] = t /\ ~(t \in Name /\ OutsideIn(text, k))

\* The k-th token is a parameter, the n-th of the list.
Replaced(text, k, n, list) ==
    /\ k \in DOMAIN text /\ text[k] \in Name /\ OutsideIn(text, k)
    /\ n \in DOMAIN list /\ list[n] = text[k]

\* The text before place p, taken apart: segment s begins at at[s], and between two
\* segments stands a parameter.
Laid(text, at, segs, indexes, list, p) ==
    /\ at \in [1..Len(segs) -> Nat \ {0}] /\ at[1] = 1
    /\ \A s \in 1..(Len(segs) - 1) : at[s + 1] = at[s] + Len(segs[s]) + 1
    /\ at[Len(segs)] + Len(segs[Len(segs)]) = p
    /\ \A s \in 1..Len(segs) : \A j \in 1..Len(segs[s]) : Kept(text, at[s] + j - 1, segs[s][j])
    /\ \A s \in 1..(Len(segs) - 1) : Replaced(text, at[s] + Len(segs[s]), indexes[s], list)

\* A token more for the last segment.
LEMMA LaidCopy ==
    ASSUME NEW text, NEW segs \in Seq(Seq(Text!Token)), segs # <<>>,
           NEW at, NEW indexes, NEW list,
           NEW p \in Nat \ {0}, Laid(text, at, segs, indexes, list, p),
           text[p] \in Text!Token, Kept(text, p, text[p])
    PROVE  Laid(text, at, [segs EXCEPT ![Len(segs)] = Append(@, text[p])], indexes, list, p + 1)
<1> DEFINE L == Len(segs)
           last == segs[L]
           longer == Append(last, text[p])
           more == [segs EXCEPT ![L] = longer]
<1>1. L \in Nat \ {0} /\ DOMAIN segs = 1..L /\ L \in 1..L
  OBVIOUS
<1>2. last \in Seq(Text!Token) /\ \A s \in 1..L : segs[s] \in Seq(Text!Token)
  BY <1>1
<1>3. /\ longer \in Seq(Text!Token) /\ Len(longer) = Len(last) + 1 /\ Len(last) \in Nat
      /\ longer[Len(last) + 1] = text[p] /\ \A j \in 1..Len(last) : longer[j] = last[j]
  BY <1>2
<1> HIDE DEF longer
<1>4. more \in Seq(Seq(Text!Token)) /\ Len(more) = L /\ more[L] = longer
      /\ \A s \in 1..L : s # L => more[s] = segs[s]
  <2> HIDE DEF L
  <2>1. /\ DOMAIN more = 1..L /\ more[L] = longer
        /\ \A s \in 1..L : s # L => more[s] = segs[s]
    BY <1>1
  <2>2. \A s \in 1..L : more[s] \in Seq(Text!Token)
    BY <1>2, <1>3, <2>1
  <2>3. more \in [1..L -> Seq(Text!Token)]
    <3>1. more = [s \in DOMAIN more |-> more[s]]
      OBVIOUS
    <3> HIDE DEF more
    <3> QED BY <2>1, <2>2, <3>1
  <2> HIDE DEF more
  <2>4. more \in Seq(Seq(Text!Token))
    BY <1>1, <2>2, <2>3
  <2>5. Len(more) = L
    BY <1>1, <2>1, <2>4
  <2> QED BY <2>1, <2>4, <2>5
<1> HIDE DEF more
<1>5. /\ at \in [1..L -> Nat \ {0}] /\ at[1] = 1
      /\ \A s \in 1..(L - 1) : at[s + 1] = at[s] + Len(segs[s]) + 1
      /\ at[L] + Len(last) = p
      /\ \A s \in 1..L : \A j \in 1..Len(segs[s]) : Kept(text, at[s] + j - 1, segs[s][j])
      /\ \A s \in 1..(L - 1) : Replaced(text, at[s] + Len(segs[s]), indexes[s], list)
  BY DEF Laid
<1>6. \A s \in 1..(L - 1) : s \in 1..L /\ more[s] = segs[s]
  <2> HIDE DEF L
  <2> QED BY <1>1, <1>4
<1>7. at[L] \in Nat \ {0}
  BY <1>1, <1>5
<1> HIDE DEF L, last
<1>8. at[L] + Len(more[L]) = p + 1
  BY <1>3, <1>4, <1>5, <1>7
<1>9. ASSUME NEW s \in 1..L, NEW j \in 1..Len(more[s])
      PROVE  Kept(text, at[s] + j - 1, more[s][j])
  <2>1. CASE s # L
    BY <1>4, <1>5, <2>1
  <2>2. CASE s = L /\ j \in 1..Len(last)
    <3>1. Kept(text, at[L] + j - 1, last[j])
      BY <1>1, <1>5, <2>2 DEF last
    <3> QED BY <1>3, <1>4, <2>2, <3>1
  <2>3. CASE s = L /\ j = Len(last) + 1
    <3>1. at[L] + j - 1 = p
      BY <1>3, <1>5, <1>7, <2>3
    <3>2. more[s][j] = text[p]
      BY <1>3, <1>4, <2>3
    <3> QED BY <2>3, <3>1, <3>2
  <2>4. s # L \/ j \in 1..Len(last) \/ j = Len(last) + 1
    BY <1>3, <1>4
  <2> QED BY <2>1, <2>2, <2>3, <2>4
<1>10. Laid(text, at, more, indexes, list, p + 1)
  BY <1>4, <1>5, <1>6, <1>8, <1>9 DEF Laid
<1> QED BY <1>10 DEF more, longer, last, L

\* A parameter more, and the segment after it begins.
LEMMA LaidPlaceholder ==
    ASSUME NEW text, NEW segs \in Seq(Seq(Text!Token)), segs # <<>>, NEW at,
           NEW indexes \in Seq(Nat), Len(segs) = Len(indexes) + 1,
           NEW list, NEW names2, NEW k \in Nat,
           \A n \in DOMAIN list : n \in DOMAIN names2 /\ names2[n] = list[n],
           NEW p \in Nat \ {0},
           Laid(text, at, segs, indexes, list, p), Replaced(text, p, k, names2)
    PROVE  \E at2 : Laid(text, at2, Append(segs, <<>>), Append(indexes, k), names2, p + 1)
<1> DEFINE L == Len(segs)
           more == Append(segs, <<>>)
           ix == Append(indexes, k)
           at2 == [s \in 1..(L + 1) |-> IF s <= L THEN at[s] ELSE p + 1]
<1>1. L \in Nat \ {0} /\ Len(indexes) = L - 1 /\ L \in 1..L
  OBVIOUS
<1>2. /\ Len(more) = L + 1 /\ more[L + 1] = <<>> /\ \A s \in 1..L : more[s] = segs[s]
      /\ \A s \in 1..L : segs[s] \in Seq(Text!Token) /\ Len(segs[s]) \in Nat
  BY <1>1
<1>3. ix[L] = k /\ \A s \in 1..(L - 1) : ix[s] = indexes[s]
  BY <1>1
<1>4. /\ at \in [1..L -> Nat \ {0}] /\ at[1] = 1
      /\ \A s \in 1..(L - 1) : at[s + 1] = at[s] + Len(segs[s]) + 1
      /\ at[L] + Len(segs[L]) = p
      /\ \A s \in 1..L : \A j \in 1..Len(segs[s]) : Kept(text, at[s] + j - 1, segs[s][j])
      /\ \A s \in 1..(L - 1) : Replaced(text, at[s] + Len(segs[s]), indexes[s], list)
  BY DEF Laid
<1> HIDE DEF L, more, ix
<1>5. /\ at2 \in [1..(L + 1) -> Nat \ {0}] /\ at2[L + 1] = p + 1
      /\ \A s \in 1..L : at2[s] = at[s] /\ at[s] \in Nat \ {0}
  BY <1>1, <1>4
<1> HIDE DEF at2
<1>6. at2[1] = 1
  BY <1>1, <1>4, <1>5
<1>7. ASSUME NEW s \in 1..L PROVE at2[s + 1] = at2[s] + Len(more[s]) + 1
  <2>1. CASE s = L
    BY <1>1, <1>2, <1>4, <1>5, <2>1
  <2>2. CASE s # L
    <3>1. s \in 1..(L - 1) /\ s + 1 \in 1..L
      BY <1>1, <2>2
    <3> QED BY <1>2, <1>4, <1>5, <3>1
  <2> QED BY <2>1, <2>2
<1>8. at2[L + 1] + Len(more[L + 1]) = p + 1
  BY <1>2, <1>5
<1>9. ASSUME NEW s \in 1..(L + 1), NEW j \in 1..Len(more[s])
      PROVE  Kept(text, at2[s] + j - 1, more[s][j])
  <2>1. s \in 1..L
    BY <1>1, <1>2
  <2> QED BY <1>2, <1>4, <1>5, <2>1
<1>10. ASSUME NEW s \in 1..L PROVE Replaced(text, at2[s] + Len(more[s]), ix[s], names2)
  <2>1. CASE s = L
    BY <1>1, <1>2, <1>3, <1>4, <1>5, <2>1
  <2>2. CASE s # L
    <3>1. s \in 1..(L - 1)
      BY <1>1, <2>2
    <3>2. Replaced(text, at2[s] + Len(more[s]), ix[s], list)
      BY <1>2, <1>3, <1>4, <1>5, <3>1
    <3> QED BY <3>2 DEF Replaced
  <2> QED BY <2>1, <2>2
<1>11. Len(more) - 1 = L
  BY <1>1, <1>2
<1>12. Laid(text, at2, more, ix, names2, p + 1)
  BY <1>2, <1>5, <1>6, <1>7, <1>8, <1>9, <1>10, <1>11 DEF Laid
<1> QED BY <1>12 DEF more, ix

\* A list of names in which none occurs twice has each at its place.
LEMMA BoundAt ==
    ASSUME Text!IndexIsName, NEW n \in DOMAIN names
    PROVE  BoundIn(names, bindings, names[n]) = bindings[n]
<1>1. (CHOOSE k \in DOMAIN names : names[k] = names[n]) = n
  BY DEF Text!IndexIsName
<1> QED BY <1>1 DEF BoundIn

\* The text is made of segments and parameters, so rendering puts each value at its place.
LEMMA RenderedIsWanted ==
    ASSUME Text!TypeOK, Text!IndexIsName, ~Text!Scanning,
           NEW at, Laid(sql, at, segments, placeholderToLogicalIndex, names, place)
    PROVE  /\ Text!Rendered = Wanted(sql, names, bindings)
           /\ Text!Rendered \in Seq(Text!Token \cup Value \cup {"NULL"})
<1> DEFINE W == Wanted(sql, names, bindings)
           P == Len(placeholderToLogicalIndex)
           A == Text!Token \cup Value \cup {"NULL"}
           piece(k) == Append(segments[k], bindings[placeholderToLogicalIndex[k]])
           pieces == [k \in DOMAIN placeholderToLogicalIndex |-> piece(k)]
<1>1. /\ P \in Nat /\ DOMAIN placeholderToLogicalIndex = 1..P /\ Len(segments) = P + 1
      /\ \A k \in 1..P : placeholderToLogicalIndex[k] \in DOMAIN names
      /\ DOMAIN names = 1..Len(names) /\ bindings \in [1..Len(names) -> Value \cup {"NULL"}]
      /\ \A k \in 1..(P + 1) : segments[k] \in Seq(Text!Token)
      /\ sql \in Seq(Text!Token) /\ Len(sql) \in Nat /\ DOMAIN sql = 1..Len(sql)
  BY DEF Text!TypeOK, Text!IndexIsName
<1>2. place = Len(sql) + 1
  <2>1. place \in 1..(Len(sql) + 1) /\ ~(place <= Len(sql))
    BY DEF Text!TypeOK, Text!Scanning
  <2> QED BY <1>1, <2>1
<1>3. /\ at \in [1..(P + 1) -> Nat \ {0}] /\ at[1] = 1
      /\ \A s \in 1..P : at[s + 1] = at[s] + Len(segments[s]) + 1
      /\ at[P + 1] + Len(segments[P + 1]) = place
      /\ \A s \in 1..(P + 1) : \A j \in 1..Len(segments[s]) :
             Kept(sql, at[s] + j - 1, segments[s][j])
      /\ \A s \in 1..P :
            Replaced(sql, at[s] + Len(segments[s]), placeholderToLogicalIndex[s], names)
  BY <1>1 DEF Laid
<1> HIDE DEF P, W
<1>4. ASSUME NEW s \in 1..P
      PROVE  /\ piece(s) \in Seq(A) /\ Len(piece(s)) = Len(segments[s]) + 1
             /\ Len(segments[s]) \in Nat /\ at[s] \in Nat \ {0}
             /\ \A j \in 1..Len(piece(s)) :
                  at[s] + j - 1 \in DOMAIN sql /\ piece(s)[j] = W[at[s] + j - 1]
  <2> DEFINE seg == segments[s]
             v == bindings[placeholderToLogicalIndex[s]]
             w == piece(s)
  <2>1. seg \in Seq(Text!Token) /\ v \in Value \cup {"NULL"} /\ s \in 1..(P + 1)
    BY <1>1
  <2>2. at[s] \in Nat \ {0}
    BY <1>3, <2>1
  <2>3. /\ w \in Seq(A) /\ Len(w) = Len(seg) + 1 /\ Len(seg) \in Nat
        /\ w[Len(seg) + 1] = v /\ \A j \in 1..Len(seg) : w[j] = seg[j]
    <3>1. seg \in Seq(A) /\ v \in A
      BY <2>1
    <3> HIDE DEF A, seg, v
    <3>2. w = Append(seg, v)
      BY DEF seg, v
    <3> HIDE DEF w, piece
    <3> QED BY <3>1, <3>2
  <2>4. ASSUME NEW j \in 1..Len(w)
        PROVE  at[s] + j - 1 \in DOMAIN sql /\ w[j] = W[at[s] + j - 1]
    <3>1. CASE j \in 1..Len(seg)
      <4>1. Kept(sql, at[s] + j - 1, seg[j])
        BY <1>3, <2>1, <3>1
      <4> HIDE DEF w, seg, v
      <4> QED BY <2>3, <3>1, <4>1 DEF Kept, W, Wanted
    <3>2. CASE j = Len(seg) + 1
      <4> DEFINE q == at[s] + Len(seg)
                 n == placeholderToLogicalIndex[s]
      <4>1. at[s] + j - 1 = q
        BY <2>2, <2>3, <3>2
      <4>2. Replaced(sql, q, n, names)
        BY <1>3
      <4>3. BoundIn(names, bindings, names[n]) = bindings[n] /\ n \in DOMAIN names
        BY <1>1, BoundAt
      <4> HIDE DEF q, w, seg, n
      <4>4. q \in DOMAIN sql /\ W[q] = BoundIn(names, bindings, names[n])
        BY <4>2 DEF Replaced, W, Wanted
      <4>5. w[j] = bindings[n]
        BY <2>3, <3>2 DEF n
      <4> QED BY <4>1, <4>3, <4>4, <4>5
    <3>3. j \in 1..Len(seg) \/ j = Len(seg) + 1
      BY <2>3
    <3> QED BY <3>1, <3>2, <3>3
  <2> QED BY <2>2, <2>3, <2>4
<1> HIDE DEF piece
<1> DEFINE Right(x, s) == /\ x \in Seq(A) /\ Len(x) = at[s + 1] - 1
                          /\ \A j \in 1..Len(x) : j \in DOMAIN sql /\ x[j] = W[j]
<1>5. Right(Text!FlattenSeq(pieces), P)
  <2>1. /\ DOMAIN pieces = 1..P /\ \A k \in 1..P : pieces[k] = piece(k)
        /\ pieces \in Seq(Seq(A)) /\ Len(pieces) = P
    <3>1. DOMAIN pieces = 1..P /\ \A k \in 1..P : pieces[k] = piece(k) /\ piece(k) \in Seq(A)
      BY <1>1, <1>4
    <3>2. pieces \in [1..P -> Seq(A)]
      BY <1>1, <1>4
    <3> HIDE DEF pieces, A
    <3>3. pieces \in Seq(Seq(A))
      BY <1>1, <3>2
    <3>4. Len(pieces) = P
      BY <1>1, <3>1, <3>3
    <3> QED BY <3>1, <3>3, <3>4
  <2> HIDE DEF pieces
  <2>2. CASE P = 0
    <3>1. Text!FlattenSeq(pieces) = pieces
      BY <2>1, <2>2 DEF Text!FlattenSeq
    <3> QED BY <1>3, <2>1, <2>2, <3>1
  <2>3. CASE P # 0
    <3>1. pieces # <<>>
      BY <2>1, <2>3
    <3>2. PICK f : Flattens(f, pieces, A)
      <4> HIDE DEF A
      <4> QED BY <2>1, <3>1, FlattenIs
    <3>3. /\ f \in [0..P -> Seq(A)] /\ f[0] = <<>> /\ Text!FlattenSeq(pieces) = f[P]
          /\ \A m \in 1..P : f[m] = f[m - 1] \o piece(m)
      BY <2>1, <3>2 DEF Flattens
    <3> DEFINE T == {m \in Nat : m <= P => Right(f[m], m)}
    <3>4. 0 \in T
      BY <1>3, <3>3
    <3>5. ASSUME NEW m \in T PROVE m + 1 \in T
      <4> SUFFICES ASSUME m + 1 <= P PROVE Right(f[m + 1], m + 1)
        BY <3>5
      <4> DEFINE x == f[m]
                 y == piece(m + 1)
                 z == x \o y
      <4>1. m \in Nat /\ m + 1 \in 1..P /\ (m + 1) - 1 = m /\ Right(x, m)
        BY <1>1, <3>5
      <4>2. f[m + 1] = z
        BY <3>3, <4>1
      <4>3. /\ y \in Seq(A) /\ Len(y) = Len(segments[m + 1]) + 1
            /\ Len(segments[m + 1]) \in Nat /\ at[m + 1] \in Nat \ {0}
            /\ \A j \in 1..Len(y) :
                  at[m + 1] + j - 1 \in DOMAIN sql /\ y[j] = W[at[m + 1] + j - 1]
        BY <1>4, <4>1
      <4>4. at[(m + 1) + 1] = at[m + 1] + Len(segments[m + 1]) + 1
        BY <1>3, <4>1
      <4>5. x \in Seq(A) /\ Len(x) = at[m + 1] - 1 /\ Len(x) \in Nat /\ Len(y) \in Nat
        BY <4>1, <4>3
      <4> HIDE DEF x, y, A, Right
      <4>6. /\ z \in Seq(A) /\ Len(z) = Len(x) + Len(y)
            /\ \A j \in 1..(Len(x) + Len(y)) :
                  z[j] = IF j <= Len(x) THEN x[j] ELSE y[j - Len(x)]
        BY <4>3, <4>5, ConcatProperties
      <4> HIDE DEF z
      <4>7. Len(z) = at[(m + 1) + 1] - 1
        BY <4>3, <4>4, <4>5, <4>6
      <4>8. ASSUME NEW j \in 1..Len(z) PROVE j \in DOMAIN sql /\ z[j] = W[j]
        <5>1. CASE j <= Len(x)
          <6>1. j \in 1..Len(x) /\ j \in 1..(Len(x) + Len(y))
            BY <4>5, <4>6, <5>1
          <6>2. z[j] = x[j]
            BY <4>6, <5>1, <6>1
          <6> QED BY <4>1, <6>1, <6>2 DEF Right
        <5>2. CASE j > Len(x)
          <6>1. j \in 1..(Len(x) + Len(y)) /\ j \in Nat
            BY <4>5, <4>6
          <6> DEFINE k == j - Len(x)
          <6>2. k \in 1..Len(y) /\ at[m + 1] + k - 1 = j
            <7> DEFINE a == at[m + 1]
                       lx == Len(x)
                       ly == Len(y)
            <7>1. a \in Nat /\ lx \in Nat /\ ly \in Nat /\ lx = a - 1 /\ j > lx /\ j <= lx + ly
              BY <4>3, <4>5, <5>2, <6>1
            <7> HIDE DEF a, lx, ly
            <7>2. j - lx \in 1..ly /\ a + (j - lx) - 1 = j
              BY <6>1, <7>1
            <7> QED BY <7>2 DEF a, lx, ly
          <6>3. z[j] = y[k]
            BY <4>5, <4>6, <5>2, <6>1
          <6> HIDE DEF k
          <6> QED BY <4>3, <6>2, <6>3
        <5> QED BY <4>5, <4>6, <5>1, <5>2
      <4> QED BY <4>2, <4>6, <4>7, <4>8 DEF Right
    <3>6. T = Nat
      <4> HIDE DEF T
      <4>1. T \in SUBSET Nat
        BY DEF T
      <4> QED BY <3>4, <3>5, <4>1, InductionIn
    <3>7. P \in T
      <4> HIDE DEF T
      <4> QED BY <1>1, <3>6
    <3> QED BY <3>3, <3>7
  <2> QED BY <2>2, <2>3
<1> DEFINE x == Text!FlattenSeq(pieces)
           last == segments[P + 1]
<1>6. Text!Rendered = x \o last
  BY <1>1 DEF Text!Rendered, Text!Last, piece, P
<1>7. Right(x, P) /\ at[P + 1] \in Nat \ {0} /\ P + 1 \in 1..(P + 1)
  BY <1>1, <1>3, <1>5
<1> HIDE DEF x
<1>8. /\ last \in Seq(A) /\ Len(last) \in Nat
      /\ x \in Seq(A) /\ Len(x) \in Nat /\ Len(x) = at[P + 1] - 1
  BY <1>1, <1>7
<1> DEFINE z == x \o last
<1>9. /\ z \in Seq(A) /\ Len(z) = Len(x) + Len(last)
      /\ \A j \in 1..(Len(x) + Len(last)) :
            z[j] = IF j <= Len(x) THEN x[j] ELSE last[j - Len(x)]
  <2> HIDE DEF A, last
  <2> QED BY <1>8
<1> HIDE DEF z
<1>10. Len(z) = Len(sql)
  BY <1>1, <1>2, <1>3, <1>7, <1>8, <1>9
<1>11. ASSUME NEW j \in 1..Len(z) PROVE z[j] = W[j]
  <2>1. CASE j <= Len(x)
    <3>1. j \in 1..Len(x)
      BY <1>8, <2>1
    <3> QED BY <1>7, <1>8, <1>9, <2>1, <3>1
  <2>2. CASE j > Len(x)
    <3>1. j \in 1..(Len(x) + Len(last)) /\ j \in Nat
      BY <1>8, <1>9
    <3> DEFINE k == j - Len(x)
    <3>2. k \in 1..Len(last) /\ at[P + 1] + k - 1 = j
      <4> DEFINE a == at[P + 1]
                 lx == Len(x)
                 ll == Len(last)
      <4>1. a \in Nat /\ lx \in Nat /\ ll \in Nat /\ lx = a - 1 /\ j > lx /\ j <= lx + ll
        BY <1>7, <1>8, <2>2, <3>1
      <4> HIDE DEF a, lx, ll
      <4>2. j - lx \in 1..ll /\ a + (j - lx) - 1 = j
        BY <3>1, <4>1
      <4> QED BY <4>2 DEF a, lx, ll
    <3>3. z[j] = last[k]
      BY <1>8, <1>9, <2>2, <3>1
    <3>4. Kept(sql, j, last[k])
      BY <1>3, <1>7, <3>2
    <3> HIDE DEF k
    <3> QED BY <3>3, <3>4 DEF Kept, W, Wanted
  <2> QED BY <1>8, <1>9, <2>1, <2>2
<1>12. DOMAIN z = 1..Len(z) /\ DOMAIN W = 1..Len(sql) /\ z = [j \in DOMAIN z |-> z[j]]
       /\ W = [j \in DOMAIN W |-> W[j]]
  BY <1>1, <1>9 DEF W, Wanted
<1>13. z = W
  BY <1>10, <1>11, <1>12
<1> QED BY <1>6, <1>9, <1>13 DEF z, W

\* The text before the place is taken apart rightly, and whether a literal is open
\* there is known.
TextInv ==
    /\ Text!TypeOK /\ Text!IndexIsName
    /\ inStringLiteral <=> ~OutsideIn(sql, place)
    /\ \E at : Laid(sql, at, segments, placeholderToLogicalIndex, names, place)
    /\ query # <<>> => ~Text!Scanning /\ query = Wanted(sql, names, bindings)

\* What is known while the text is scanned.
LEMMA ScanTypes ==
    ASSUME TextInv, Text!Scanning
    PROVE  /\ place \in DOMAIN sql /\ place \in Nat \ {0} /\ sql[place] \in Text!Token
           /\ query = <<>> /\ place + 1 \in 1..(Len(sql) + 1)
           /\ segments \in Seq(Seq(Text!Token)) /\ segments # <<>>
           /\ Len(segments) \in Nat \ {0} /\ Len(placeholderToLogicalIndex) \in Nat
           /\ Len(segments) = Len(placeholderToLogicalIndex) + 1
<1>1. sql \in Seq(Text!Token) /\ place \in 1..(Len(sql) + 1) /\ place <= Len(sql)
  BY DEF TextInv, Text!TypeOK, Text!Scanning
<1>2. segments \in Seq(Seq(Text!Token)) /\ Len(segments) = Len(placeholderToLogicalIndex) + 1
      /\ Len(placeholderToLogicalIndex) \in Nat
  BY DEF TextInv, Text!TypeOK, Text!IndexIsName
<1> QED BY <1>1, <1>2 DEF TextInv

\* A token goes to the last segment, which leaves every placeholder where it is.
LEMMA CopyStep ==
    ASSUME TextInv, Text!Scanning, Text!Copy, inStringLiteral' \in BOOLEAN,
           ~(sql[place] \in Name /\ OutsideIn(sql, place)),
           inStringLiteral' <=> ~OutsideIn(sql, place + 1)
    PROVE  TextInv'
<1>1. PICK at : Laid(sql, at, segments, placeholderToLogicalIndex, names, place)
  BY DEF TextInv
<1>2. /\ place \in DOMAIN sql /\ place \in Nat \ {0} /\ sql[place] \in Text!Token /\ query = <<>>
      /\ segments \in Seq(Seq(Text!Token)) /\ segments # <<>> /\ Len(segments) \in Nat \ {0}
      /\ place + 1 \in 1..(Len(sql) + 1)
  BY ScanTypes
<1>3. /\ segments' = [segments EXCEPT ![Len(segments)] = Append(@, sql[place])]
      /\ place' = place + 1
      /\ UNCHANGED <<sql, placeholderToLogicalIndex, names, bindings, query>>
  BY DEF Text!Copy
<1>4. Laid(sql, at, segments', placeholderToLogicalIndex, names, place + 1)
  BY <1>1, <1>2, <1>3, LaidCopy DEF Kept
<1>5. segments' \in Seq(Seq(Text!Token)) /\ Len(segments') = Len(segments)
  <2> DEFINE L == Len(segments)
             longer == Append(segments[L], sql[place])
  <2>1. L \in Nat \ {0} /\ L \in 1..L /\ DOMAIN segments = 1..L
        /\ \A s \in 1..L : segments[s] \in Seq(Text!Token)
    BY <1>2
  <2>2. longer \in Seq(Text!Token)
    BY <1>2, <2>1
  <2>3. segments' = [segments EXCEPT ![L] = longer]
    BY <1>3
  <2> HIDE DEF longer, L
  <2>4. segments' \in [1..L -> Seq(Text!Token)]
    BY <2>1, <2>2, <2>3
  <2>5. segments' \in Seq(Seq(Text!Token)) /\ Len(segments') = L
    BY <2>1, <2>4
  <2> QED BY <2>5 DEF L
<1>6. Text!TypeOK' /\ Text!IndexIsName'
  BY <1>2, <1>3, <1>5 DEF TextInv, Text!TypeOK, Text!IndexIsName, Text!Range
<1>7. Laid(sql', at, segments', placeholderToLogicalIndex', names', place')
  BY <1>3, <1>4
<1>8. inStringLiteral' <=> ~OutsideIn(sql', place')
  BY <1>3
<1> QED BY <1>2, <1>3, <1>6, <1>7, <1>8 DEF TextInv

\* The index of a name: where the list has it, or the place after the last.
LEMMA IndexOfName ==
    ASSUME Text!TypeOK, NEW n
    PROVE  LET k == Text!LogicalIndex(n)
           IN  \/ k \in DOMAIN names /\ names[k] = n
               \/ k = Len(names) + 1 /\ \A j \in DOMAIN names : names[j] # n
<1>1. names \in Seq(Name) /\ DOMAIN names = 1..Len(names)
  BY DEF Text!TypeOK
<1>2. CASE \E j \in DOMAIN names : names[j] = n
  <2>1. Text!LogicalIndex(n) = CHOOSE k \in DOMAIN names : names[k] = n
    BY <1>1, <1>2 DEF Text!LogicalIndex, Text!Contains
  <2> QED BY <1>2, <2>1
<1>3. CASE \A j \in DOMAIN names : names[j] # n
  BY <1>1, <1>3 DEF Text!LogicalIndex, Text!Contains
<1> QED BY <1>2, <1>3

\* A parameter takes the index of its name, and a segment begins after it.
LEMMA PlaceholderStep ==
    ASSUME TextInv, Text!Placeholder
    PROVE  TextInv'
<1> DEFINE n == sql[place]
           k == Text!LogicalIndex(n)
<1>0. Text!Scanning /\ n \in Name /\ ~inStringLiteral
  BY DEF Text!Placeholder
<1>1. PICK at : Laid(sql, at, segments, placeholderToLogicalIndex, names, place)
  BY DEF TextInv
<1>2. /\ place \in DOMAIN sql /\ place \in Nat \ {0} /\ query = <<>>
      /\ segments \in Seq(Seq(Text!Token)) /\ segments # <<>>
      /\ Len(segments) = Len(placeholderToLogicalIndex) + 1
      /\ place + 1 \in 1..(Len(sql) + 1)
  BY <1>0, ScanTypes
<1>3. /\ placeholderToLogicalIndex' = Append(placeholderToLogicalIndex, k)
      /\ names' = IF k > Len(names) THEN Append(names, n) ELSE names
      /\ bindings' = [j \in 1..Len(names') |-> "NULL"]
      /\ segments' = Append(segments, <<>>) /\ place' = place + 1
      /\ UNCHANGED <<sql, inStringLiteral, query>>
  BY DEF Text!Placeholder
<1>4. /\ names \in Seq(Name) /\ Len(names) \in Nat /\ DOMAIN names = 1..Len(names)
      /\ placeholderToLogicalIndex \in Seq(1..Len(names))
      /\ \A i, j \in DOMAIN names : names[i] = names[j] => i = j
      /\ {placeholderToLogicalIndex[s] : s \in DOMAIN placeholderToLogicalIndex} = DOMAIN names
  BY DEF TextInv, Text!TypeOK, Text!IndexIsName, Text!Range
<1>5. \/ k \in 1..Len(names) /\ names[k] = n /\ names' = names
      \/ /\ k = Len(names) + 1 /\ names' = Append(names, n)
         /\ \A j \in 1..Len(names) : names[j] # n
  <2>1. \/ k \in 1..Len(names) /\ names[k] = n
        \/ k = Len(names) + 1 /\ \A j \in 1..Len(names) : names[j] # n
    BY <1>4, IndexOfName DEF TextInv
  <2> HIDE DEF k, n
  <2>2. CASE k \in 1..Len(names) /\ names[k] = n
    <3>1. ~(k > Len(names))
      BY <1>4, <2>2
    <3> QED BY <1>3, <2>2, <3>1
  <2>3. CASE k = Len(names) + 1 /\ \A j \in 1..Len(names) : names[j] # n
    <3>1. k > Len(names)
      BY <1>4, <2>3
    <3>2. names' = Append(names, n)
      BY <1>3, <3>1 DEF n
    <3> QED BY <2>3, <3>2
  <2> QED BY <2>1, <2>2, <2>3
<1> HIDE DEF k
<1>6. /\ names' \in Seq(Name) /\ Len(names') \in Nat /\ DOMAIN names' = 1..Len(names')
      /\ Len(names) <= Len(names') /\ k \in 1..Len(names') /\ names'[k] = n /\ k \in Nat
      /\ \A j \in 1..Len(names') : j = k \/ j \in 1..Len(names)
      /\ \A j \in 1..Len(names) : j \in 1..Len(names') /\ names'[j] = names[j]
      /\ \A j \in 1..Len(names) : names[j] = n => j = k
  <2> HIDE DEF n
  <2>1. CASE k \in 1..Len(names) /\ names[k] = n /\ names' = names
    BY <1>4, <2>1
  <2>2. CASE /\ k = Len(names) + 1 /\ names' = Append(names, n)
             /\ \A j \in 1..Len(names) : names[j] # n
    BY <1>0, <1>4, <2>2
  <2> QED BY <1>5, <2>1, <2>2
<1> DEFINE indexes == placeholderToLogicalIndex
<1>7. /\ indexes' \in Seq(1..Len(names')) /\ Len(indexes') = Len(indexes) + 1
      /\ Len(indexes) \in Nat
      /\ DOMAIN indexes' = 1..(Len(indexes) + 1) /\ DOMAIN indexes = 1..Len(indexes)
      /\ indexes'[Len(indexes) + 1] = k /\ \A s \in 1..Len(indexes) : indexes'[s] = indexes[s]
  <2>1. indexes \in Seq(1..Len(names'))
    BY <1>4, <1>6
  <2> QED BY <1>3, <1>6, <2>1
<1>8. {indexes'[s] : s \in DOMAIN indexes'} = DOMAIN names'
  <2>1. \A j \in 1..Len(names) : \E s \in 1..Len(indexes) : indexes[s] = j
    BY <1>4, <1>7
  <2>2. ASSUME NEW j \in 1..Len(names') PROVE \E s \in DOMAIN indexes' : indexes'[s] = j
    <3>1. CASE j = k
      BY <1>7, <3>1
    <3>2. CASE j \in 1..Len(names)
      <4>1. PICK s \in 1..Len(indexes) : indexes[s] = j
        BY <2>1, <3>2
      <4> QED BY <1>7, <4>1
    <3> QED BY <1>6, <3>1, <3>2
  <2>3. \A s \in DOMAIN indexes' : indexes'[s] \in 1..Len(names')
    BY <1>6, <1>7
  <2> HIDE DEF indexes
  <2> QED BY <1>6, <2>2, <2>3
<1>9. \A i, j \in DOMAIN names' : names'[i] = names'[j] => i = j
  <2> SUFFICES ASSUME NEW i \in DOMAIN names', NEW j \in DOMAIN names', names'[i] = names'[j]
               PROVE  i = j
    OBVIOUS
  <2>1. i \in 1..Len(names') /\ j \in 1..Len(names')
    BY <1>6
  <2>2. CASE i \in 1..Len(names) /\ j \in 1..Len(names)
    BY <1>4, <1>6, <2>2
  <2>3. CASE i = k \/ j = k
    <3>1. CASE i = k
      <4>1. j = k \/ (j \in 1..Len(names) /\ names[j] = n)
        BY <1>6, <2>1, <3>1
      <4> QED BY <1>6, <3>1, <4>1
    <3>2. CASE j = k
      <4>1. i = k \/ (i \in 1..Len(names) /\ names[i] = n)
        BY <1>6, <2>1, <3>2
      <4> QED BY <1>6, <3>2, <4>1
    <3> QED BY <2>3, <3>1, <3>2
  <2> QED BY <1>6, <2>1, <2>2, <2>3
<1>10. segments' \in Seq(Seq(Text!Token)) /\ Len(segments') = Len(indexes') + 1
  <2> DEFINE E == Seq(Text!Token)
  <2>1. <<>> \in E
    OBVIOUS
  <2>2. segments \in Seq(E) /\ Len(segments) = Len(indexes) + 1 /\ Len(indexes) \in Nat
    BY <1>2, <1>7
  <2> HIDE DEF E, indexes
  <2>3. segments' \in Seq(E) /\ Len(segments') = Len(segments) + 1
    BY <1>3, <2>1, <2>2
  <2> QED BY <1>7, <2>2, <2>3 DEF E
<1>11. Replaced(sql, place, k, names')
  BY <1>0, <1>2, <1>6 DEF Replaced, TextInv
<1>12. \E a : Laid(sql, a, segments', indexes', names', place')
  <2>1. indexes \in Seq(Nat)
    BY <1>4
  <2>2. \A j \in DOMAIN names : j \in DOMAIN names' /\ names'[j] = names[j]
    BY <1>4, <1>6
  <2>3. \E a : Laid(sql, a, Append(segments, <<>>), Append(indexes, k), names', place + 1)
    BY <1>1, <1>2, <1>6, <1>11, <2>1, <2>2, LaidPlaceholder
  <2> QED BY <1>3, <2>3
<1>13. OutsideIn(sql, place + 1)
  <2>1. n # "quote"
    BY <1>0, DatabaseClientAssumption DEF Text!MariaDBPrepareConstants
  <2> QED BY <1>0, <1>2, <2>1, OutsideNext DEF TextInv
<1>14. bindings' \in [1..Len(names') -> Value \cup {"NULL"}]
  BY <1>3
<1>15. Text!TypeOK'
  BY <1>2, <1>3, <1>6, <1>7, <1>10, <1>14 DEF TextInv, Text!TypeOK
<1>16. Text!IndexIsName'
  BY <1>8, <1>9, <1>10 DEF Text!IndexIsName, Text!Range
<1> QED BY <1>0, <1>2, <1>3, <1>12, <1>13, <1>15, <1>16 DEF TextInv

\* A quote is kept, and opens or ends a literal.
LEMMA QuoteStep == ASSUME TextInv, Text!Quote PROVE TextInv'
<1>1. Text!Scanning /\ sql[place] = "quote" /\ inStringLiteral' = ~inStringLiteral /\ Text!Copy
  BY DEF Text!Quote
<1>2. sql[place] \notin Name
  BY <1>1, DatabaseClientAssumption DEF Text!MariaDBPrepareConstants
<1>3. place \in Nat \ {0} /\ inStringLiteral \in BOOLEAN
      /\ (inStringLiteral <=> ~OutsideIn(sql, place))
  BY <1>1, ScanTypes DEF TextInv, Text!TypeOK
<1>4. inStringLiteral' <=> ~OutsideIn(sql, place + 1)
  BY <1>1, <1>3, OutsideNext
<1> QED BY <1>1, <1>2, <1>3, <1>4, CopyStep

\* Other text is kept, a parameter within a literal too.
LEMMA LiteralStep == ASSUME TextInv, Text!Literal PROVE TextInv'
<1>1. /\ Text!Scanning /\ Text!Copy /\ inStringLiteral' = inStringLiteral
      /\ sql[place] = "text" \/ (sql[place] \in Name /\ inStringLiteral)
  BY DEF Text!Literal
<1>2. place \in Nat \ {0} /\ inStringLiteral \in BOOLEAN
      /\ (inStringLiteral <=> ~OutsideIn(sql, place))
  BY <1>1, ScanTypes DEF TextInv, Text!TypeOK
<1>3. sql[place] # "quote" /\ ~(sql[place] \in Name /\ OutsideIn(sql, place))
  BY <1>1, <1>2, DatabaseClientAssumption DEF Text!MariaDBPrepareConstants
<1>4. inStringLiteral' <=> ~OutsideIn(sql, place + 1)
  BY <1>1, <1>2, <1>3, OutsideNext
<1> QED BY <1>1, <1>2, <1>3, <1>4, CopyStep

\* A value bound changes nothing of how the text was taken apart.
LEMMA BindStep ==
    ASSUME TextInv, NEW n \in Name, NEW v \in Value, Text!Bind(n, v)
    PROVE  TextInv'
<1>1. /\ query = <<>> /\ bindings' = [bindings EXCEPT ![Text!LogicalIndex(n)] = v]
      /\ UNCHANGED <<sql, place, inStringLiteral, segments, placeholderToLogicalIndex>>
      /\ UNCHANGED <<names, query>>
  BY DEF Text!Bind
<1>2. bindings' \in [1..Len(names) -> Value \cup {"NULL"}]
  BY <1>1 DEF TextInv, Text!TypeOK
<1>3. Text!TypeOK' /\ Text!IndexIsName'
  BY <1>1, <1>2 DEF TextInv, Text!TypeOK, Text!IndexIsName, Text!Range
<1> QED BY <1>1, <1>3 DEF TextInv

\* Rendering sends what should be sent.
LEMMA RenderStep == ASSUME TextInv, Text!RenderQuery PROVE TextInv'
<1> DEFINE A == Text!Token \cup Value \cup {"NULL"}
           W == Wanted(sql, names, bindings)
<1>1. /\ ~Text!Scanning /\ query' = Text!Rendered
      /\ UNCHANGED <<sql, place, inStringLiteral, segments, placeholderToLogicalIndex>>
      /\ UNCHANGED <<names, bindings>>
  BY DEF Text!RenderQuery
<1>2. PICK at : Laid(sql, at, segments, placeholderToLogicalIndex, names, place)
  BY DEF TextInv
<1>3. query' = W /\ query' \in Seq(A)
  BY <1>1, <1>2, RenderedIsWanted DEF TextInv
<1>4. Text!TypeOK' /\ Text!IndexIsName' /\ ~Text!Scanning'
  BY <1>1, <1>3 DEF TextInv, Text!TypeOK, Text!IndexIsName, Text!Range, Text!Scanning
<1> HIDE DEF W
<1> QED BY <1>1, <1>3, <1>4 DEF TextInv, W

\* Nothing is scanned yet.
LEMMA TextInitially == Text!Init => TextInv
<1> SUFFICES ASSUME Text!Init PROVE TextInv
  OBVIOUS
<1>1. /\ place = 1 /\ inStringLiteral = FALSE /\ segments = <<<<>>>>
      /\ placeholderToLogicalIndex = <<>> /\ names = <<>> /\ bindings = <<>> /\ query = <<>>
  BY DEF Text!Init
<1>2. sql \in Seq(Text!Token) /\ Len(sql) \in Nat
  <2>1. PICK n \in 1..MaxTokens : sql \in [1..n -> Text!Token]
    BY DEF Text!Init
  <2>2. n \in Nat
    BY DatabaseClientAssumption DEF Text!MariaDBPrepareConstants
  <2> QED BY <2>1, <2>2
<1>3. /\ segments \in Seq(Seq(Text!Token)) /\ Len(segments) = 1 /\ segments[1] = <<>>
      /\ Len(<<>>) = 0
  BY <1>1
<1>4. OutsideIn(sql, place)
  BY <1>1, OutsideNext
<1>5. Laid(sql, [s \in 1..1 |-> 1], segments, placeholderToLogicalIndex, names, place)
  BY <1>1, <1>3 DEF Laid
<1>6. bindings \in [1..0 -> Value \cup {"NULL"}] /\ DOMAIN placeholderToLogicalIndex = {}
      /\ DOMAIN names = {} /\ Len(names) = 0 /\ Len(placeholderToLogicalIndex) = 0
  BY <1>1
<1>7. Text!TypeOK
  <2>1. /\ place \in 1..(Len(sql) + 1) /\ inStringLiteral \in BOOLEAN
        /\ bindings \in [1..Len(names) -> Value \cup {"NULL"}]
    <3>1. bindings \in [1..Len(names) -> Value \cup {"NULL"}]
      BY <1>6
    <3>2. 1 \in 1..(Len(sql) + 1)
      BY <1>2
    <3> QED BY <1>1, <3>1, <3>2
  <2>2. /\ placeholderToLogicalIndex \in Seq(1..Len(names)) /\ names \in Seq(Name)
        /\ query \in Seq(Text!Token \cup Value \cup {"NULL"})
    BY <1>1
  <2> QED BY <1>2, <1>3, <2>1, <2>2 DEF Text!TypeOK
<1>8. Text!IndexIsName
  BY <1>3, <1>6 DEF Text!IndexIsName, Text!Range
<1> QED BY <1>1, <1>4, <1>5, <1>7, <1>8 DEF TextInv

\* Every step keeps it.
LEMMA TextInductive == TextInv /\ [Text!Next]_(Text!vars) => TextInv'
<1> SUFFICES ASSUME TextInv, [Text!Next]_(Text!vars) PROVE TextInv'
  OBVIOUS
<1>1. CASE UNCHANGED Text!vars
  BY <1>1 DEF Text!vars, TextInv, Text!TypeOK, Text!IndexIsName, Text!Range, Text!Scanning
<1> QED BY <1>1, QuoteStep, PlaceholderStep, LiteralStep, BindStep, RenderStep DEF Text!Next

\* The model's Outside and Bound, of the text and the list there are.
LEMMA TextSoundIs == TextInv => TextSound
<1> SUFFICES ASSUME TextInv PROVE TextSound
  OBVIOUS
<1>1. \A k : Text!Outside(k) <=> OutsideIn(sql, k)
  <2> SUFFICES ASSUME NEW k PROVE Text!Outside(k) <=> OutsideIn(sql, k)
    OBVIOUS
  <2> DEFINE Q == {j \in 1..(k - 1) : sql[j] = "quote"}
  <2>1. Text!Outside(k) <=> Text!Cardinality(Q) % 2 = 0
    BY DEF Text!Outside
  <2>2. OutsideIn(sql, k) <=> Cardinality(Q) % 2 = 0
    BY DEF OutsideIn
  <2> HIDE DEF Q
  <2> QED BY <2>1, <2>2, SameCardinality
<1>2. \A n : Text!Bound(n) = BoundIn(names, bindings, n)
  BY DEF Text!Bound, BoundIn
<1>3. Text!RenderedByName
  <2> SUFFICES ASSUME query # <<>>
               PROVE  query = [k \in DOMAIN sql |-> IF sql[k] \in Name /\ Text!Outside(k)
                                                  THEN Text!Bound(sql[k]) ELSE sql[k]]
    BY DEF Text!RenderedByName
  <2>1. query = Wanted(sql, names, bindings)
    BY DEF TextInv
  <2> QED BY <1>1, <1>2, <2>1 DEF Wanted
<1> QED BY <1>3 DEF TextInv, TextSound

\* Whatever the text and whatever is bound to its parameters, the query sent is the
\* text with each parameter outside of string literals replaced by the value bound
\* under its name (mariadb_prepare, mariadb_bind_*, RenderQuery).
THEOREM TextIsSound == Text!Spec => []TextSound
  BY TextInitially, TextInductive, TextSoundIs, PTL DEF Text!Spec
=============================================================================
