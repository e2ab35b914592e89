---------------------------- MODULE MariaDBPrepare ----------------------------
(***************************************************************************)
(* How the database client takes a statement apart and puts values in its  *)
(* place (mariadb_prepare, mariadb_bind_*, RenderQuery).  The text is a    *)
(* sequence of tokens: a quote, a parameter @name, and any other text,     *)
(* "text", in which an @ that no name follows is included.                 *)
(*                                                                         *)
(* A parameter gets a logical index where its name first occurs; its later *)
(* occurrences share it, and with it the one value bound to the name.      *)
(***************************************************************************)
EXTENDS Naturals, Sequences, SequencesExt

CONSTANTS
    Name,         \* names of parameters
    Value,        \* what is bound to them
    MaxTokens     \* bound: the length of a text

\* What the constants must be.
MariaDBPrepareConstants == "quote" \notin Name /\ "text" \notin Name /\ MaxTokens \in Nat

VARIABLES
    sql,                        \* the text
    i,                          \* place in it
    inStringLiteral,
    segments,                   \* the text between placeholders
    placeholderToLogicalIndex,
    names,                      \* logicalIndexByName: a name's place in this list
    bindings,                   \* by logical index
    query                       \* what RenderQuery made, none before

vars == <<sql, i, inStringLiteral, segments, placeholderToLogicalIndex, names, bindings, query>>

Token == {"quote", "text"} \cup Name

TypeOK ==
    /\ sql \in Seq(Token) /\ i \in 1..(Len(sql) + 1)
    /\ inStringLiteral \in BOOLEAN
    /\ segments \in Seq(Seq(Token))
    /\ placeholderToLogicalIndex \in Seq(1..Len(names))
    /\ names \in Seq(Name)
    /\ bindings \in [1..Len(names) -> Value \cup {"NULL"}]
    /\ query \in Seq(Token \cup Value \cup {"NULL"})

Init ==
    /\ sql \in UNION {[1..n -> Token] : n \in 1..MaxTokens}
    /\ i = 1 /\ inStringLiteral = FALSE
    /\ segments = <<<<>>>>
    /\ placeholderToLogicalIndex = <<>> /\ names = <<>>
    /\ bindings = <<>> /\ query = <<>>

-----------------------------------------------------------------------------
Scanning == i <= Len(sql)

\* The token goes to the last segment.
Copy ==
    /\ segments' = [segments EXCEPT ![Len(segments)] = Append(@, sql[i])]
    /\ i' = i + 1
    /\ UNCHANGED <<sql, placeholderToLogicalIndex, names, bindings, query>>

Quote ==
    /\ Scanning /\ sql[i] = "quote"
    /\ inStringLiteral' = ~inStringLiteral
    /\ Copy

\* Mutant: a name is looked for among the placeholders, so each occurrence
\* gets an index of its own.
IndexPerOccurrence(n) == Len(names) + 1

\* Mutant: a new name gets the number of names before it.
ZeroBased(n) ==
    IF Contains(names, n) THEN CHOOSE k \in DOMAIN names : names[k] = n
    ELSE Len(names)

\* The index of a name, or the next one if it is new.
LogicalIndex(n) ==
    IF Contains(names, n) THEN CHOOSE k \in DOMAIN names : names[k] = n
    ELSE Len(names) + 1

Placeholder ==
    /\ Scanning /\ sql[i] \in Name /\ ~inStringLiteral
    /\ LET k == LogicalIndex(sql[i])
       IN  /\ placeholderToLogicalIndex' = Append(placeholderToLogicalIndex, k)
           /\ names' = IF k > Len(names) THEN Append(names, sql[i]) ELSE names
           /\ bindings' = [j \in 1..Len(names') |-> "NULL"]
    /\ segments' = Append(segments, <<>>)
    /\ i' = i + 1
    /\ UNCHANGED <<sql, inStringLiteral, query>>

Literal ==
    /\ Scanning
    /\ sql[i] = "text" \/ (sql[i] \in Name /\ inStringLiteral)
    /\ Copy /\ UNCHANGED inStringLiteral

\* mariadb_bind_parameter_index and mariadb_bind_int, _text or _blob.  A name
\* the text does not have gives index 0, which changes nothing.
Bind(n, v) ==
    /\ ~Scanning /\ query = <<>>
    /\ Contains(names, n)
    /\ bindings' = [bindings EXCEPT ![LogicalIndex(n)] = v]
    /\ UNCHANGED <<sql, i, inStringLiteral, segments, placeholderToLogicalIndex, names, query>>

\* Mutant: placeholder k takes the k-th binding.
RenderedByPlace ==
    FlattenSeq([k \in DOMAIN placeholderToLogicalIndex |->
        Append(segments[k], bindings[IF k \in DOMAIN bindings THEN k ELSE 1])])
    \o Last(segments)

\* Segments and bound values in turn; what is not bound is NULL.
Rendered ==
    FlattenSeq([k \in DOMAIN placeholderToLogicalIndex |->
        Append(segments[k], bindings[placeholderToLogicalIndex[k]])])
    \o Last(segments)

RenderQuery ==
    /\ ~Scanning /\ query = <<>>
    /\ query' = Rendered
    /\ UNCHANGED <<sql, i, inStringLiteral, segments, placeholderToLogicalIndex, names, bindings>>

Next ==
    \/ Quote \/ Placeholder \/ Literal
    \/ \E n \in Name, v \in Value : Bind(n, v)
    \/ RenderQuery

Spec == Init /\ [][Next]_vars

-----------------------------------------------------------------------------
(***************************************************************************)
(* Properties                                                              *)
(***************************************************************************)
\* The position k of the text is outside of string literals.
Outside(k) == Cardinality({j \in 1..(k - 1) : sql[j] = "quote"}) % 2 = 0

Bound(n) == bindings[CHOOSE k \in DOMAIN names : names[k] = n]

\* The query sent is the text with each parameter outside of string literals
\* replaced by the value bound under its name, wherever and how often the name
\* occurs, and nothing else changed.
RenderedByName ==
    query # <<>> =>
        query = [k \in DOMAIN sql |->
                    IF sql[k] \in Name /\ Outside(k) THEN Bound(sql[k]) ELSE sql[k]]

\* Every logical index belongs to one name, and binding a value by that index
\* reaches every place of the name and no other.
IndexIsName ==
    /\ \A j, k \in DOMAIN names : names[j] = names[k] => j = k
    /\ Len(segments) = Len(placeholderToLogicalIndex) + 1
    /\ Range(placeholderToLogicalIndex) = DOMAIN names
=============================================================================
