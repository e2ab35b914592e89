--------------------------- MODULE AvatarAttributes ---------------------------
(***************************************************************************)
(* The attributes of one avatar (invisible, game master, ...), a uint32_t  *)
(* in the memory of each gateway and a column of its row: given when it is *)
(* created (LoginAvatar), changed by SetAvatarAttributes, for good or not. *)
(*                                                                         *)
(* They pass through int on their way to the database (mariadb_bind_int)   *)
(* and back (std::stoi), while the column is INT UNSIGNED.  MariaDB is     *)
(* external: a negative number is refused in strict mode and stored as 0   *)
(* otherwise.                                                              *)
(***************************************************************************)
EXTENDS Integers

CONSTANTS
    Gateway,
    IntMax,       \* the largest int; an attribute word has one bit more
    NoRow,        \* in place of the column; neither is an attribute word
    NotCached     \* in place of an object

Attributes == 0..(2 * IntMax + 1)

\* What the constants must be.
AttributesConstants == IntMax \in Nat /\ NoRow \notin Attributes /\ NotCached \notin Attributes

VARIABLES
    strict,       \* does the server refuse what does not fit?
    row,          \* the column, or NoRow
    memory,       \* attributes_ of the avatar in each gateway, or NotCached
    apart         \* gateways whose last change was temporary or failed, or after which
                  \* another gateway has written (history)

vars == <<strict, row, memory, apart>>

Init ==
    /\ strict \in BOOLEAN
    /\ row = NoRow
    /\ memory = [g \in Gateway |-> NotCached]
    /\ apart = {}

\* Mutant: the value is bound as it is.
Unsigned(v) == v

\* The conversion to int.
AsInt(v) == IF v <= IntMax THEN v ELSE v - 2 * (IntMax + 1)

\* Does the server take v?  What does it store?
Taken(v) == AsInt(v) >= 0 \/ ~strict
Stored(v) == IF AsInt(v) >= 0 THEN AsInt(v) ELSE 0

\* LoginAvatar of a new avatar: CreateAvatar inserts it and then caches it.
CreateAvatar(g, v) ==
    /\ row = NoRow /\ memory[g] = NotCached /\ Taken(v)
    /\ row' = Stored(v)
    /\ memory' = [memory EXCEPT ![g] = v]
    /\ UNCHANGED <<strict, apart>>

\* The answer to the insertion is lost: there is a row and no object.
CreateAvatarLost(g, v) ==
    /\ row = NoRow /\ memory[g] = NotCached /\ Taken(v)
    /\ row' = Stored(v)
    /\ UNCHANGED <<strict, memory, apart>>

\* Mutant: the object is filled without a look at what the SELECT answered.
LoadUnseen(g) ==
    /\ memory[g] = NotCached
    /\ memory' = [memory EXCEPT ![g] = row]
    /\ apart' = apart \ {g}
    /\ UNCHANGED <<strict, row>>

\* Any look-up of an avatar that is not cached; a login ignores the attributes it brings.
LoadStoredAvatar(g) ==
    /\ row # NoRow /\ memory[g] = NotCached
    /\ memory' = [memory EXCEPT ![g] = row]
    /\ apart' = apart \ {g}
    /\ UNCHANGED <<strict, row>>

\* Mutant: stored first, and so as they were.
SetAvatarAttributesLate(g, v, persistent) ==
    /\ memory[g] \notin {NotCached, v}
    /\ memory' = [memory EXCEPT ![g] = v]
    /\ IF persistent
       THEN row' = Stored(memory[g]) /\ apart' = (apart \cup Gateway) \ {g}
       ELSE UNCHANGED row /\ apart' = apart \cup {g}
    /\ UNCHANGED strict

\* SetAvatarAttributes, to something else than memory has: memory changes, and the
\* row, if asked for.  (A request for what memory has is answered SUCCESS and
\* does nothing, even if it asks for the row.)
SetAvatarAttributes(g, v, persistent) ==
    /\ memory[g] \notin {NotCached, v}
    /\ persistent => Taken(v)
    /\ memory' = [memory EXCEPT ![g] = v]
    /\ IF persistent
       THEN row' = Stored(v) /\ apart' = (apart \cup Gateway) \ {g}
       ELSE UNCHANGED row /\ apart' = apart \cup {g}
    /\ UNCHANGED strict

\* The same with a statement that is refused or fails, or whose answer is lost; memory
\* keeps the change.
SetAvatarAttributesFails(g, v) ==
    /\ memory[g] \notin {NotCached, v}
    /\ memory' = [memory EXCEPT ![g] = v]
    /\ \/ UNCHANGED row /\ apart' = apart \cup {g}
       \/ Taken(v) /\ row' = Stored(v) /\ apart' = apart \cup Gateway
    /\ UNCHANGED strict

Restart(g) ==
    /\ memory' = [memory EXCEPT ![g] = NotCached]
    /\ apart' = apart \ {g}
    /\ UNCHANGED <<strict, row>>

Next ==
    \E g \in Gateway :
        \/ LoadStoredAvatar(g)
        \/ Restart(g)
        \/ \E v \in Attributes :
              \/ CreateAvatar(g, v)
              \/ CreateAvatarLost(g, v)
              \/ \E persistent \in BOOLEAN : SetAvatarAttributes(g, v, persistent)
              \/ SetAvatarAttributesFails(g, v)

Spec == Init /\ [][Next]_vars

-----------------------------------------------------------------------------
\* The state has its type.
TypeOK ==
    /\ strict \in BOOLEAN
    /\ row \in Attributes \cup {NoRow}
    /\ memory \in [Gateway -> Attributes \cup {NotCached}]
    /\ apart \subseteq Gateway

\* What is in the row can be read: std::stoi throws for a larger number, and what it
\* throws nobody catches, so that every request about the avatar would end the
\* process (LoadStoredAvatar).
RowsReadable == row # NoRow => row <= IntMax

\* A gateway has the attributes that the row has, unless it changed them for the time
\* being, or the change failed, or another gateway has written since; or the
\* server has made 0 of what does not fit in an int (SetAvatarAttributes).
MemoryIsStored ==
    \A g \in Gateway :
        memory[g] # NotCached /\ g \notin apart =>
            \/ memory[g] = row
            \/ ~strict /\ memory[g] > IntMax /\ row = 0

\* All of it: whoever reads the attributes of an avatar, in whatever gateway, can read
\* them and gets what was stored last.
AttributesSound == TypeOK /\ RowsReadable /\ MemoryIsStored
=============================================================================
