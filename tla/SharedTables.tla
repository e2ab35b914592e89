---------------------------- MODULE SharedTables ----------------------------
(***************************************************************************)
(* What gateways of a cluster, and the website, share in the database:     *)
(* tables `avatar` and `friend` (Cluster), the attributes of an avatar     *)
(* (AvatarAttributes) and the rows written for the website                 *)
(* (WebsiteStatus).  The three do not read each other's columns, and each  *)
(* keeps its own specification; this module puts them side by side, with   *)
(* one name for each constant and variable, and states what is promised.   *)
(***************************************************************************)
EXTENDS Cluster

CONSTANTS
    NoAttributes, NoObject,                 \* of AvatarAttributes
    Schemas, MaxClock, Stopped, NoWebRow, Null,   \* of WebsiteStatus
    IntMax                                  \* of both: the largest int

VARIABLES
    strict, row, memory, apart,
    columns, info, userId, rows, at, online, clock, answer, lastIn, lastOut

Attribute == INSTANCE AvatarAttributes WITH NoRow <- NoAttributes, NotCached <- NoObject

Website == INSTANCE WebsiteStatus WITH NoRow <- NoWebRow

ASSUME SharedTablesAssumption == Attribute!AttributesConstants /\ Website!WebsiteConstants

-----------------------------------------------------------------------------
\* AvatarAttributes' TypeOK, RowsReadable and MemoryIsStored: what is in the row can
\* be read, and a gateway has the attributes that the row has, unless it changed
\* them itself and did not store them, or another has written.
AttributesSound == Attribute!AttributesSound

\* WebsiteStatus' TypeOK, TimesKept, LinkedWhenShown, RefusalsExplained and CreatedOnce:
\* writing one of last login and last logout never clears or moves the other, a
\* login shown implies a link, a statement is refused for one of three reasons,
\* and the time at which a row was created stays.
WebsiteSound == Website!WebsiteSound
=============================================================================
