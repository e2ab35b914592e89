--------------------------- MODULE MCSharedTables ---------------------------
(***************************************************************************)
(* What gateways share: three instances in one run, of which each          *)
(* behaviour shows one, its part, while the others stay as they begin:     *)
(*   cluster     three gateways, two players, and tables `avatar` and      *)
(*               `friend`;                                                 *)
(*   attributes  the same gateways and the attribute column, with words of *)
(*               three bits, of which int keeps two;                       *)
(*   website     the website's tables: those of extras/init_database.sql,  *)
(*               the same with the columns added that the gateway looks    *)
(*               for, tables with dates, a mix of both, and one that lacks *)
(*               a column the gateway needs.                               *)
(***************************************************************************)
EXTENDS SharedTables, TLC

VARIABLE part

attributesVars == <<strict, row, memory, apart>>
websiteVars == <<columns, info, userId, rows, at, online, clock, answer, lastIn, lastOut>>

GatewaysAndAvatars == Permutations(Gateway) \cup Permutations(Avatar)

Columns(created, updated, login, logout) ==
    [c \in {"created_at", "updated_at", "last_login", "last_logout"} |->
        CASE c = "created_at" -> created [] c = "updated_at" -> updated
          [] c = "last_login" -> login [] c = "last_logout" -> logout]

Tables(link, status, mail) ==
    [t \in {"link", "status", "mail"} |-> CASE t = "link" -> link [] t = "status" -> status [] t = "mail" -> mail]

Shipped ==
    Tables(Columns("absent", "absent", "absent", "absent"),
           Columns("absent", "int", "int", "int"),
           Columns("int", "absent", "absent", "absent"))

AllNumbers ==
    Tables(Columns("int", "int", "absent", "absent"),
           Columns("int", "int", "int", "int"),
           Columns("int", "int", "absent", "absent"))

AllDates ==
    Tables(Columns("datetime", "datetime", "absent", "absent"),
           Columns("datetime", "datetime", "datetime", "datetime"),
           Columns("datetime", "datetime", "absent", "absent"))

FewDates ==
    Tables(Columns("absent", "absent", "absent", "absent"),
           Columns("absent", "absent", "datetime", "datetime"),
           Columns("absent", "absent", "absent", "absent"))

\* Dates where the row was created, numbers elsewhere.
Mixed ==
    Tables(Columns("datetime", "absent", "absent", "absent"),
           Columns("datetime", "int", "int", "datetime"),
           Columns("datetime", "int", "absent", "absent"))

NoLogout ==
    Tables(Columns("absent", "absent", "absent", "absent"),
           Columns("absent", "absent", "datetime", "absent"),
           Columns("absent", "absent", "absent", "absent"))

SomeSchemas == {Shipped, AllNumbers, AllDates, FewDates, Mixed, NoLogout}

-----------------------------------------------------------------------------
PartsInit ==
    /\ part \in {"cluster", "attributes", "website"}
    /\ Init /\ Attribute!Init /\ Website!Init
    /\ part = "attributes" \/ strict
    /\ part = "website" \/ (columns = Shipped /\ userId = 0)

PartsNext ==
    /\ \/ part = "cluster" /\ Next /\ UNCHANGED <<attributesVars, websiteVars>>
       \/ part = "attributes" /\ Attribute!Next /\ UNCHANGED <<vars, websiteVars>>
       \/ part = "website" /\ Website!Next /\ UNCHANGED <<vars, attributesVars>>
    /\ UNCHANGED part

PartsSpec == PartsInit /\ [][PartsNext]_<<part, vars, attributesVars, websiteVars>>
=============================================================================
