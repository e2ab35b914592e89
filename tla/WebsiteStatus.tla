---------------------------- MODULE WebsiteStatus ----------------------------
(***************************************************************************)
(* What the gateway writes for the website about one avatar, statement by  *)
(* statement (src/src/stationchat/WebsiteIntegrationService.cpp): the row  *)
(* that links it to a user, the row with its status, copies of its mail.   *)
(* Whose presence is written when is the matter of ChatAvatarService, and  *)
(* the mail that of PersistentMail; here it is about the columns.          *)
(*                                                                         *)
(* The site owns the tables.  Some columns may be missing, and times may   *)
(* be numbers or dates.  The gateway looks at the columns when it starts   *)
(* and keeps what it saw for as long as it runs.                           *)
(*                                                                         *)
(* MariaDB is external: a column of numbers is UNSIGNED, NOT NULL, DEFAULT *)
(* 0, one of dates may be NULL; the server is in strict mode and refuses   *)
(* a value that does not fit.  What it makes of NULL in a TIMESTAMP column *)
(* that has no NULL is not considered.                                     *)
(***************************************************************************)
EXTENDS Integers

CONSTANTS
    Schemas,      \* the columns there may be: of [Table -> [Column -> Type]]
    MaxClock,     \* bound: the time, a uint32_t
    IntMax,       \* the largest time that static_cast<int> keeps
    Stopped,      \* in place of the columns, while the gateway does not run
    NoRow,        \* in place of a row
    Null

Table == {"link", "status", "mail"}
Column == {"created_at", "updated_at", "last_login", "last_logout"}
Type == {"absent", "int", "datetime"}

\* What the constants must be; NoRow, Null and Stopped are nothing else.
WebsiteConstants ==
    /\ Schemas \subseteq [Table -> [Column -> Type]] /\ Stopped \notin Schemas
    /\ IntMax \in Nat /\ MaxClock \in 1..(2 * IntMax + 1)
    /\ NoRow \notin [Column -> Int \cup {Null}]
    /\ Null \notin Int /\ Null \notin [as : {"datetime", "int"}, value : Int]

VARIABLES
    columns,      \* the columns as they are
    info,         \* the ColumnInfo of each, or Stopped
    userId,       \* 0 if the avatar has no user
    rows,         \* the row of the avatar in "link" and in "status", or NoRow
    at,           \* the statement that comes next, or "idle"
    online,       \* what that statement will write in is_online
    clock,
    answer,       \* how the last request went
    lastIn,       \* when a gateway that knows of last_login last wrote a login, since
                  \* the column exists, or 0 (history)
    lastOut       \* the same for last_logout and a logout (history)

vars == <<columns, info, userId, rows, at, online, clock, answer, lastIn, lastOut>>

\* The columns that a statement names whether they are there or not.
Required == [t \in Table |-> IF t = "status" THEN {"last_login", "last_logout"} ELSE {}]

Init ==
    /\ columns \in Schemas /\ info = Stopped
    /\ userId \in {0, 1}
    /\ rows = [t \in {"link", "status"} |-> NoRow]
    /\ at = "idle" /\ online = FALSE /\ clock = 1
    /\ answer = "none" /\ lastIn = 0 /\ lastOut = 0

-----------------------------------------------------------------------------
(***************************************************************************)
(* The values and the statements                                           *)
(***************************************************************************)
\* static_cast<int> of a uint32_t.
AsInt(t) == IF t <= IntMax THEN t ELSE t - 2 * (IntMax + 1)

\* Mutant: no NULL for a time that is not known.
BindEpoch(type, t) ==
    CASE type = "absent" -> Null
      [] type = "datetime" -> [as |-> "datetime", value |-> t]
      [] type = "int" -> [as |-> "int", value |-> AsInt(t)]

\* BindTimestampParameter, by the type that InspectColumn found.  A parameter that
\* nothing is bound to becomes NULL.
BindTimestampParameter(type, t) ==
    CASE type = "absent" -> Null
      [] type = "datetime" -> IF t = 0 THEN Null ELSE [as |-> "datetime", value |-> t]
      [] type = "int" -> [as |-> "int", value |-> AsInt(t)]

\* Does a column take the value?  (MariaDB.)
Takes(type, v) ==
    CASE type = "absent" -> FALSE
      [] type = "datetime" -> v # Null => v.as = "datetime"
      [] type = "int" -> v # Null /\ v.as = "int" /\ v.value >= 0

\* Mutant: the columns that may be missing are named all the same.
NamedAlways(t) == Required[t] \cup {"created_at", "updated_at"}

\* The columns in the text of the statement: those required, and those that were
\* there at the start (BuildUserLinkSql, BuildStatusSql, BuildMailSql).
Named(t) == Required[t] \cup {c \in {"created_at", "updated_at"} : info[t][c] # "absent"}

\* The time that goes into a column when the avatar comes or goes.
TimeFor(c) ==
    CASE c = "last_login" -> IF online THEN clock ELSE 0
      [] c = "last_logout" -> IF online THEN 0 ELSE clock
      [] OTHER -> clock

Bound(t, c) == BindTimestampParameter(info[t][c], TimeFor(c))

Stored(v) == IF v = Null THEN Null ELSE v.value

\* What a column holds that a statement does not name.  (MariaDB.)
Default(type) == IF type = "int" THEN 0 ELSE Null

\* Mutant: created_at is overwritten like updated_at.
MergedCreated(old, c, v) ==
    IF c \in {"last_login", "last_logout"} /\ v \in {Null, 0} THEN old ELSE v

\* Mutant: a time that is not known overwrites one that was.
MergedPlain(old, c, v) == IF c = "created_at" /\ old # Null THEN old ELSE v

\* ON DUPLICATE KEY UPDATE, for column c of a row that holds old.
Merged(old, c, v) ==
    CASE c = "created_at" -> IF old = Null THEN v ELSE old
      [] c = "updated_at" -> v
      [] OTHER -> IF v \in {Null, 0} THEN old ELSE v

\* The row after the statement.
Upserted(t) ==
    [c \in Column |->
        IF c \notin Named(t)
        THEN IF rows[t] = NoRow THEN Default(columns[t][c]) ELSE rows[t][c]
        ELSE IF rows[t] = NoRow THEN Stored(Bound(t, c))
        ELSE Merged(rows[t][c], c, Stored(Bound(t, c)))]

\* Can the server carry the statement out?
Accepted(t) == \A c \in Named(t) : Takes(columns[t][c], Bound(t, c))

\* Did the gateway see the column of the status when it started?
Knows(c) == info["status"][c] # "absent"

-----------------------------------------------------------------------------
(***************************************************************************)
(* The service                                                             *)
(***************************************************************************)
Unwritten == UNCHANGED <<rows, lastIn, lastOut>>

\* The constructor looks at every column.
Start ==
    /\ info = Stopped
    /\ info' = columns
    /\ answer' = "none"
    /\ UNCHANGED <<columns, userId, at, online, clock>> /\ Unwritten

\* Mutant: the status is written first, and the link by the next message.
RecordAvatarLoginStatusOnly ==
    /\ info # Stopped /\ at = "idle"
    /\ at' = "status" /\ online' = TRUE /\ answer' = "none"
    /\ UNCHANGED <<columns, info, userId, clock>> /\ Unwritten

\* RecordAvatarLogin: first the link, if there is a user.
RecordAvatarLogin ==
    /\ info # Stopped /\ at = "idle"
    /\ at' = (IF userId # 0 THEN "link of status" ELSE "status")
    /\ online' = TRUE /\ answer' = "none"
    /\ UNCHANGED <<columns, info, userId, clock>> /\ Unwritten

\* RecordAvatarLogout: the status alone, of an avatar whose login may never have been
\* written.
RecordAvatarLogout ==
    /\ info # Stopped /\ at = "idle"
    /\ at' = "status" /\ online' = FALSE /\ answer' = "none"
    /\ UNCHANGED <<columns, info, userId, clock>> /\ Unwritten

\* RecordPersistentMessage: the link, then the copy.
RecordPersistentMessage ==
    /\ info # Stopped /\ at = "idle"
    /\ at' = (IF userId # 0 THEN "link of mail" ELSE "mail")
    /\ answer' = "none"
    /\ UNCHANGED <<columns, info, userId, online, clock>> /\ Unwritten

\* EnsureUserLink, before statement next.
EnsureUserLink(next) ==
    /\ <<at, next>> \in {<<"link of status", "status">>, <<"link of mail", "mail">>}
    /\ Accepted("link")
    /\ rows' = [rows EXCEPT !["link"] = Upserted("link")]
    /\ at' = next
    /\ UNCHANGED <<columns, info, userId, online, clock, answer, lastIn, lastOut>>

\* UpdateOnlineStatus.
UpdateOnlineStatus ==
    /\ at = "status" /\ Accepted("status")
    /\ rows' = [rows EXCEPT !["status"] = Upserted("status")]
    /\ lastIn' = IF online /\ Knows("last_login") THEN clock ELSE lastIn
    /\ lastOut' = IF ~online /\ Knows("last_logout") THEN clock ELSE lastOut
    /\ at' = "idle" /\ answer' = "done"
    /\ UNCHANGED <<columns, info, userId, online, clock>>

\* The copy of a message has a row of its own.
CopyMail ==
    /\ at = "mail" /\ Accepted("mail")
    /\ at' = "idle" /\ answer' = "done"
    /\ UNCHANGED <<columns, info, userId, online, clock>> /\ Unwritten

\* The server does not take the statement; MariaDBException.
Refused ==
    /\ \/ at \in {"link of status", "link of mail"} /\ ~Accepted("link")
       \/ at \in {"status", "mail"} /\ ~Accepted(at)
    /\ at' = "idle" /\ answer' = "refused"
    /\ UNCHANGED <<columns, info, userId, online, clock>> /\ Unwritten

\* The connection fails before the statement.  (Afterwards is the same to the tables
\* as a crash between two statements.)
Fails ==
    /\ at # "idle"
    /\ at' = "idle" /\ answer' = "failed"
    /\ UNCHANGED <<columns, info, userId, online, clock>> /\ Unwritten

\* The gateway dies.
Crash ==
    /\ info # Stopped
    /\ info' = Stopped /\ at' = "idle" /\ answer' = "none"
    /\ UNCHANGED <<columns, userId, online, clock>> /\ Unwritten

\* The site gets other columns, while the gateway runs or not.  A column that stays
\* keeps its type and what it holds.
Migrate ==
    /\ columns' \in Schemas \ {columns}
    /\ \A t \in Table, c \in Column :
          columns[t][c] # columns'[t][c] => "absent" \in {columns[t][c], columns'[t][c]}
    /\ rows' = [t \in {"link", "status"} |->
          IF rows[t] = NoRow THEN NoRow
          ELSE [c \in Column |-> IF columns'[t][c] = columns[t][c] THEN rows[t][c]
                                 ELSE Default(columns'[t][c])]]
    /\ answer' = "none"
    /\ LET same(c) == columns'["status"][c] = columns["status"][c]
       IN  /\ lastIn' = IF same("last_login") THEN lastIn ELSE 0
           /\ lastOut' = IF same("last_logout") THEN lastOut ELSE 0
    /\ UNCHANGED <<info, userId, at, online, clock>>

TimePasses ==
    /\ clock < MaxClock /\ at = "idle"
    /\ clock' = clock + 1 /\ answer' = "none"
    /\ UNCHANGED <<columns, info, userId, at, online>> /\ Unwritten

Next ==
    \/ Start \/ Crash \/ Migrate \/ TimePasses
    \/ RecordAvatarLogin \/ RecordAvatarLogout \/ RecordPersistentMessage
    \/ \E next \in {"status", "mail"} : EnsureUserLink(next)
    \/ UpdateOnlineStatus \/ CopyMail \/ Refused \/ Fails

Spec == Init /\ [][Next]_vars

-----------------------------------------------------------------------------
(***************************************************************************)
(* Properties                                                              *)
(***************************************************************************)
Holds(type, v) ==
    CASE type = "absent" -> v = Null
      [] type = "int" -> v \in 0..IntMax
      [] type = "datetime" -> v = Null \/ v \in 1..MaxClock

\* The state has its type; a column of dates never holds the beginning of time.
TypeOK ==
    /\ columns \in Schemas /\ info \in Schemas \cup {Stopped}
    /\ userId \in {0, 1}
    /\ \A t \in {"link", "status"} :
          rows[t] # NoRow => \A c \in Column : Holds(columns[t][c], rows[t][c])
    /\ at \in {"idle", "link of status", "link of mail", "status", "mail"}
    /\ online \in BOOLEAN /\ clock \in 1..MaxClock
    /\ answer \in {"none", "done", "refused", "failed"}
    /\ lastIn \in 0..MaxClock /\ lastOut \in 0..MaxClock

\* The website shows when the avatar last came and when it last went: writing one never
\* clears or moves the other, for numbers as for dates, through restarts and changes
\* of columns.  A gateway that runs since before a column was added is the
\* exception, as it writes NULL there (UpdateOnlineStatus).
TimesKept ==
    rows["status"] # NoRow =>
        \A c \in Required["status"] :
            rows["status"][c] \in
                (LET last == IF c = "last_login" THEN lastIn ELSE lastOut
                 IN  IF last = 0 THEN {0, Null} ELSE {last})

\* An avatar of a user that the website shows to have logged in is linked to the user,
\* wherever the two statements were interrupted (RecordAvatarLogin).
LinkedWhenShown == userId # 0 /\ lastIn # 0 => rows["link"] # NoRow

\* A statement is refused for one of three reasons: a column it cannot do without is
\* missing, a column came or went while the gateway ran, or time has outgrown int
\* in a table with numbers.  Any mix of other columns and types is dealt with.
RefusalsExplained ==
    answer = "refused" =>
        \/ \E t \in Table : \E c \in Required[t] : info[t][c] = "absent"
        \/ info # columns
        \/ clock > IntMax /\ \E t \in Table, c \in Column : info[t][c] = "int"

\* The time at which a row was created, once it is known, stays (created_at =
\* COALESCE(created_at, ...)), unless the column goes.
CreatedOnce ==
    [][\A t \in {"link", "status"} :
          rows[t] # NoRow /\ columns'[t]["created_at"] = columns[t]["created_at"] =>
              rows[t]["created_at"] \in {Null, rows'[t]["created_at"]}]_vars

\* All of it: whatever columns the site has, had or gets, what the gateway writes for it
\* fits, stays and is complete.
WebsiteSound ==
    [](TypeOK /\ TimesKept /\ LinkedWhenShown /\ RefusalsExplained) /\ CreatedOnce
=============================================================================
