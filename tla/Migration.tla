----------------------------- MODULE Migration -----------------------------
(***************************************************************************)
(* The database at every start of the server (database.py): the tables     *)
(* that are missing are created, then every migration is tried, each in a  *)
(* try of its own that swallows what it raises.                            *)
(*                                                                         *)
(* SQLite has no ALTER for constraints, so five tables are rebuilt: the    *)
(* table is renamed to ..._old, created anew, filled from ..._old, and     *)
(* ..._old is dropped.  A schema statement is there for good at once,      *)
(* unless a transaction is open; a statement that changes rows opens one   *)
(* if none is; PRAGMA foreign_keys does nothing while one is.  A crash     *)
(* takes back the open transaction, an exception does not.                 *)
(***************************************************************************)
EXTENDS Naturals, Sequences

CONSTANTS
    Row,       \* rows of a table
    MaxFaults  \* bound: statements that fail of themselves, and crashes

Table == {"uploads", "generated_files", "skills", "skill_usage", "skill_versions"}
Shape == 0 .. 2             \* the versions of a table's definition

-----------------------------------------------------------------------------
(* The statements of a start, in the sections an exception leaves. *)

Do(kind)         == [do |-> kind, table |-> "uploads", shape |-> 0]
OnTable(kind, t) == [do |-> kind, table |-> t, shape |-> 0]
Unless(t, s)     == [do |-> "unless", table |-> t, shape |-> s]

RebuildMutant(t, s) == <<OnTable("drop", t), OnTable("rename", t),
                         [do |-> "new", table |-> t, shape |-> s],
                         OnTable("copy", t), OnTable("drop", t)>>
Rebuild(t, s) == <<OnTable("rename", t), [do |-> "new", table |-> t, shape |-> s],
                   OnTable("copy", t), OnTable("drop", t)>>

\* PRAGMA foreign_keys=ON comes after COMMIT in these two
InTransactionMutant(s) ==
    <<Unless("uploads", s), Do("fkOff")>> \o Rebuild("uploads", s)
    \o Rebuild("generated_files", s) \o <<Do("commit"), Do("fkOn")>>
InTransaction(s) ==
    <<Unless("uploads", s), Do("fkOff"), Do("begin")>> \o Rebuild("uploads", s)
    \o Rebuild("generated_files", s) \o <<Do("commit"), Do("fkOn")>>

create_tables                   == <<Do("commit"), Do("create"), Do("commit")>>
migrate_drop_session_fks        == InTransaction(1)
migrate_drop_stored_name        == InTransaction(2)
migrate_collective_intelligence == <<Do("schema"), Do("commit")>>
migrate_v3                      == <<Do("schema"), Do("commit")>>
migrate_v4                      == <<Do("query"), Do("rows"), Do("commit")>>
migrate_v5                      == <<Do("commit"), Do("schema"), Do("commit")>>
migrate_v6                      == <<Do("commit"), Do("schema"), Do("commit")>>
migrate_v7                      == <<Do("schema"), Do("commit")>>
migrate_v8_mutant               ==
    <<Do("fkOff")>> \o Rebuild("skill_usage", 0) \o Rebuild("skill_versions", 0)
    \o <<Do("commit"), Do("fkOn")>>
migrate_v8                      ==
    <<Do("fkOff")>> \o Rebuild("skill_usage", 0) \o Rebuild("skill_versions", 0)
    \o <<Do("fkOn"), Do("commit")>>
migrate_v9_to_v11               == <<Do("schema")>>
migrate_v2_schema               == <<Do("schema"), Do("commit"), Do("create"), Do("commit")>>
migrate_v2_skills               == <<Unless("skills", 1)>> \o Rebuild("skills", 1)

Startup == <<create_tables, migrate_drop_session_fks, migrate_drop_stored_name,
             migrate_collective_intelligence, migrate_v3, migrate_v4, migrate_v5,
             migrate_v6, migrate_v7, migrate_v8, migrate_v9_to_v11,
             migrate_v2_schema, migrate_v2_skills>>

\* Tables whose rebuild is not a transaction of its own
Bare == {"skills", "skill_usage", "skill_versions"}

-----------------------------------------------------------------------------
VARIABLES
    at,        \* the section and statement the start is at; past the last it serves
    live,      \* tables as the connection sees them, each now and its _old: shape
               \* and rows, or Absent
    disk,      \* tables as a crash would leave them
    inTx,      \* a transaction is open
    enforced,  \* foreign keys are enforced on the connection
    written,   \* rows stored in each table since it exists
    torn,      \* tables a failure may have left half rebuilt, or a crash, if
               \* their rebuild is bare
    faults     \* failures and crashes so far

migrationVars == <<at, live, disk, inTx, enforced, written, torn, faults>>

Absent  == [shape |-> 0, rows |-> {}, there |-> FALSE]
Holds(s, rows) == [shape |-> s, rows |-> rows, there |-> TRUE]
Down    == <<0, 0>>
Serving == at[1] > Len(Startup)
Latest  == [t \in Table |-> CASE t \in {"uploads", "generated_files"} -> 2
                              [] t = "skills"                         -> 1
                              [] OTHER                                -> 0]

Content == [shape : Shape, rows : SUBSET Row, there : BOOLEAN]

MigrationTypeOK ==
    /\ at \in (0 .. Len(Startup) + 1) \X (0 .. 20)
    /\ live \in [Table -> [now : Content, old : Content]]
    /\ disk \in [Table -> [now : Content, old : Content]]
    /\ inTx \in BOOLEAN /\ enforced \in BOOLEAN
    /\ written \in [Table -> SUBSET Row]
    /\ torn \subseteq Table
    /\ faults \in 0 .. MaxFaults
    /\ inTx \/ live = disk

\* A database of an earlier version of the program, or none
Init ==
    /\ \E files \in Shape, skills \in 0 .. 1, rows \in SUBSET Row :
           live = [t \in Table |->
                      [now |-> Holds(CASE t \in {"uploads", "generated_files"} -> files
                                       [] t = "skills"                         -> skills
                                       [] OTHER                                -> 0, rows),
                       old |-> Absent]]
    /\ disk = live
    /\ inTx = FALSE /\ enforced = FALSE
    /\ at = Down
    /\ written = [t \in Table |-> live[t].now.rows]
    /\ torn = {}
    /\ faults = 0

-----------------------------------------------------------------------------
Starting == at # Down /\ ~Serving
Current  == Startup[at[1]][at[2]]

NextSection == at' = <<at[1] + 1, 1>>
NextStatement ==
    at' = IF at[2] = Len(Startup[at[1]]) THEN <<at[1] + 1, 1>> ELSE <<at[1], at[2] + 1>>

Start ==
    /\ at = Down
    /\ at' = <<1, 1>>
    /\ enforced' = TRUE
    /\ UNCHANGED <<live, disk, inTx, written, torn, faults>>

\* A schema statement makes the tables these
Schema(tables) ==
    /\ live' = tables
    /\ disk' = IF inTx THEN disk ELSE tables
    /\ UNCHANGED inTx

CreateIfMissing ==
    [t \in Table |-> IF live[t].now.there THEN live[t]
                     ELSE [live[t] EXCEPT !.now = Holds(Latest[t], {})]]

\* A statement that SQLite must refuse, in the tables as they are
Refused(s) ==
    \/ s.do = "rename" /\ (live[s.table].old.there \/ ~live[s.table].now.there)
    \/ s.do = "new"    /\ live[s.table].now.there
    \/ s.do = "begin"  /\ inTx

Succeeds(s) ==
    /\ ~Refused(s)
    /\ CASE s.do = "create" -> Schema(CreateIfMissing)
         [] s.do = "rename" -> Schema([live EXCEPT ![s.table] = [now |-> Absent, old |-> @.now]])
         [] s.do = "new"    -> Schema([live EXCEPT ![s.table].now = Holds(s.shape, {})])
         [] s.do = "drop"   -> Schema([live EXCEPT ![s.table].old = Absent])
         [] s.do = "copy"   -> /\ live' = [live EXCEPT ![s.table].now.rows =
                                              @ \cup live[s.table].old.rows]
                               /\ inTx' = TRUE
                               /\ UNCHANGED disk
         [] s.do \in {"begin", "rows"} -> inTx' = TRUE /\ UNCHANGED <<live, disk>>
         [] s.do = "commit" -> inTx' = FALSE /\ disk' = live /\ UNCHANGED live
         [] OTHER           -> UNCHANGED <<live, disk, inTx>>
    /\ enforced' = CASE s.do = "fkOff" /\ ~inTx -> FALSE
                     [] s.do = "fkOn"  /\ ~inTx -> TRUE
                     [] OTHER                   -> enforced

\* A check finds the table as the section would make it
AlreadyMigrated ==
    /\ Starting
    /\ Current.do = "unless"
    /\ live[Current.table].now.there
    /\ live[Current.table].now.shape >= Current.shape
    /\ NextSection
    /\ UNCHANGED <<live, disk, inTx, enforced, written, torn, faults>>

Execute ==
    /\ Starting
    /\ Current.do = "unless" =>
           ~live[Current.table].now.there \/ live[Current.table].now.shape < Current.shape
    /\ Succeeds(Current)
    /\ NextStatement
    /\ UNCHANGED <<written, torn, faults>>

\* An exception ends the section, and nothing else
Refuse ==
    /\ Starting
    /\ Refused(Current)
    /\ NextSection
    /\ UNCHANGED <<live, disk, inTx, enforced, written, torn, faults>>

Fail ==
    /\ faults < MaxFaults /\ faults' = faults + 1
    /\ Starting
    /\ Startup[at[1]] \notin {create_tables, migrate_v2_schema}  \* these end the process
    /\ NextSection
    /\ torn' = Table
    /\ UNCHANGED <<live, disk, inTx, enforced, written>>

\* A handler stores a row, and commits
Store(t, r) ==
    /\ Serving
    /\ live[t].now.there
    /\ r \notin written[t]
    /\ live' = [live EXCEPT ![t].now.rows = @ \cup {r}]
    /\ disk' = live'
    /\ inTx' = FALSE
    /\ written' = [written EXCEPT ![t] = @ \cup {r}]
    /\ UNCHANGED <<at, enforced, torn, faults>>

Crash ==
    /\ faults < MaxFaults /\ faults' = faults + 1
    /\ at # Down
    /\ at' = Down
    /\ live' = disk
    /\ inTx' = FALSE
    /\ enforced' = FALSE
    /\ torn' = torn \cup {t \in Bare : disk[t].old.there}
    /\ UNCHANGED <<disk, written>>

Next ==
    \/ Start \/ Execute \/ AlreadyMigrated \/ Refuse \/ Fail \/ Crash
    \/ \E t \in Table, r \in Row : Store(t, r)

Spec == Init /\ [][Next]_migrationVars

-----------------------------------------------------------------------------
\* No crash, failure or restart, in whatever order, loses a row: it is in the
\* table or in its _old, for good.
RowsKept ==
    \A t \in Table : written[t] \subseteq disk[t].now.rows \cup disk[t].old.rows

\* "... while preserving all existing data": whatever crashes there have been,
\* a server finds all rows in uploads and generated_files; in the three other
\* tables unless a rebuild without a transaction of its own was cut short.
RowsServed ==
    Serving => \A t \in Table \ torn : live[t].now.there /\ live[t].now.rows = written[t]

\* init and migrate_v8 declare PRAGMA foreign_keys=ON, yet no server that no
\* failure has hit enforces them: where migrate_v8 sets it, the INSERT of the
\* rebuild has opened a transaction.
ForeignKeysOff == Serving /\ torn = {} => ~enforced
=============================================================================
