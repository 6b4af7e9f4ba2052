---------------------------- MODULE HistorySchema ----------------------------
(* Starting the history database: recovery of a migration that an older     *)
(* server left unfinished, the present migrations and indexes, all in one   *)
(* transaction, and what becomes of the samples when the server stops       *)
(* anywhere in it.  A table has its CPU column's constraint, whether it has *)
(* the columns added later, and its samples.                                *)
EXTENDS Naturals, FiniteSets

CONSTANTS
  Point,              \* samples
  NoTable,            \* a table that does not exist
  MaxCrashes,         \* bound: the server stops during a start
  MaxErrors           \* bound: statements that fail

ASSUME SchemaAssumption ==
  /\ MaxCrashes \in Nat /\ MaxErrors \in Nat
  /\ NoTable \notin [cpu : {"required", "optional"}, added : BOOLEAN, rows : SUBSET Point]

VARIABLES
  file,               \* the committed database
  txn,                \* what the transaction of a start sees
  step,               \* the next statement of the start, or the state of the store
  stored,             \* samples the database has been given
  split,              \* it was found with samples in both tables
  troubles            \* crashes and errors so far

schemaVars == <<file, txn, step, stored, split, troubles>>

OldTable(rows) == [cpu |-> "required", added |-> FALSE, rows |-> rows]
NewTable(rows) == [cpu |-> "optional", added |-> TRUE, rows |-> rows]
RowsOf(table) == IF table = NoTable THEN {} ELSE table.rows

\* The databases a server may be started on: none, an old one, and what a migration outside a transaction has left.
Databases ==
  {[active |-> NoTable, legacy |-> NoTable, index |-> "none"],
   [active |-> OldTable(Point), legacy |-> NoTable, index |-> "narrow"],
   [active |-> [OldTable(Point) EXCEPT !.cpu = "optional"], legacy |-> NoTable, index |-> "narrow"],
   [active |-> NewTable(Point), legacy |-> NoTable, index |-> "covering"],
   [active |-> NoTable, legacy |-> OldTable(Point), index |-> "none"],
   [active |-> NewTable({}), legacy |-> OldTable(Point), index |-> "none"],
   [active |-> NewTable(Point), legacy |-> OldTable(Point), index |-> "none"]}

----------------------------------------------------------------------------
(* The statements of a start, each on the transaction's view.               *)

\* Statements commit one by one, without the transaction around them.
ExecutesAlone(new, next) ==
  txn' = new /\ file' = new /\ step' = next /\ UNCHANGED <<stored, split, troubles>>
\* A statement changes the view of the transaction only.
Executes(new, next) == txn' = new /\ step' = next /\ UNCHANGED <<file, stored, split, troubles>>

\* A start that fails leaves the committed database, and the store unavailable.
Refuses == txn' = file /\ step' = "unavailable" /\ UNCHANGED <<file, stored, split>>

OpenDatabase ==
  /\ step = "down"
  /\ Executes(file, "recover")

\* The table of an unfinished migration takes the name back, in place of an empty one.
RecoverInterrupted ==
  /\ step = "recover"
  /\ \/ txn.legacy = NoTable /\ Executes(txn, "create")
     \/ /\ txn.legacy # NoTable /\ RowsOf(txn.active) = {}
        /\ Executes([active |-> txn.legacy, legacy |-> NoTable, index |-> "none"], "create")
     \/ /\ txn.legacy # NoTable /\ RowsOf(txn.active) # {}
        /\ Refuses /\ UNCHANGED troubles

CreateTable ==
  /\ step = "create"
  /\ Executes(IF txn.active = NoTable THEN [txn EXCEPT !.active = NewTable({})] ELSE txn, "nullable")

\* A table that demands a CPU value is renamed, created anew, copied and dropped.
MigrateNullable ==
  \/ /\ step = "nullable" /\ txn.active.cpu = "optional"
     /\ Executes(txn, "columns")
  \/ /\ step = "nullable" /\ txn.active.cpu = "required"
     /\ Executes([active |-> NoTable, legacy |-> txn.active, index |-> "none"], "replace")
  \/ /\ step = "replace"
     /\ Executes([txn EXCEPT !.active = NewTable({})], "copy")
  \/ /\ step = "copy"
     /\ Executes([txn EXCEPT !.active.rows = txn.legacy.rows], "drop")
  \/ /\ step = "drop"
     /\ Executes([txn EXCEPT !.legacy = NoTable], "columns")

\* Columns added since are added.
MigrateColumns ==
  /\ step = "columns"
  /\ Executes([txn EXCEPT !.active.added = TRUE], "indexes")

\* An index that does not cover every column is dropped and built again.
EnsureIndexes ==
  /\ step = "indexes"
  /\ Executes([txn EXCEPT !.index = "covering"], "commit")

\* The transaction commits; the files' modes follow, and may fail when all is committed.
CommitSchema ==
  /\ step = "commit"
  /\ file' = txn
  /\ \/ step' = "available" /\ UNCHANGED troubles
     \/ /\ troubles.errors < MaxErrors
        /\ troubles' = [troubles EXCEPT !.errors = @ + 1]
        /\ step' = "unavailable"
  /\ UNCHANGED <<txn, stored, split>>

Statements == {"recover", "create", "nullable", "replace", "copy", "drop", "columns", "indexes", "commit"}

\* A statement fails: the transaction is dropped.
StatementFails ==
  /\ step \in Statements /\ troubles.errors < MaxErrors
  /\ troubles' = [troubles EXCEPT !.errors = @ + 1]
  /\ Refuses

----------------------------------------------------------------------------
(* The life of the server.                                                  *)

\* A batch of samples is committed; a sample may lack its CPU value.
StorePoints ==
  \E p \in Point :
    /\ step = "available" /\ p \notin file.active.rows
    /\ file' = [file EXCEPT !.active.rows = @ \cup {p}]
    /\ stored' = stored \cup {p}
    /\ UNCHANGED <<txn, step, split, troubles>>

\* The server stops, by itself or not: a transaction that has not committed is undone.
ServerEnds ==
  /\ step # "down"
  /\ step \in Statements => troubles.crashes < MaxCrashes
  /\ troubles' = [troubles EXCEPT !.crashes = IF step \in Statements THEN @ + 1 ELSE @]
  /\ step' = "down" /\ txn' = file
  /\ UNCHANGED <<file, stored, split>>

SchemaInit ==
  /\ file \in Databases /\ txn = file /\ step = "down"
  /\ stored = RowsOf(file.active) \cup RowsOf(file.legacy)
  /\ split = (RowsOf(file.active) # {} /\ file.legacy # NoTable)
  /\ troubles = [crashes |-> 0, errors |-> 0]

SchemaNext ==
  \/ OpenDatabase \/ RecoverInterrupted \/ CreateTable \/ MigrateNullable \/ MigrateColumns
  \/ EnsureIndexes \/ CommitSchema \/ StatementFails \/ StorePoints \/ ServerEnds

SchemaSpec == SchemaInit /\ [][SchemaNext]_schemaVars

----------------------------------------------------------------------------
(* Properties.                                                              *)

Tables == {NoTable} \cup [cpu : {"required", "optional"}, added : BOOLEAN, rows : SUBSET Point]
Views == [active : Tables, legacy : Tables, index : {"none", "narrow", "covering"}]

\* Every variable has a value of its type.
SchemaTypeOK ==
  /\ file \in Views /\ txn \in Views
  /\ step \in Statements \cup {"down", "available", "unavailable"}
  /\ stored \subseteq Point /\ split \in BOOLEAN
  /\ troubles \in [crashes : 0..MaxCrashes, errors : 0..MaxErrors]

\* No sample is lost to a migration or to its interruption: whatever the database was given is in one of its
\* tables, all of it in the table that is read once the store is available; and only samples found in both
\* tables at first, never a start of this server cut short, bring recovery to refuse (initialize_database).
SamplesSurvive ==
  /\ stored \subseteq RowsOf(file.active) \cup RowsOf(file.legacy)
  /\ step = "available" =>
       file = [active |-> NewTable(stored), legacy |-> NoTable, index |-> "covering"]
  /\ ~split => file.legacy = NoTable \/ RowsOf(file.active) = {}
==============================================================================
