---------------------------- MODULE HistoryProofs ----------------------------
(***************************************************************************)
(* The history database and the traffic ledger it holds: no start of the   *)
(* database loses a sample, for any set of them and any number of stops    *)
(* and failed statements; usage is billed once, and a deleted ledger stays *)
(* away, for any readings, restarts and failed writes.                     *)
(***************************************************************************)
EXTENDS HistorySchema, TrafficLedger, TLAPS

Table == [cpu : {"required", "optional"}, added : BOOLEAN, rows : SUBSET Point]

(* What the transaction has after the statements so far.  Until recovery   *)
(* has looked at both tables it has what the database has; while samples   *)
(* are copied they are all in the old table, and before and after that all *)
(* in the active one.                                                      *)
SamplesIn(view) == RowsOf(view.active) \cup RowsOf(view.legacy)
Copying(view) == view.legacy # NoTable /\ RowsOf(view.legacy) = stored
Settled(view) == view.legacy = NoTable /\ RowsOf(view.active) = stored
Finished(view) == view = [active |-> NewTable(stored), legacy |-> NoTable, index |-> "covering"]

Reached(statement, view) ==
  /\ statement = "recover" => view = file
  /\ statement = "create" => Settled(view)
  /\ statement = "nullable" => Settled(view) /\ view.active # NoTable
  /\ statement \in {"replace", "copy"} => Copying(view)
  /\ statement = "copy" => view.active = NewTable({})
  /\ statement = "drop" => Copying(view) /\ view.active = NewTable(stored)
  /\ statement = "columns" => Settled(view) /\ view.active # NoTable /\ view.active.cpu = "optional"
  /\ statement = "indexes" => view.active = NewTable(stored) /\ view.legacy = NoTable
  /\ statement = "commit" => Finished(view)

Progress == Reached(step, txn)

(* The database itself has all the samples, in one table unless it was     *)
(* found with samples in both.                                             *)
Committed ==
  /\ SamplesIn(file) = stored
  /\ step = "available" => Finished(file)
  /\ ~split => file.legacy = NoTable \/ RowsOf(file.active) = {}

IInv == SchemaTypeOK /\ Progress /\ Committed

(* Views are pairs of tables; the helpers are always expanded.             *)
USE SchemaAssumption DEF schemaVars, Settled, Copying, Finished, SamplesIn

LEMMA TableTypes ==
  /\ Tables = {NoTable} \cup Table /\ NoTable \notin Table
  /\ \A rows \in SUBSET Point : NewTable(rows) \in Table /\ OldTable(rows) \in Table
  /\ \A rows : NewTable(rows).rows = rows /\ NewTable(rows).cpu = "optional"
BY DEF Tables, Table, NewTable, OldTable

LEMMA RowTypes == \A t \in Tables : RowsOf(t) \in SUBSET Point
BY TableTypes DEF RowsOf, Table

(* The columns added later change nothing else of a table.                 *)
LEMMA AddsColumns ==
  ASSUME NEW t \in Table, t.cpu = "optional"
  PROVE  [t EXCEPT !.added = TRUE] = NewTable(t.rows)
<1>1. PICK c \in {"required", "optional"}, a \in BOOLEAN, r \in SUBSET Point : t = [cpu |-> c, added |-> a, rows |-> r]
  BY DEF Table
<1>2. c = "optional" /\ r = t.rows
  BY <1>1
<1>3. \A v, w : [[cpu |-> c, added |-> v, rows |-> r] EXCEPT !.added = w] = [cpu |-> c, added |-> w, rows |-> r]
  OBVIOUS
<1>4. [[cpu |-> c, added |-> a, rows |-> r] EXCEPT !.added = TRUE] = [cpu |-> c, added |-> TRUE, rows |-> r]
  BY <1>3, Zenon
<1>5. QED
  BY <1>1, <1>2, <1>4, Zenon DEF NewTable

LEMMA RowsChange == \A rows, new : [NewTable(rows) EXCEPT !.rows = new] = NewTable(new)
<1>1. \A c, a, rows, new :
        [[cpu |-> c, added |-> a, rows |-> rows] EXCEPT !.rows = new] = [cpu |-> c, added |-> a, rows |-> new]
  OBVIOUS
<1>2. QED
  BY <1>1, Zenon DEF NewTable

(* A view is its tables and its index, and stays one with any of them      *)
(* replaced.                                                               *)
LEMMA ViewParts ==
  /\ \A v \in Views :
       v = [active |-> v.active, legacy |-> v.legacy, index |-> v.index] /\ v.active \in Tables /\ v.legacy \in Tables
  /\ \A v \in Views : \A a :
       [v EXCEPT !.active = a] = [active |-> a, legacy |-> v.legacy, index |-> v.index]
  /\ \A v \in Views : \A l :
       [v EXCEPT !.legacy = l] = [active |-> v.active, legacy |-> l, index |-> v.index]
  /\ \A v \in Views : \A i :
       [v EXCEPT !.index = i] = [active |-> v.active, legacy |-> v.legacy, index |-> i]
  /\ \A v \in Views : v.index \in {"none", "narrow", "covering"}
  /\ \A a, l \in Tables, i \in {"none", "narrow", "covering"} : [active |-> a, legacy |-> l, index |-> i] \in Views
BY DEF Views

LEMMA InitEstablishes == SchemaInit => IInv
<1> SUFFICES ASSUME SchemaInit PROVE IInv
  OBVIOUS
<1>1. file \in Views
  <2>1. [OldTable(Point) EXCEPT !.cpu = "optional"] \in Table
    BY DEF OldTable, Table
  <2>2. \A a, l \in Tables, i \in {"none", "narrow", "covering"} : [active |-> a, legacy |-> l, index |-> i] \in Views
    BY DEF Views
  <2>3. Point \in SUBSET Point /\ {} \in SUBSET Point
    OBVIOUS
  <2>4. OldTable(Point) \in Tables /\ NewTable(Point) \in Tables /\ NewTable({}) \in Tables /\ NoTable \in Tables
        /\ [OldTable(Point) EXCEPT !.cpu = "optional"] \in Tables
    BY <2>1, <2>3, TableTypes
  <2>5. QED
    BY <2>2, <2>4 DEF SchemaInit, Databases
<1>2. SchemaTypeOK
  BY <1>1, RowTypes DEF SchemaInit, SchemaTypeOK, Views, Statements
<1>3. Progress /\ Committed
  BY DEF SchemaInit, Progress, Reached, Committed
<1>4. QED
  BY <1>2, <1>3 DEF IInv

----------------------------------------------------------------------------
(* One lemma per action.                                                    *)

\* A statement leaves the database as it is and has to reach what its successor relies on.
LEMMA Executing ==
  ASSUME IInv, NEW new \in Views, NEW next \in Statements, Executes(new, next), Reached(next, new)
  PROVE  IInv'
<1>1. SchemaTypeOK'
  BY DEF IInv, SchemaTypeOK, Executes
<1>2. Progress'
  BY DEF Executes, Progress, Reached
<1>3. Committed'
  BY DEF IInv, Committed, Executes, Statements
<1>4. QED
  BY <1>1, <1>2, <1>3 DEF IInv

\* What is unavailable, or down, has the committed database only.
LEMMA Refusing ==
  ASSUME IInv, Refuses, troubles' \in [crashes : 0..MaxCrashes, errors : 0..MaxErrors]
  PROVE  IInv'
BY DEF IInv, SchemaTypeOK, Refuses, Progress, Reached, Committed

LEMMA OpenKeeps == IInv /\ OpenDatabase => IInv'
<1> SUFFICES ASSUME IInv, OpenDatabase PROVE IInv'
  OBVIOUS
<1>1. file \in Views /\ "recover" \in Statements /\ Reached("recover", file)
  BY DEF IInv, SchemaTypeOK, Statements, Reached
<1>2. QED
  BY <1>1, Executing DEF OpenDatabase

LEMMA RecoverKeeps == IInv /\ RecoverInterrupted => IInv'
<1> SUFFICES ASSUME IInv, RecoverInterrupted PROVE IInv'
  OBVIOUS
<1>1. step = "recover" /\ txn = file /\ txn \in Views /\ SamplesIn(txn) = stored /\ "create" \in Statements
  BY DEF IInv, RecoverInterrupted, Progress, Reached, Committed, SchemaTypeOK, Statements
<1>2. CASE txn.legacy = NoTable /\ Executes(txn, "create")
  <2>1. Reached("create", txn)
    BY <1>1, <1>2 DEF Reached, RowsOf
  <2>2. QED
    BY <1>1, <1>2, <2>1, Executing
<1>3. CASE /\ txn.legacy # NoTable /\ RowsOf(txn.active) = {}
           /\ Executes([active |-> txn.legacy, legacy |-> NoTable, index |-> "none"], "create")
  <2> DEFINE new == [active |-> txn.legacy, legacy |-> NoTable, index |-> "none"]
  <2>1. new \in Views
    BY <1>1, ViewParts, TableTypes
  <2>2. RowsOf(txn.legacy) = stored
    BY <1>1, <1>3
  <2>3. Reached("create", new)
    BY <2>2 DEF Reached
  <2>4. Executes(new, "create")
    BY <1>3
  <2> HIDE DEF new
  <2>5. QED
    BY <1>1, <2>1, <2>3, <2>4, Executing
<1>4. CASE Refuses /\ UNCHANGED troubles
  BY <1>4, Refusing DEF IInv, SchemaTypeOK
<1>5. QED
  BY <1>2, <1>3, <1>4 DEF RecoverInterrupted

LEMMA CreateKeeps == IInv /\ CreateTable => IInv'
<1> SUFFICES ASSUME IInv, CreateTable PROVE IInv'
  OBVIOUS
<1>1. txn \in Views /\ Settled(txn) /\ "nullable" \in Statements
  BY DEF IInv, CreateTable, Progress, Reached, SchemaTypeOK, Statements
<1>2. CASE txn.active = NoTable
  <2> DEFINE new == [active |-> NewTable({}), legacy |-> txn.legacy, index |-> txn.index]
  <2>1. new = [txn EXCEPT !.active = NewTable({})] /\ new \in Views
    BY <1>1, ViewParts, TableTypes
  <2>2. NewTable({}) # NoTable /\ NewTable({}).rows = {}
    BY TableTypes
  <2>3. Reached("nullable", new)
    BY <1>1, <1>2, <2>2 DEF Reached, RowsOf
  <2>4. Executes(new, "nullable")
    BY <1>2, <2>1 DEF CreateTable
  <2> HIDE DEF new
  <2>5. QED
    BY <1>1, <2>1, <2>3, <2>4, Executing
<1>3. CASE txn.active # NoTable
  <2>1. Reached("nullable", txn) /\ Executes(txn, "nullable")
    BY <1>1, <1>3 DEF Reached, CreateTable
  <2>2. QED
    BY <1>1, <2>1, Executing
<1>4. QED
  BY <1>2, <1>3

LEMMA MigrateKeeps == IInv /\ MigrateNullable => IInv'
<1> SUFFICES ASSUME IInv, MigrateNullable PROVE IInv'
  OBVIOUS
<1>1. /\ txn \in Views /\ Progress /\ stored \in SUBSET Point
      /\ {"columns", "replace", "copy", "drop"} \subseteq Statements
  BY DEF IInv, SchemaTypeOK, Statements
<1>2. CASE step = "nullable" /\ txn.active.cpu = "optional" /\ Executes(txn, "columns")
  <2>1. Reached("columns", txn)
    BY <1>1, <1>2 DEF Progress, Reached
  <2>2. QED
    BY <1>1, <1>2, <2>1, Executing
<1>3. CASE /\ step = "nullable" /\ txn.active.cpu = "required"
           /\ Executes([active |-> NoTable, legacy |-> txn.active, index |-> "none"], "replace")
  <2> DEFINE new == [active |-> NoTable, legacy |-> txn.active, index |-> "none"]
  <2>1. new \in Views
    BY <1>1, ViewParts, TableTypes
  <2>2. Reached("replace", new)
    BY <1>1, <1>3 DEF Progress, Reached
  <2>3. Executes(new, "replace")
    BY <1>3
  <2> HIDE DEF new
  <2>4. QED
    BY <1>1, <2>1, <2>2, <2>3, Executing
<1>4. CASE step = "replace" /\ Executes([txn EXCEPT !.active = NewTable({})], "copy")
  <2> DEFINE new == [active |-> NewTable({}), legacy |-> txn.legacy, index |-> txn.index]
  <2>1. new = [txn EXCEPT !.active = NewTable({})] /\ new \in Views
    BY <1>1, ViewParts, TableTypes
  <2>2. Reached("copy", new)
    BY <1>1, <1>4 DEF Progress, Reached
  <2>3. Executes(new, "copy")
    BY <1>4, <2>1
  <2> HIDE DEF new
  <2>4. QED
    BY <1>1, <2>1, <2>2, <2>3, Executing
<1>5. CASE step = "copy" /\ Executes([txn EXCEPT !.active.rows = txn.legacy.rows], "drop")
  <2> DEFINE new == [active |-> NewTable(stored), legacy |-> txn.legacy, index |-> txn.index]
  <2>1. Copying(txn) /\ txn.active = NewTable({}) /\ txn.legacy.rows = stored
    BY <1>1, <1>5 DEF Progress, Reached, RowsOf
  <2>2. new = [txn EXCEPT !.active.rows = txn.legacy.rows]
    <3>1. [txn.active EXCEPT !.rows = txn.legacy.rows] = NewTable(stored)
      BY <2>1, RowsChange
    <3>2. [txn EXCEPT !.active = NewTable(stored)] = new
      BY <1>1, ViewParts
    <3>3. QED
      BY <3>1, <3>2, Zenon
  <2>3. new \in Views
    BY <1>1, ViewParts, TableTypes
  <2>4. Reached("drop", new)
    BY <2>1 DEF Reached
  <2>5. Executes(new, "drop")
    BY <1>5, <2>2
  <2> HIDE DEF new
  <2>6. QED
    BY <1>1, <2>3, <2>4, <2>5, Executing
<1>6. CASE step = "drop" /\ Executes([txn EXCEPT !.legacy = NoTable], "columns")
  <2> DEFINE new == [active |-> txn.active, legacy |-> NoTable, index |-> txn.index]
  <2>1. new = [txn EXCEPT !.legacy = NoTable] /\ new \in Views
    BY <1>1, ViewParts, TableTypes
  <2>2. new.active = NewTable(stored) /\ new.legacy = NoTable
    BY <1>1, <1>6 DEF Progress, Reached
  <2>3. Reached("columns", new)
    BY <1>1, <2>2, TableTypes DEF Reached, RowsOf
  <2>4. Executes(new, "columns")
    BY <1>6, <2>1
  <2> HIDE DEF new
  <2>5. QED
    BY <1>1, <2>1, <2>3, <2>4, Executing
<1>7. QED
  BY <1>2, <1>3, <1>4, <1>5, <1>6 DEF MigrateNullable

LEMMA ColumnsKeeps == IInv /\ MigrateColumns => IInv'
<1> SUFFICES ASSUME IInv, MigrateColumns PROVE IInv'
  OBVIOUS
<1> DEFINE new == [active |-> NewTable(stored), legacy |-> NoTable, index |-> txn.index]
<1>1. txn \in Views /\ stored \in SUBSET Point /\ "indexes" \in Statements
  BY DEF IInv, SchemaTypeOK, Statements
<1>2. /\ txn.active \in Table /\ txn.active.cpu = "optional"
      /\ txn.active.rows = stored /\ txn.legacy = NoTable
  BY <1>1, ViewParts, TableTypes DEF IInv, MigrateColumns, Progress, Reached, RowsOf
<1>3. [txn.active EXCEPT !.added = TRUE] = NewTable(stored)
  BY <1>2, AddsColumns
<1>4. [txn EXCEPT !.active = [txn.active EXCEPT !.added = TRUE]] = new
  <2>1. [txn EXCEPT !.active = NewTable(stored)] = new
    BY <1>1, <1>2, ViewParts
  <2>2. QED
    BY <1>3, <2>1, Zenon
<1>5. Executes(new, "indexes")
  BY <1>4, Zenon DEF MigrateColumns
<1>6. new \in Views
  BY <1>1, ViewParts, TableTypes
<1>7. Reached("indexes", new)
  BY DEF Reached
<1> HIDE DEF new
<1>8. QED
  BY <1>1, <1>5, <1>6, <1>7, Executing

LEMMA IndexesKeep == IInv /\ EnsureIndexes => IInv'
<1> SUFFICES ASSUME IInv, EnsureIndexes PROVE IInv'
  OBVIOUS
<1> DEFINE new == [active |-> NewTable(stored), legacy |-> NoTable, index |-> "covering"]
<1>1. /\ txn \in Views /\ stored \in SUBSET Point /\ "commit" \in Statements
      /\ txn.active = NewTable(stored) /\ txn.legacy = NoTable
  BY DEF IInv, SchemaTypeOK, Statements, EnsureIndexes, Progress, Reached
<1>2. new = [txn EXCEPT !.index = "covering"] /\ new \in Views
  <2>1. \A i : [txn EXCEPT !.index = i] = [active |-> NewTable(stored), legacy |-> NoTable, index |-> i]
    BY <1>1, ViewParts
  <2>2. new = [txn EXCEPT !.index = "covering"]
    BY <2>1, Zenon DEF new
  <2>3. QED
    BY <1>1, <2>2, ViewParts, TableTypes
<1>3. Reached("commit", new) /\ Executes(new, "commit")
  BY <1>2 DEF Reached, EnsureIndexes
<1> HIDE DEF new
<1>4. QED
  BY <1>1, <1>2, <1>3, Executing

LEMMA CommitKeeps == IInv /\ CommitSchema => IInv'
<1> SUFFICES ASSUME IInv, CommitSchema PROVE IInv'
  OBVIOUS
<1>1. Finished(txn) /\ txn \in Views /\ stored \in SUBSET Point
  BY DEF IInv, CommitSchema, Progress, Reached, SchemaTypeOK
<1>2. RowsOf(NewTable(stored)) = stored /\ RowsOf(NoTable) = {}
  BY <1>1, TableTypes DEF RowsOf
<1>3. troubles' \in [crashes : 0..MaxCrashes, errors : 0..MaxErrors]
  BY DEF IInv, SchemaTypeOK, CommitSchema
<1>4. step' \in {"available", "unavailable"} /\ file' = txn /\ UNCHANGED <<txn, stored, split>>
  BY DEF CommitSchema
<1>5. SchemaTypeOK'
  BY <1>1, <1>3, <1>4 DEF IInv, SchemaTypeOK
<1>6. Progress'
  BY <1>4 DEF Progress, Reached
<1>7. Finished(txn)'
  BY <1>1, <1>4
<1>8. Committed'
  <2>1. SamplesIn(file') = stored /\ file'.legacy = NoTable
    BY <1>1, <1>2, <1>4
  <2>2. QED
    BY <1>1, <1>4, <2>1 DEF Committed
<1>9. QED
  BY <1>5, <1>6, <1>8 DEF IInv

LEMMA FailureKeeps == IInv /\ StatementFails => IInv'
<1> SUFFICES ASSUME IInv, StatementFails PROVE IInv'
  OBVIOUS
<1>1. troubles' \in [crashes : 0..MaxCrashes, errors : 0..MaxErrors]
  BY DEF IInv, SchemaTypeOK, StatementFails
<1>2. QED
  BY <1>1, Refusing DEF StatementFails

LEMMA StoreKeeps == IInv /\ StorePoints => IInv'
<1> SUFFICES ASSUME IInv, NEW p \in Point, step = "available",
                    file' = [file EXCEPT !.active.rows = @ \cup {p}], stored' = stored \cup {p},
                    UNCHANGED <<txn, step, split, troubles>>
             PROVE  IInv'
  BY DEF StorePoints
<1>1. Finished(file) /\ file \in Views /\ stored \in SUBSET Point /\ stored' \in SUBSET Point
  BY DEF IInv, Committed, SchemaTypeOK
<1>2. file.active = NewTable(stored) /\ file.legacy = NoTable /\ file.index = "covering"
      /\ file.active.rows = stored
  BY <1>1, TableTypes
<1>3. Finished(file)'
  <2>1. [file.active EXCEPT !.rows = file.active.rows \cup {p}] = NewTable(stored')
    BY <1>2, RowsChange
  <2>2. [file EXCEPT !.active = NewTable(stored')] = [active |-> NewTable(stored'), legacy |-> NoTable, index |-> "covering"]
    BY <1>1, <1>2, ViewParts
  <2>3. QED
    BY <2>1, <2>2, Zenon
<1>4. file' \in Views
  <2>1. [active |-> NewTable(stored'), legacy |-> NoTable, index |-> "covering"] \in Views
    BY <1>1, ViewParts, TableTypes
  <2>2. QED
    BY <1>3, <2>1, Zenon
<1>5. RowsOf(NewTable(stored')) = stored' /\ RowsOf(NoTable) = {}
  BY <1>1, TableTypes DEF RowsOf
<1>6. SchemaTypeOK'
  BY <1>1, <1>4 DEF IInv, SchemaTypeOK
<1>7. Progress'
  BY DEF Progress, Reached
<1>8. Committed'
  <2>1. SamplesIn(file') = stored' /\ file'.legacy = NoTable
    BY <1>3, <1>5
  <2>2. QED
    BY <1>3, <2>1 DEF Committed
<1>9. QED
  BY <1>6, <1>7, <1>8 DEF IInv

LEMMA EndKeeps == IInv /\ ServerEnds => IInv'
<1> SUFFICES ASSUME IInv, ServerEnds PROVE IInv'
  OBVIOUS
<1>1. SchemaTypeOK'
  <2>1. troubles' \in [crashes : 0..MaxCrashes, errors : 0..MaxErrors]
    BY DEF IInv, SchemaTypeOK, ServerEnds
  <2>2. QED
    BY <2>1 DEF IInv, SchemaTypeOK, ServerEnds
<1>2. Progress' /\ Committed'
  BY DEF IInv, ServerEnds, Progress, Reached, Committed
<1>3. QED
  BY <1>1, <1>2 DEF IInv

LEMMA Invariance == SchemaSpec => []IInv
<1>1. IInv /\ UNCHANGED schemaVars => IInv'
  BY DEF IInv, SchemaTypeOK, Progress, Reached, Committed
<1>2. IInv /\ [SchemaNext]_schemaVars => IInv'
  BY <1>1, OpenKeeps, RecoverKeeps, CreateKeeps, MigrateKeeps, ColumnsKeeps, IndexesKeep,
     CommitKeeps, FailureKeeps, StoreKeeps, EndKeeps DEF SchemaNext
<1>3. QED
  BY InitEstablishes, <1>2, PTL DEF SchemaSpec

(* No migration of the history database, however often it is cut short or  *)
(* fails, loses a sample, and a database that one server has brought up is *)
(* never refused by recovery (initialize_database).                        *)
THEOREM NoSampleLost == SchemaSpec => []SamplesSurvive
<1>1. IInv => SamplesSurvive
  BY DEF IInv, Committed, SamplesSurvive
<1>2. QED
  BY Invariance, <1>1, PTL

(* The tables, the transaction and the statement of a start always have    *)
(* values of their types (history/init.rs).                                *)
THEOREM TypeCorrect == SchemaSpec => []SchemaTypeOK
<1>1. IInv => SchemaTypeOK
  BY DEF IInv
<1>2. QED
  BY Invariance, <1>1, PTL

----------------------------------------------------------------------------
(* The traffic ledger: what one row accounts for.                           *)

LedgerRow ==
  [kind : {"row"}, month : Nat, plan : Plan \cup {NoPlan}, used : Nat, base : Nat, up : Nat,
   mark : Nat \cup {None}, since : Nat \cup {None}, from : Nat, blind : Nat, again : Nat]

(* What the host's counter holds and a sample has not billed yet fits into  *)
(* what the host has moved since.  All that a counter holds which is behind *)
(* the baseline, or of another boot, has not been billed.                   *)
Fits(r, count, up, total) ==
  /\ r.used + r.from + Delta(r, count, up) <= total + r.again
  /\ count < r.base \/ up < r.up => r.used + r.from + count <= total + r.again

(* While the counter has not restarted, a row knows where it stood: at the  *)
(* baseline, or at the mark of an absent interface, with what its first     *)
(* baseline was blind to on top.                                            *)
Exact(r, up) ==
  /\ r.up <= up /\ r.again = r.blind
  /\ r.used + r.from = (IF r.mark = None THEN r.base ELSE r.mark) + r.blind
  /\ r.mark # None => r.base = 0

Sound(r, count, up, total, lossy) ==
  r = NoRow \/ (r \in LedgerRow /\ Fits(r, count, up, total) /\ (~lossy => Exact(r, up)))

LEMMA RowParts ==
  ASSUME NEW r \in LedgerRow
  PROVE  /\ r # NoRow /\ r.kind = "row" /\ r.month \in Nat /\ r.plan \in Plan \cup {NoPlan}
         /\ r.used \in Nat /\ r.base \in Nat /\ r.up \in Nat
         /\ r.mark \in Nat \cup {None} /\ r.since \in Nat \cup {None} /\ r.from \in Nat
         /\ r.blind \in Nat /\ r.again \in Nat
<1>1. r # NoRow
  BY DEF LedgerRow, NoRow
<1> QED
  BY <1>1 DEF LedgerRow

LEMMA Larger2 == \A a, b \in Int : Larger(a, b) \in {a, b} /\ Larger(a, b) >= a /\ Larger(a, b) >= b
  BY DEF Larger

(* A tick adds the same to what is unbilled and to what was moved, at most. *)
LEMMA TickFits ==
  ASSUME NEW r \in LedgerRow, NEW c \in Nat, NEW u \in Nat, NEW m \in Nat, NEW n \in 0 .. 1,
         Fits(r, c, u, m)
  PROVE  Fits(r, c + n, u + 1, m + n)
<1>1. /\ r.used \in Nat /\ r.base \in Nat /\ r.up \in Nat /\ r.mark \in Int /\ r.mark >= -1
      /\ r.from \in Nat /\ r.again \in Nat
  BY RowParts DEF None
<1>2. Delta(r, c + n, u + 1) <= Delta(r, c, u) + n
  BY <1>1 DEF Delta, BillableDelta, Rebooted, Excess, Larger, Smaller, None
<1>3. Delta(r, c, u) \in Int /\ Delta(r, c + n, u + 1) \in Int
  BY <1>1 DEF Delta, BillableDelta, Rebooted, Excess, Larger, Smaller, None
<1> QED
  BY <1>1, <1>2, <1>3 DEF Fits

(* A counter that starts again holds nothing.                               *)
LEMMA RestartFits ==
  ASSUME NEW r \in LedgerRow, NEW c \in Nat, NEW u \in Nat, NEW v \in Nat, NEW m \in Nat,
         Fits(r, c, u, m)
  PROVE  Fits(r, 0, v, m)
<1>1. /\ r.used \in Nat /\ r.base \in Nat /\ r.up \in Nat /\ r.mark \in Int /\ r.mark >= -1
      /\ r.from \in Nat /\ r.again \in Nat
  BY RowParts DEF None
<1>2. Delta(r, 0, v) = 0
  BY <1>1 DEF Delta, BillableDelta, Rebooted, Excess, Larger, Smaller, None
<1>3. Delta(r, c, u) \in Nat
  BY <1>1 DEF Delta, BillableDelta, Rebooted, Excess, Larger, Smaller, None
<1> QED
  BY <1>1, <1>2, <1>3 DEF Fits

LEMMA RestoredRow ==
  ASSUME NEW r \in LedgerRow
  PROVE  /\ Restored(r) \in LedgerRow
         /\ Restored(r).used = r.used /\ Restored(r).base = r.base /\ Restored(r).up = r.up
         /\ Restored(r).mark = r.mark /\ Restored(r).from = r.from
         /\ Restored(r).blind = r.blind /\ Restored(r).again = r.again
         /\ Restored(Restored(r)) = Restored(r)
<1>1. Restored(r) = [r EXCEPT !.since = None]
  BY RowParts DEF Restored
<1>2. [r EXCEPT !.since = None] \in LedgerRow
  BY DEF LedgerRow
<1>3. PICK q : q = [r EXCEPT !.since = None]
  OBVIOUS
<1>4. /\ q.used = r.used /\ q.base = r.base /\ q.up = r.up
      /\ q.mark = r.mark /\ q.from = r.from /\ q.blind = r.blind /\ q.again = r.again
  BY <1>3 DEF LedgerRow
<1>5. Restored(q) = [q EXCEPT !.since = None]
  BY <1>2, <1>3, RowParts DEF Restored
<1>6. [q EXCEPT !.since = None] = q
  BY <1>3 DEF LedgerRow
<1> QED
  BY <1>1, <1>2, <1>3, <1>4, <1>5, <1>6

LEMMA RestoredIsSound ==
  ASSUME NEW r, NEW c, NEW u, NEW m, NEW b, Sound(r, c, u, m, b)
  PROVE  Sound(Restored(r), c, u, m, b)
<1>1. CASE r = NoRow
  BY <1>1 DEF Restored, Sound
<1>2. CASE r \in LedgerRow /\ Fits(r, c, u, m) /\ (~b => Exact(r, u))
  <2>1. PICK q : q = Restored(r)
    OBVIOUS
  <2>2. /\ q \in LedgerRow /\ q.used = r.used /\ q.base = r.base /\ q.up = r.up
        /\ q.mark = r.mark /\ q.from = r.from /\ q.blind = r.blind /\ q.again = r.again
    BY <1>2, <2>1, RestoredRow
  <2>3. Delta(q, c, u) = Delta(r, c, u)
    BY <2>2 DEF Delta, Rebooted
  <2> QED
    BY <1>2, <2>1, <2>2, <2>3 DEF Sound, Fits, Exact
<1> QED
  BY <1>1, <1>2 DEF Sound

(* What a sample makes of a row's baseline.                                 *)
Advances(r, x, u, a) ==
  /\ a \in LedgerRow /\ a.used = r.used /\ a.from = r.from /\ a.blind = r.blind /\ a.up = u
  /\ a.base = IF Rebases(r, x, u) THEN x ELSE Larger(r.base, x)
  /\ a.mark = IF Rebases(r, x, u) /\ ~Rebooted(r, u)
                THEN Larger(KeptMark(r, x, u), r.base) ELSE KeptMark(r, x, u)
  /\ a.again = r.again + Reopened(r, x, u)

LEMMA Advanced ==
  ASSUME NEW r \in LedgerRow, NEW x \in Nat, NEW u \in Nat
  PROVE  Advances(r, x, u, Advance(r, x, u))
<1>. PICK a : a = Advance(r, x, u)
  OBVIOUS
<1>1. /\ r.used \in Nat /\ r.base \in Nat /\ r.up \in Nat /\ r.mark \in Nat \cup {None}
      /\ r.since \in Nat \cup {None} /\ r.from \in Nat /\ r.again \in Nat
  BY RowParts
<1>2. PICK base : base = IF Rebases(r, x, u) THEN x ELSE Larger(r.base, x)
  OBVIOUS
<1>3. PICK mark : mark = IF Rebases(r, x, u) /\ ~Rebooted(r, u)
                           THEN Larger(KeptMark(r, x, u), r.base) ELSE KeptMark(r, x, u)
  OBVIOUS
<1>4. PICK since : since = IF ~Regressed(r, x) \/ Rebases(r, x, u) THEN None ELSE HoldSince(r, u)
  OBVIOUS
<1>5. PICK again : again = r.again + Reopened(r, x, u)
  OBVIOUS
<1>6. base \in Nat
  BY <1>1, <1>2 DEF Larger
<1>7. KeptMark(r, x, u) \in Nat \cup {None}
  BY <1>1 DEF KeptMark
<1>8. mark \in Nat \cup {None}
  BY <1>1, <1>3, <1>7 DEF Larger, None
<1>9. since \in Nat \cup {None}
  BY <1>1, <1>4 DEF HoldSince
<1>10. again \in Nat
  <2>1. Reopened(r, x, u) \in Nat
    BY <1>1 DEF Reopened, Rebases, Regressed
  <2> QED
    BY <1>1, <1>5, <2>1
<1>11. a = [r EXCEPT !.up = u, !.base = base, !.mark = mark, !.since = since, !.again = again]
  BY <1>2, <1>3, <1>4, <1>5, Zenon DEF Advance
<1>12. a \in LedgerRow
  BY <1>6, <1>8, <1>9, <1>10, <1>11 DEF LedgerRow
<1>13. /\ a.used = r.used /\ a.from = r.from /\ a.blind = r.blind /\ a.up = u
       /\ a.base = base /\ a.mark = mark /\ a.again = again
  BY <1>11 DEF LedgerRow
<1>14. Advances(r, x, u, a)
  BY <1>2, <1>3, <1>5, <1>12, <1>13 DEF Advances
<1> QED
  BY <1>14

(* The row after a sample: its usage and where it began add up to what they *)
(* were and what is billed now.                                             *)
Charges(r, x, u, q) ==
  /\ q \in LedgerRow
  /\ q.used + q.from = r.used + r.from + Delta(r, x, u)
  /\ q.up = u /\ q.blind = r.blind
  /\ q.base = IF Rebases(r, x, u) THEN x ELSE Larger(r.base, x)
  /\ q.mark = IF Rebases(r, x, u) /\ ~Rebooted(r, u)
                THEN Larger(KeptMark(r, x, u), r.base) ELSE KeptMark(r, x, u)
  /\ q.again = r.again + Reopened(r, x, u)

LEMMA ChargedParts ==
  ASSUME NEW r \in LedgerRow, NEW x \in Nat, NEW u \in Nat,
         month \in Nat, plan \in Plan \cup {NoPlan}
  PROVE  Charges(r, x, u, Charged(r, x, u))
<1>. PICK q : q = Charged(r, x, u)
  OBVIOUS
<1>. PICK a : a = Advance(r, x, u)
  OBVIOUS
<1>1. Advances(r, x, u, a)
  BY Advanced
<1>2. PICK d : d = Delta(r, x, u)
  OBVIOUS
<1>3. a \in LedgerRow /\ a.used = r.used /\ a.from = r.from /\ a.blind = r.blind
  BY <1>1 DEF Advances
<1>4. /\ r.used \in Nat /\ r.base \in Nat /\ r.up \in Nat /\ r.mark \in Nat \cup {None}
      /\ r.from \in Nat
  BY RowParts
<1>5. d \in Nat
  BY <1>2, <1>4 DEF Delta, BillableDelta, Rebooted, Excess, Larger, Smaller, None
<1>6. ASSUME q.used + q.from = r.used + r.from + Delta(r, x, u), q \in LedgerRow,
             q.up = a.up, q.base = a.base, q.mark = a.mark, q.blind = a.blind, q.again = a.again
      PROVE  Charges(r, x, u, q)
  BY <1>1, <1>6, Zenon DEF Advances, Charges
<1>7. CASE r.month # month \/ r.plan # plan
  <2>1. PICK from : from = a.from + r.used + d
    OBVIOUS
  <2>. PICK now \in Nat, rule \in Plan \cup {NoPlan} : now = month /\ rule = plan
    OBVIOUS
  <2>2. q = [a EXCEPT !.month = now, !.plan = rule, !.used = 0, !.from = from]
    BY <1>2, <1>7, <2>1, Zenon DEF Charged
  <2>3. from \in Nat
    BY <1>3, <1>4, <1>5, <2>1
  <2>4. q \in LedgerRow
    <3>1. PICK b : b = [a EXCEPT !.month = now]
      OBVIOUS
    <3>2. PICK f : f = [b EXCEPT !.plan = rule]
      OBVIOUS
    <3>3. PICK g : g = [f EXCEPT !.used = 0]
      OBVIOUS
    <3>4. b \in LedgerRow
      BY <1>3, <3>1 DEF LedgerRow
    <3>5. f \in LedgerRow
      BY <3>2, <3>4 DEF LedgerRow
    <3>6. g \in LedgerRow
      BY <3>3, <3>5 DEF LedgerRow
    <3>7. q = [g EXCEPT !.from = from]
      BY <2>2, <3>1, <3>2, <3>3, Zenon
    <3> QED
      BY <2>3, <3>6, <3>7 DEF LedgerRow
  <2>5. q.used = 0 /\ q.from = from /\ q.up = a.up /\ q.base = a.base /\ q.mark = a.mark
        /\ q.blind = a.blind /\ q.again = a.again
    BY <1>3, <2>2 DEF LedgerRow
  <2> QED
    BY <1>2, <1>3, <1>4, <1>5, <1>6, <2>1, <2>4, <2>5
<1>8. CASE ~(r.month # month \/ r.plan # plan)
  <2>1. PICK used : used = a.used + d
    OBVIOUS
  <2>2. q = [a EXCEPT !.used = used]
    BY <1>2, <1>8, <2>1, Zenon DEF Charged
  <2>3. used \in Nat
    BY <1>3, <1>4, <1>5, <2>1
  <2>4. q \in LedgerRow
    BY <1>3, <2>2, <2>3 DEF LedgerRow
  <2>5. q.used = used /\ q.from = a.from /\ q.up = a.up /\ q.base = a.base /\ q.mark = a.mark
        /\ q.blind = a.blind /\ q.again = a.again
    BY <1>3, <2>2 DEF LedgerRow
  <2> QED
    BY <1>2, <1>3, <1>4, <1>5, <1>6, <2>1, <2>4, <2>5
<1> QED
  BY <1>7, <1>8

(* A sample bills what is unbilled, or nothing while the interface is away. *)
LEMMA ChargedIsSound ==
  ASSUME NEW r \in LedgerRow, NEW c \in Nat, NEW u \in Nat, NEW m \in Nat, NEW lossy \in BOOLEAN,
         NEW x \in {0, c}, month \in Nat, plan \in Plan \cup {NoPlan},
         Sound(r, c, u, m, lossy), ~lossy => c = m
  PROVE  Sound(Charged(r, x, u), c, u, m, lossy)
<1>1. PICK q : q = Charged(r, x, u)
  OBVIOUS
<1>2. /\ r.used \in Nat /\ r.base \in Nat /\ r.up \in Nat /\ r.mark \in Int /\ r.mark >= -1
      /\ r.from \in Nat /\ r.blind \in Nat /\ r.again \in Nat
  BY RowParts DEF None
<1>3. /\ q \in LedgerRow
      /\ q.used + q.from = r.used + r.from + Delta(r, x, u)
      /\ q.up = u /\ q.blind = r.blind
      /\ q.base = IF Rebases(r, x, u) THEN x ELSE Larger(r.base, x)
      /\ q.mark = IF Rebases(r, x, u) /\ ~Rebooted(r, u)
                    THEN Larger(KeptMark(r, x, u), r.base) ELSE KeptMark(r, x, u)
      /\ q.again = r.again + Reopened(r, x, u)
  <2>1. Charges(r, x, u, q)
    BY <1>1, ChargedParts
  <2> QED
    BY <2>1, Zenon DEF Charges
<1>4. /\ q.used \in Nat /\ q.base \in Nat /\ q.up \in Nat /\ q.mark \in Int /\ q.mark >= -1
      /\ q.from \in Nat /\ q.again \in Nat
  BY <1>3, RowParts DEF None
<1>5. Fits(r, c, u, m) /\ (~lossy => Exact(r, u))
  BY RowParts DEF Sound
<1>6. r.used + r.from + Delta(r, c, u) <= m + r.again /\ Delta(r, c, u) \in Nat
  BY <1>2, <1>5 DEF Fits, Delta, BillableDelta, Rebooted, Excess, Larger, Smaller, None
<1>7. c < r.base \/ u < r.up => r.used + r.from + c <= m + r.again
  BY <1>5 DEF Fits
<1>8. PICK rebases \in BOOLEAN : rebases = Rebases(r, x, u)
  BY DEF Rebases
<1>9. Rebooted(r, u) /\ Regressed(r, x) => rebases
  BY <1>8 DEF Rebases
<1>10. rebases => Regressed(r, x)
  BY <1>8 DEF Rebases
<1>11. Fits(q, c, u, m)
  <2>1. ~(c < q.base /\ c >= r.base)
    BY <1>2, <1>3, <1>8, <1>10 DEF Larger, Regressed
  <2>2. CASE x = c
    <3>1. Delta(q, c, u) = 0
      BY <1>2, <1>3, <1>4, <1>8, <1>10, <2>2
      DEF Delta, BillableDelta, Rebooted, Excess, Larger, Smaller, None, Regressed, KeptMark
    <3>2. q.again >= r.again
      BY <1>2, <1>3, <1>8, <1>10 DEF Reopened, Regressed
    <3>3. c < q.base => c < r.base /\ Delta(r, c, u) = 0
      BY <1>2, <1>3, <1>8, <1>10, <2>1, <2>2
      DEF Delta, BillableDelta, Rebooted, Excess, Larger, Smaller, None, Regressed, KeptMark
    <3> QED
      BY <1>2, <1>3, <1>4, <1>6, <1>7, <2>2, <3>1, <3>2, <3>3 DEF Fits
  <2>3. CASE x = 0
    <3>1. Delta(r, x, u) = 0
      BY <1>2, <2>3 DEF Delta, BillableDelta, Rebooted, Excess, Larger, Smaller, None
    <3>2. q.used + q.from = r.used + r.from
      BY <1>2, <1>3, <3>1
    <3>3. CASE ~rebases
      <4>1. q.base = r.base /\ q.again = r.again
        BY <1>2, <1>3, <1>8, <2>3, <3>3 DEF Larger, Reopened
      <4>2. Rebooted(r, u) => r.base = 0
        BY <1>2, <1>9, <2>3, <3>3 DEF Regressed
      <4>3. Rebooted(r, u) => Delta(q, c, u) = c
        BY <1>2, <1>3, <1>4, <1>8, <3>3, <4>1, <4>2
        DEF Delta, BillableDelta, Rebooted, Excess, Larger, Smaller, None, KeptMark
      <4>4. ~Rebooted(r, u) => Delta(q, c, u) = Delta(r, c, u)
        <5>1. CASE r.mark = 0
          <6>1. ~Rebooted(r, u) => q.mark = None
            BY <1>3, <1>8, <2>3, <3>3, <5>1 DEF KeptMark, None
          <6> QED
            BY <1>2, <1>3, <4>1, <5>1, <6>1
            DEF Delta, BillableDelta, Rebooted, Excess, Larger, Smaller, None
        <5>2. CASE r.mark # 0
          <6>1. ~Rebooted(r, u) => q.mark = r.mark
            BY <1>2, <1>3, <1>8, <2>3, <3>3, <5>2 DEF KeptMark, None
          <6> QED
            BY <1>2, <1>3, <4>1, <6>1 DEF Delta, BillableDelta, Rebooted
        <5> QED
          BY <5>1, <5>2
      <4> QED
        BY <1>2, <1>3, <1>4, <1>6, <1>7, <3>2, <4>1, <4>3, <4>4 DEF Fits, Rebooted
    <3>4. CASE rebases
      <4>1. q.base = 0 /\ r.base > 0
        BY <1>2, <1>3, <1>8, <1>10, <2>3, <3>4 DEF Regressed
      <4>2. Delta(q, c, u) <= c
        BY <1>2, <1>3, <1>4, <4>1 DEF Delta, BillableDelta, Rebooted, Excess, Larger, Smaller, None
      <4>3. CASE Rebooted(r, u) \/ c < r.base
        <5>1. q.again >= r.again
          BY <1>2, <1>3, <1>8, <1>10 DEF Reopened, Regressed
        <5> QED
          <6>1. r.used + r.from + c <= m + r.again
            BY <1>7, <4>3 DEF Rebooted
          <6>2. Delta(q, c, u) \in Int
            BY <1>2, <1>4 DEF Delta, BillableDelta, Rebooted, Excess, Larger, Smaller, None
          <6>3. q.used + q.from + Delta(q, c, u) <= m + q.again
            BY <1>2, <1>4, <3>2, <4>2, <5>1, <6>1, <6>2
          <6> QED
            BY <1>2, <1>3, <1>4, <4>1, <6>3 DEF Fits
      <4>4. CASE ~Rebooted(r, u) /\ c >= r.base
        <5>1. CASE KeptMark(r, x, u) = None
          <6>1. q.mark = r.base
            BY <1>2, <1>3, <1>8, <3>4, <4>4, <5>1 DEF Larger, None
          <6>2. Delta(q, c, u) = c - r.base
            BY <1>2, <1>3, <1>4, <4>1, <4>4, <6>1 DEF Delta, BillableDelta, Rebooted, Excess, Larger, Smaller, None
          <6>3. Delta(r, c, u) = c - r.base
            BY <1>2, <2>3, <4>4, <5>1 DEF Delta, BillableDelta, Rebooted, Excess, Larger, Smaller, None, KeptMark
          <6>4. q.again = r.again
            BY <1>2, <1>3, <5>1 DEF Reopened
          <6> QED
            BY <1>2, <1>3, <1>4, <1>6, <3>2, <4>1, <6>2, <6>3, <6>4 DEF Fits
        <5>2. CASE KeptMark(r, x, u) # None
          <6>1. KeptMark(r, x, u) = r.mark /\ r.mark # None
            BY <5>2 DEF KeptMark
          <6>2. q.mark = Larger(r.mark, r.base) /\ q.again = r.again + r.base
            BY <1>2, <1>3, <1>8, <2>3, <3>4, <4>4, <5>2, <6>1 DEF Reopened
          <6>3. Delta(q, c, u) <= Delta(r, c, u) + r.base
            BY <1>2, <1>3, <1>4, <4>1, <4>4, <6>1, <6>2
            DEF Delta, BillableDelta, Rebooted, Excess, Larger, Smaller, None
          <6>4. Delta(q, c, u) \in Int
            BY <1>2, <1>4 DEF Delta, BillableDelta, Rebooted, Excess, Larger, Smaller, None
          <6> QED
            BY <1>2, <1>3, <1>4, <1>6, <3>2, <4>1, <6>2, <6>3, <6>4 DEF Fits
        <5> QED
          BY <5>1, <5>2
      <4> QED
        BY <1>2, <4>3, <4>4 DEF Rebooted
    <3> QED
      BY <3>3, <3>4
  <2> QED
    BY <2>2, <2>3
<1>12. ASSUME ~lossy PROVE Exact(q, u)
  <2>1. /\ r.up <= u /\ r.again = r.blind /\ c = m
        /\ r.used + r.from = (IF r.mark = -1 THEN r.base ELSE r.mark) + r.blind
        /\ r.mark # -1 => r.base = 0
    BY <1>5, <1>12 DEF Exact, None
  <2>2. ~Rebooted(r, u)
    BY <1>2, <2>1 DEF Rebooted
  <2>3. (IF r.mark = -1 THEN r.base ELSE r.mark) <= c
    BY <1>2, <1>6, <2>1
  <2>4. q.again = q.blind
    BY <1>2, <1>3, <1>8, <1>10, <2>1, <2>2 DEF Reopened, Regressed, KeptMark, None
  <2>5. CASE x = c
    <3>1. ~Regressed(r, x) /\ ~rebases
      BY <1>2, <1>10, <2>1, <2>3, <2>5 DEF Regressed
    <3>2. q.base = c
      BY <1>2, <1>3, <1>8, <2>1, <2>3, <2>5, <3>1 DEF Larger
    <3>3. q.mark = None
      BY <1>2, <1>3, <1>8, <2>1, <2>2, <2>3, <2>5, <3>1 DEF KeptMark, None
    <3>4. r.used + r.from + Delta(r, x, u) = c + r.blind
      BY <1>2, <2>1, <2>2, <2>3, <2>5 DEF Delta, BillableDelta, Excess, Larger, Smaller, None
    <3> QED
      BY <1>3, <2>4, <3>2, <3>3, <3>4 DEF Exact
  <2>6. CASE x = 0
    <3>1. Delta(r, x, u) = 0
      BY <1>2, <2>6 DEF Delta, BillableDelta, Rebooted, Excess, Larger, Smaller, None
    <3>2. q.used + q.from = r.used + r.from
      BY <1>2, <1>3, <3>1
    <3>3. r.mark # -1 => ~rebases
      BY <1>2, <1>10, <2>1, <2>6 DEF Regressed
    <3>4. CASE rebases
      BY <1>2, <1>3, <1>4, <1>8, <1>10, <2>1, <2>2, <2>4, <2>6, <3>2, <3>3, <3>4
      DEF Exact, Larger, KeptMark, None, Regressed
    <3>5. CASE ~rebases
      <4>1. q.base = r.base
        BY <1>2, <1>3, <1>8, <2>6, <3>5 DEF Larger
      <4>2. q.mark = r.mark \/ (r.mark = 0 /\ q.mark = -1)
        BY <1>2, <1>3, <1>8, <2>2, <2>6, <3>5 DEF KeptMark, None
      <4>3. q.used + q.from = (IF q.mark = -1 THEN q.base ELSE q.mark) + q.blind
        BY <1>2, <1>3, <1>4, <2>1, <3>2, <4>1, <4>2
      <4> QED
        BY <1>3, <2>1, <2>4, <4>1, <4>2, <4>3 DEF Exact, None
    <3> QED
      BY <3>4, <3>5
  <2> QED
    BY <2>5, <2>6
<1> QED
  BY <1>1, <1>3, <1>11, <1>12 DEF Sound

----------------------------------------------------------------------------
(* The row in memory, in the database and on its way to it.                 *)

Deletion == [kind |-> "delete"]
Upsert(r) == [kind |-> "upsert", row |-> r]

Good(r) == Sound(r, host.count, host.up, moved, broken)

Billing ==
  /\ host \in [count : Nat, shown : BOOLEAN, up : Nat]
  /\ moved \in Nat \ {0} /\ broken \in BOOLEAN
  /\ month \in Nat /\ plan \in Plan \cup {NoPlan}
  /\ ~broken => host.count = moved
  /\ Good(row) /\ Good(db)
  /\ (pending \in {Nothing, Deletion} \/ \E r \in LedgerRow : pending = Upsert(r) /\ Good(r))

(* A row that memory and the database differ in is marked, or is what is    *)
(* pending; and nothing pending can bring back what a deletion removes.     *)
Removing == op \in {"deleting", "reconciling"}
Queued ==
  /\ op \in {"idle", "marking", "deleting", "reconciling"}
  /\ op # "idle" => phase = "open"
  /\ Removing => ~enrolled /\ row = NoRow
  /\ barrier # "none" => Removing
  /\ barrier = "sent" => dirty
  /\ barrier = "taken" => pending = Deletion
  /\ phase = "loading" => ~dirty /\ pending = Nothing
  /\ forgotten => ~enrolled /\ row = NoRow /\ db = NoRow /\ pending \in {Nothing, Deletion}
  /\ phase = "open" /\ ~dirty /\ op = "idle" =>
       IF pending = Nothing THEN Restored(row) = Restored(db) ELSE pending = Current

LedgerInv == Billing /\ Queued

LEMMA Kinds ==
  /\ Nothing # Deletion
  /\ \A r : Upsert(r) \notin {Nothing, Deletion} /\ Upsert(r).row = r /\ Upsert(r).kind = "upsert"
<1>1. Nothing # Deletion
  BY DEF Nothing, Deletion
<1>2. ASSUME NEW r PROVE Upsert(r) \notin {Nothing, Deletion} /\ Upsert(r).row = r /\ Upsert(r).kind = "upsert"
  <2>1. Upsert(r).row = r /\ Upsert(r).kind = "upsert"
    BY DEF Upsert
  <2>2. Nothing.kind = "nothing" /\ Deletion.kind = "delete"
    BY DEF Nothing, Deletion
  <2> QED
    BY <2>1, <2>2
<1> QED
  BY <1>1, <1>2

LEMMA CurrentIs ==
  /\ row = NoRow => Current = Deletion
  /\ row # NoRow => Current = Upsert(row)
  BY DEF Current, Deletion, Upsert

LEMMA LedgerInits == LedgerInit => LedgerInv
<1> SUFFICES ASSUME LedgerInit PROVE LedgerInv
  OBVIOUS
<1>1. host.count = 1 /\ host.up = 0 /\ host \in [count : Nat, shown : BOOLEAN, up : Nat]
  BY DEF LedgerInit
<1>2. Billing
  <2>1. moved \in Nat \ {0} /\ month \in Nat /\ (~broken => host.count = moved)
    BY <1>1 DEF LedgerInit
  <2>2. Good(row) /\ Good(db)
    BY Zenon DEF LedgerInit, Good, Sound
  <2> QED
    BY <1>1, <2>1, <2>2, Zenon DEF LedgerInit, Billing
<1>3. Queued
  BY DEF LedgerInit, Queued, Removing
<1> QED
  BY <1>2, <1>3 DEF LedgerInv

(* What the host does changes every row's account alike.                    *)
LEMMA HostChanges ==
  ASSUME Billing, UNCHANGED <<row, db, pending>>,
         \A r \in LedgerRow : Good(r) => Good(r)',
         (host \in [count : Nat, shown : BOOLEAN, up : Nat])', moved' \in Nat \ {0}, broken' \in BOOLEAN,
         month' \in Nat, plan' \in Plan \cup {NoPlan}, ~broken' => host'.count = moved'
  PROVE  Billing'
<1>1. ASSUME NEW r, Good(r) PROVE Good(r)'
  <2>1. CASE r = NoRow
    BY <2>1, Zenon DEF Good, Sound
  <2>2. CASE r \in LedgerRow
    BY <1>1, <2>2
  <2>3. r = NoRow \/ r \in LedgerRow
    BY <1>1, Zenon DEF Good, Sound
  <2> QED
    BY <2>1, <2>2, <2>3
<1>2. Good(row)'
  <2>1. PICK r : r = row
    OBVIOUS
  <2>2. Good(r)'
    BY <1>1, <2>1 DEF Billing
  <2> QED
    BY <2>1, <2>2
<1>3. Good(db)'
  <2>1. PICK r : r = db
    OBVIOUS
  <2>2. Good(r)'
    BY <1>1, <2>1 DEF Billing
  <2> QED
    BY <2>1, <2>2
<1>4. (pending \in {Nothing, Deletion} \/ \E r \in LedgerRow : pending = Upsert(r) /\ Good(r))'
  <2>1. CASE pending \in {Nothing, Deletion}
    BY <2>1
  <2>2. CASE \E r \in LedgerRow : pending = Upsert(r) /\ Good(r)
    <3>1. PICK r \in LedgerRow : pending = Upsert(r) /\ Good(r)
      BY <2>2
    <3>2. Good(r)' /\ pending' = Upsert(r)
      BY <1>1, <3>1
    <3> QED
      BY <3>2
  <2> QED
    BY <2>1, <2>2 DEF Billing
<1> QED
  BY <1>2, <1>3, <1>4 DEF Billing

(* Steps that leave the queue, the lock and the registry alone.             *)
LEMMA QueueAlone ==
  ASSUME Queued,
         UNCHANGED <<row, db, pending, dirty, op, phase, enrolled, barrier, forgotten>>
  PROVE  Queued'
  BY DEF Queued, Removing, Current

LEMMA TickLedger ==
  ASSUME LedgerInv, NEW n \in 0 .. 1, Tick(n)
  PROVE  LedgerInv'
<1>1. Billing /\ Queued
  BY DEF LedgerInv
<1>2. host \in [count : Nat, shown : BOOLEAN, up : Nat] /\ moved \in Nat \ {0} /\ broken \in BOOLEAN
  BY <1>1 DEF Billing
<1>3. PICK c \in Nat, u \in Nat, m \in Nat : c = host.count /\ u = host.up /\ m = moved
  BY <1>2
<1>4. host' = [host EXCEPT !.up = u + 1, !.count = c + n]
  BY <1>3, Zenon DEF Tick
<1>5. host'.count = c + n /\ host'.up = u + 1 /\ (host \in [count : Nat, shown : BOOLEAN, up : Nat])'
  <2>1. PICK h : h = [host EXCEPT !.up = u + 1, !.count = c + n]
    OBVIOUS
  <2>2. PICK d \in Nat, v \in Nat : d = c + n /\ v = u + 1
    OBVIOUS
  <2>3. h = [host EXCEPT !.up = v, !.count = d]
    BY <2>1, <2>2
  <2>4. h.count = d /\ h.up = v /\ h \in [count : Nat, shown : BOOLEAN, up : Nat]
    BY <1>2, <2>3
  <2> QED
    BY <1>4, <2>1, <2>2, <2>4
<1>6. moved' = m + n /\ UNCHANGED <<broken, month, plan, row, db, pending>>
  BY <1>3 DEF Tick, entryVars, writerVars
<1>7. ASSUME NEW r \in LedgerRow, Good(r) PROVE Good(r)'
  <2>1. Fits(r, c, u, m) /\ (~broken => Exact(r, u))
    BY <1>3, <1>7, RowParts, Zenon DEF Good, Sound
  <2>2. Fits(r, c + n, u + 1, m + n)
    BY <2>1, TickFits
  <2>3. Exact(r, u) => Exact(r, u + 1)
    BY RowParts DEF Exact
  <2>4. Good(r)' <=> Sound(r, c + n, u + 1, m + n, broken)
    BY <1>5, <1>6, Zenon DEF Good
  <2> QED
    BY <2>1, <2>2, <2>3, <2>4, Zenon DEF Sound
<1>8. Billing'
  <2>1. (~broken => host.count = moved)'
    BY <1>1, <1>3, <1>5, <1>6 DEF Billing
  <2>2. moved' \in Nat \ {0} /\ month' \in Nat /\ plan' \in Plan \cup {NoPlan}
    BY <1>1, <1>3, <1>6 DEF Billing
  <2> QED
    BY <1>1, <1>2, <1>5, <1>6, <1>7, <2>1, <2>2, HostChanges
<1>9. Queued'
  BY <1>1, QueueAlone DEF Tick, entryVars, writerVars, serverVars
<1> QED
  BY <1>8, <1>9 DEF LedgerInv

LEMMA RestartLedger ==
  ASSUME LedgerInv, NEW reboot \in BOOLEAN, Restart(reboot)
  PROVE  LedgerInv'
<1>1. Billing /\ Queued
  BY DEF LedgerInv
<1>2. host \in [count : Nat, shown : BOOLEAN, up : Nat] /\ moved \in Nat \ {0} /\ broken \in BOOLEAN
  BY <1>1 DEF Billing
<1>3. PICK c \in Nat, u \in Nat, m \in Nat : c = host.count /\ u = host.up /\ m = moved
  BY <1>2
<1>4. PICK v \in Nat : host' = [count |-> 0, shown |-> TRUE, up |-> v]
  BY <1>2 DEF Restart
<1>5. host'.count = 0 /\ host'.up = v /\ (host \in [count : Nat, shown : BOOLEAN, up : Nat])'
  BY <1>4
<1>6. broken' = TRUE /\ UNCHANGED <<moved, month, plan, row, db, pending>>
  BY DEF Restart, entryVars, writerVars
<1>7. ASSUME NEW r \in LedgerRow, Good(r) PROVE Good(r)'
  <2>1. Fits(r, c, u, m)
    BY <1>3, <1>7, RowParts, Zenon DEF Good, Sound
  <2>2. Fits(r, 0, v, m)
    BY <2>1, RestartFits
  <2>3. Good(r)' <=> Sound(r, 0, v, m, TRUE)
    BY <1>3, <1>5, <1>6, Zenon DEF Good
  <2> QED
    BY <2>2, <2>3, Zenon DEF Sound
<1>8. Billing'
  BY <1>1, <1>2, <1>5, <1>6, <1>7, HostChanges DEF Billing
<1>9. Queued'
  BY <1>1, QueueAlone DEF Restart, entryVars, writerVars, serverVars
<1> QED
  BY <1>8, <1>9 DEF LedgerInv

LEMMA HostLedger ==
  ASSUME LedgerInv, Toggle \/ NextMonth \/ \E p \in Plan \cup {NoPlan} : SetPlan(p)
  PROVE  LedgerInv'
<1>1. Billing /\ Queued
  BY DEF LedgerInv
<1>2. /\ UNCHANGED <<moved, broken, row, db, pending, dirty, op, phase, enrolled, barrier, forgotten>>
      /\ host'.count = host.count /\ host'.up = host.up
      /\ (host \in [count : Nat, shown : BOOLEAN, up : Nat])'
  <2>1. host \in [count : Nat, shown : BOOLEAN, up : Nat]
    BY <1>1 DEF Billing
  <2>2. CASE Toggle
    BY <2>1, <2>2 DEF Toggle, entryVars, writerVars, serverVars
  <2>3. CASE NextMonth \/ \E p \in Plan \cup {NoPlan} : SetPlan(p)
    BY <2>1, <2>3 DEF NextMonth, SetPlan, hostVars, writerVars, serverVars
  <2> QED
    BY <2>2, <2>3
<1>3. month' \in Nat /\ plan' \in Plan \cup {NoPlan}
  BY <1>1 DEF Billing, Toggle, NextMonth, SetPlan, entryVars
<1>4. ASSUME NEW r \in LedgerRow, Good(r) PROVE Good(r)'
  BY <1>2, <1>4, Zenon DEF Good
<1>5. Billing'
  BY <1>1, <1>2, <1>3, <1>4, HostChanges DEF Billing
<1>6. Queued'
  BY <1>1, <1>2, QueueAlone
<1> QED
  BY <1>5, <1>6 DEF LedgerInv

(* A sample replaces the row of a registered node, or drops it.             *)
LEMMA SampleLedger ==
  ASSUME LedgerInv, Sample
  PROVE  LedgerInv'
<1>1. Billing /\ Queued
  BY DEF LedgerInv
<1>2. UNCHANGED <<host, moved, broken, month, plan, enrolled, dirty, pending, barrier, db, phase, forgotten>>
  BY DEF Sample, hostVars, entryVars, writerVars
<1>3. host \in [count : Nat, shown : BOOLEAN, up : Nat] /\ moved \in Nat \ {0} /\ broken \in BOOLEAN
  BY <1>1 DEF Billing
<1>4. PICK c \in Nat, u \in Nat, m \in Nat : c = host.count /\ u = host.up /\ m = moved
  BY <1>3
<1>5. PICK x \in {0, c} : x = Reading
  BY <1>4 DEF Reading
<1>6. Good(row)'
  <2>1. Good(row)' <=> Sound(row', c, u, m, broken)
    BY <1>2, <1>4, Zenon DEF Good
  <2>2. CASE row' = NoRow
    BY <2>1, <2>2, Zenon DEF Sound
  <2>3. CASE row = NoRow /\ row' = Row(month, plan, Reading, host.up, moved, host.count - Reading)
    <3>. PICK hidden \in Nat : hidden = c - x
      BY <1>4, <1>5
    <3>1. PICK q : q = Row(month, plan, x, u, m, hidden)
      OBVIOUS
    <3>2. row' = q
      BY <1>4, <1>5, <2>3, <3>1
    <3>3. /\ q \in LedgerRow /\ q.used = 0 /\ q.base = x /\ q.up = u /\ q.mark = -1 /\ q.from = m
          /\ q.blind = hidden /\ q.again = hidden
      BY <1>1, <3>1 DEF Row, LedgerRow, Billing, None
    <3>4. Fits(q, c, u, m)
      BY <3>3 DEF Fits, Delta, BillableDelta, Rebooted, Excess, Larger, None
    <3>5. ~broken => Exact(q, u)
      BY <1>1, <1>4, <3>3 DEF Exact, Billing, None
    <3> QED
      BY <2>1, <3>2, <3>3, <3>4, <3>5, Zenon DEF Sound
  <2>4. CASE row # NoRow /\ row' = Charged(row, Reading, host.up)
    <3>1. PICK r : r = row
      OBVIOUS
    <3>2. r \in LedgerRow /\ Sound(r, c, u, m, broken)
      BY <1>1, <1>4, <2>4, <3>1, Zenon DEF Billing, Good, Sound
    <3>3. PICK lossy \in BOOLEAN : lossy = broken
      BY <1>3
    <3>4. Sound(Charged(r, x, u), c, u, m, lossy)
      BY <1>1, <1>4, <3>2, <3>3, ChargedIsSound DEF Billing
    <3> QED
      BY <1>4, <1>5, <2>1, <2>4, <3>1, <3>3, <3>4
  <2> QED
    BY <2>2, <2>3, <2>4 DEF Sample
<1>7. Good(db)' /\ (pending \in {Nothing, Deletion} \/ \E r \in LedgerRow : pending = Upsert(r) /\ Good(r))'
  BY <1>1, <1>2, Zenon DEF Billing, Good
<1>8. Billing'
  BY <1>1, <1>2, <1>6, <1>7 DEF Billing
<1>9. Queued'
  <2>1. op' = "marking" /\ op = "idle" /\ phase = "open" /\ (~enrolled => row' = NoRow)
    BY DEF Sample
  <2> QED
    BY <1>1, <1>2, <2>1 DEF Queued, Removing
<1> QED
  BY <1>8, <1>9 DEF LedgerInv

(* Steps that only drop rows, or leave them.                                *)
LEMMA RowsDrop ==
  ASSUME Billing, UNCHANGED <<host, moved, broken, month, plan>>,
         row' \in {row, NoRow}, db' \in {db, NoRow}, pending' \in {pending, Nothing, Deletion}
  PROVE  Billing'
<1>1. Good(row)'
  <2>1. Good(row)' <=> Sound(row', host.count, host.up, moved, broken)
    BY Zenon DEF Good
  <2> QED
    BY <2>1, Zenon DEF Billing, Good, Sound
<1>2. Good(db)'
  <2>1. Good(db)' <=> Sound(db', host.count, host.up, moved, broken)
    BY Zenon DEF Good
  <2> QED
    BY <2>1, Zenon DEF Billing, Good, Sound
<1>3. (pending \in {Nothing, Deletion} \/ \E r \in LedgerRow : pending = Upsert(r) /\ Good(r))'
  <2>1. CASE pending' \in {Nothing, Deletion}
    BY <2>1
  <2>2. CASE pending' = pending
    BY <2>2, Zenon DEF Billing, Good
  <2> QED
    BY <2>1, <2>2
<1> QED
  BY <1>1, <1>2, <1>3 DEF Billing

LEMMA MarkLedger ==
  ASSUME LedgerInv, MarkDirty \/ SendBarrier
  PROVE  LedgerInv'
<1>1. Billing'
  BY RowsDrop DEF LedgerInv, MarkDirty, SendBarrier, hostVars, entryVars
<1>2. Queued'
  <2>1. CASE MarkDirty
    BY <2>1 DEF LedgerInv, Queued, Removing, MarkDirty, hostVars, entryVars
  <2>2. CASE SendBarrier
    BY <2>2 DEF LedgerInv, Queued, Removing, SendBarrier, hostVars, entryVars, serverVars
  <2> QED
    BY <2>1, <2>2
<1> QED
  BY <1>1, <1>2 DEF LedgerInv

LEMMA RemoveLedger ==
  ASSUME LedgerInv, Delete \/ Reconcile \/ Enrol
  PROVE  LedgerInv'
<1>1. Billing'
  BY RowsDrop DEF LedgerInv, Delete, Reconcile, Enrol, hostVars, entryVars, writerVars
<1>2. Queued'
  <2>1. CASE Delete
    BY <2>1 DEF LedgerInv, Queued, Removing, Current, Delete, hostVars, writerVars
  <2>2. CASE Reconcile
    BY <2>2 DEF LedgerInv, Queued, Removing, Current, Reconcile, hostVars, entryVars, writerVars
  <2>3. CASE Enrol
    BY <2>3 DEF LedgerInv, Queued, Removing, Current, Enrol, hostVars, writerVars
  <2> QED
    BY <2>1, <2>2, <2>3
<1> QED
  BY <1>1, <1>2 DEF LedgerInv

(* What the writer collects is the present row, if it is marked.            *)
LEMMA FlushLedger ==
  ASSUME LedgerInv, Flush
  PROVE  LedgerInv'
<1>1. Billing /\ Queued
  BY DEF LedgerInv
<1>2. UNCHANGED <<host, moved, broken, month, plan, enrolled, row, db, phase, op, forgotten>>
  BY DEF Flush, hostVars, entryVars, serverVars
<1>3. ~dirty' /\ pending' = (IF dirty THEN Current ELSE pending)
  BY DEF Flush, Collected
<1>4. CASE ~dirty \/ row = NoRow
  <2>1. pending' \in {pending, Deletion}
    BY <1>3, <1>4, CurrentIs
  <2>2. Billing'
    BY <1>1, <1>2, <2>1, RowsDrop
  <2>3. Queued'
    BY <1>1, <1>2, <1>3, <1>4, <2>1, CurrentIs, Kinds DEF Queued, Removing, Flush, Current
  <2> QED
    BY <2>2, <2>3 DEF LedgerInv
<1>5. CASE dirty /\ row # NoRow
  <2>1. PICK r : r = row
    OBVIOUS
  <2>2. r \in LedgerRow /\ Good(r)
    BY <1>1, <1>5, <2>1, Zenon DEF Billing, Good, Sound
  <2>3. pending' = Upsert(r) /\ Good(r)'
    <3>1. Good(r)'
      BY <1>2, <2>2, Zenon DEF Good
    <3> QED
      BY <1>3, <1>5, <2>1, <3>1, CurrentIs
  <2>4. Good(row)' /\ Good(db)'
    BY <1>1, <1>2, Zenon DEF Billing, Good
  <2>5. Billing'
    BY <1>1, <1>2, <2>2, <2>3, <2>4 DEF Billing
  <2>6. Queued'
    BY <1>1, <1>2, <1>3, <1>5, <2>1, <2>3, CurrentIs, Kinds DEF Queued, Removing, Flush, Current
  <2> QED
    BY <2>5, <2>6 DEF LedgerInv
<1> QED
  BY <1>4, <1>5

(* A flush that ends: what it held is committed, or kept.                   *)
LEMMA FlushOkLedger ==
  ASSUME LedgerInv, FlushOk
  PROVE  LedgerInv'
<1>1. Billing /\ Queued
  BY DEF LedgerInv
<1>2. UNCHANGED <<host, moved, broken, month, plan, enrolled, row, dirty, phase>> /\ pending' = Nothing
  BY DEF FlushOk, hostVars, entryVars
<1>3. Answered(TRUE)
  BY DEF FlushOk
<1>4. db' = CASE pending = Nothing -> db [] pending.kind = "delete" -> NoRow [] OTHER -> pending.row
  BY DEF FlushOk
<1>5. CASE pending \in {Nothing, Deletion}
  <2>1. (pending = Nothing => db' = db) /\ (pending = Deletion => db' = NoRow)
    <3>1. pending = Deletion => pending.kind = "delete" /\ pending # Nothing
      BY Kinds DEF Deletion
    <3>2. CASE pending = Nothing
      BY <1>4, <3>2, Kinds DEF Nothing
    <3>3. CASE pending = Deletion
      BY <1>4, <3>1, <3>3
    <3> QED
      BY <1>5, <3>2, <3>3, Kinds
  <2>2. Billing'
    BY <1>1, <1>2, <1>5, <2>1, RowsDrop
  <2>3. Queued'
    <3>1. CASE barrier # "taken"
      BY <1>1, <1>2, <1>3, <1>5, <2>1, <3>1, CurrentIs, Kinds DEF Queued, Removing, Answered, Current
    <3>2. CASE barrier = "taken"
      BY <1>1, <1>2, <1>3, <1>5, <2>1, <3>2, CurrentIs, Kinds DEF Queued, Removing, Answered, Current
    <3> QED
      BY <3>1, <3>2
  <2> QED
    BY <2>2, <2>3 DEF LedgerInv
<1>6. CASE pending \notin {Nothing, Deletion}
  <2>1. PICK r \in LedgerRow : pending = Upsert(r) /\ Good(r)
    BY <1>1, <1>6 DEF Billing
  <2>2. db' = r
    BY <1>4, <1>6, <2>1, Kinds
  <2>3. Good(row)' /\ Good(db)'
    <3>1. Good(r)'
      BY <1>2, <2>1, Zenon DEF Good
    <3>2. Good(row)'
      BY <1>1, <1>2, Zenon DEF Billing, Good
    <3> QED
      BY <2>2, <3>1, <3>2
  <2>4. Billing'
    BY <1>1, <1>2, <2>3 DEF Billing
  <2>5. barrier # "taken" /\ ~forgotten
    BY <1>1, <1>6, Kinds DEF Queued
  <2>6. UNCHANGED <<barrier, op, forgotten>>
    BY <1>3, <2>5 DEF Answered
  <2>7. pending = Current => row = r
    <3>1. row = NoRow => pending # Current
      BY <1>6, CurrentIs
    <3>2. row # NoRow /\ pending = Current => row = r
      <4>1. Upsert(row).row = row /\ Upsert(r).row = r
        BY Kinds
      <4> QED
        BY <2>1, <4>1, CurrentIs
    <3> QED
      BY <3>1, <3>2
  <2>8. Queued'
    BY <1>1, <1>2, <1>6, <2>2, <2>5, <2>6, <2>7 DEF Queued, Removing
  <2> QED
    BY <2>4, <2>8 DEF LedgerInv
<1> QED
  BY <1>5, <1>6

LEMMA FlushFailLedger ==
  ASSUME LedgerInv, FlushFail
  PROVE  LedgerInv'
<1>1. Billing /\ Queued
  BY DEF LedgerInv
<1>2. UNCHANGED <<host, moved, broken, month, plan, enrolled, row, dirty, phase, db, pending>>
  BY DEF FlushFail, Unflushed, hostVars, entryVars
<1>3. Answered(FALSE)
  BY Zenon DEF FlushFail
<1>4. Billing'
  BY <1>1, <1>2, RowsDrop
<1>5. Queued'
  <2>1. CASE barrier # "taken"
    BY <1>1, <1>2, <1>3, <2>1 DEF Queued, Removing, Answered, Current
  <2>2. CASE barrier = "taken"
    BY <1>1, <1>2, <1>3, <2>2, CurrentIs, Kinds DEF Queued, Removing, Answered, Current
  <2> QED
    BY <2>1, <2>2
<1> QED
  BY <1>4, <1>5 DEF LedgerInv

LEMMA LoadLedger ==
  ASSUME LedgerInv, Load
  PROVE  LedgerInv'
<1>1. Billing /\ Queued
  BY DEF LedgerInv
<1>2. /\ UNCHANGED <<host, moved, broken, month, plan, enrolled, dirty, pending, barrier, db, op, forgotten>>
      /\ phase = "loading" /\ phase' = "open" /\ row' = Restored(db)
  BY DEF Load, hostVars, entryVars
<1>3. PICK d : d = db
  OBVIOUS
<1>4. Sound(Restored(d), host.count, host.up, moved, broken)
  <2>1. PICK c, u, m, b : c = host.count /\ u = host.up /\ m = moved /\ b = broken
    OBVIOUS
  <2>2. Sound(d, c, u, m, b)
    BY <1>1, <1>3, <2>1, Zenon DEF Billing, Good
  <2>3. Sound(Restored(d), c, u, m, b)
    BY <2>2, RestoredIsSound
  <2> QED
    BY <2>1, <2>3
<1>5. Good(row)'
  BY <1>2, <1>3, <1>4, Zenon DEF Good
<1>6. Good(db)' /\ (pending \in {Nothing, Deletion} \/ \E r \in LedgerRow : pending = Upsert(r) /\ Good(r))'
  BY <1>1, <1>2, Zenon DEF Billing, Good
<1>7. Billing'
  BY <1>1, <1>2, <1>5, <1>6 DEF Billing
<1>8. Restored(Restored(d)) = Restored(d)
  <2>1. CASE d = NoRow
    BY <2>1 DEF Restored
  <2>2. CASE d \in LedgerRow
    BY <2>2, RestoredRow
  <2> QED
    BY <1>1, <1>3, <2>1, <2>2, Zenon DEF Billing, Good, Sound
<1>9. db = NoRow => row' = NoRow
  BY <1>2 DEF Restored
<1>10. (Restored(row) = Restored(db))'
  BY <1>2, <1>3, <1>8
<1>11. Queued'
  BY <1>1, <1>2, <1>9, <1>10 DEF Queued, Removing
<1> QED
  BY <1>7, <1>11 DEF LedgerInv

LEMMA StopLedger ==
  ASSUME LedgerInv, Shutdown \/ Closed \/ Reopen \/ Crash
  PROVE  LedgerInv'
<1>1. Billing'
  BY RowsDrop DEF LedgerInv, Shutdown, Closed, Reopen, Crash, Start, hostVars, entryVars, writerVars
<1>2. Queued'
  <2>1. CASE Shutdown \/ Closed
    BY <2>1 DEF LedgerInv, Queued, Removing, Shutdown, Closed, entryVars, writerVars
  <2>2. CASE Reopen \/ Crash
    BY <2>2 DEF LedgerInv, Queued, Removing, Reopen, Crash, Start, entryVars
  <2> QED
    BY <2>1, <2>2
<1> QED
  BY <1>1, <1>2 DEF LedgerInv

LEMMA LedgerStep == LedgerInv /\ [LedgerNext]_ledgerVars => LedgerInv'
<1> SUFFICES ASSUME LedgerInv, [LedgerNext]_ledgerVars PROVE LedgerInv'
  OBVIOUS
<1>1. CASE UNCHANGED ledgerVars
  <2>1. Billing'
    BY <1>1, RowsDrop DEF LedgerInv, ledgerVars, hostVars, entryVars, writerVars
  <2>2. Queued'
    BY <1>1, QueueAlone DEF LedgerInv, ledgerVars, hostVars, entryVars, writerVars, serverVars
  <2> QED
    BY <2>1, <2>2 DEF LedgerInv
<1>2. CASE LedgerNext
  <2>1. CASE \E n \in 0 .. 1 : Tick(n)
    BY <2>1, TickLedger
  <2>2. CASE \E reboot \in BOOLEAN : Restart(reboot)
    BY <2>2, RestartLedger
  <2>3. CASE Toggle \/ NextMonth \/ \E p \in Plan \cup {NoPlan} : SetPlan(p)
    BY <2>3, HostLedger
  <2>4. CASE Sample
    BY <2>4, SampleLedger
  <2>5. CASE MarkDirty \/ SendBarrier
    BY <2>5, MarkLedger
  <2>6. CASE Delete \/ Reconcile \/ Enrol
    BY <2>6, RemoveLedger
  <2>7. CASE Flush
    BY <2>7, FlushLedger
  <2>8. CASE FlushOk
    BY <2>8, FlushOkLedger
  <2>9. CASE FlushFail
    BY <2>9, FlushFailLedger
  <2>10. CASE Load
    BY <2>10, LoadLedger
  <2>11. CASE Shutdown \/ Closed \/ Reopen \/ Crash
    BY <2>11, StopLedger
  <2> QED
    BY <1>2, <2>1, <2>2, <2>3, <2>4, <2>5, <2>6, <2>7, <2>8, <2>9, <2>10, <2>11 DEF LedgerNext
<1> QED
  BY <1>1, <1>2

LEMMA LedgerInvariance == LedgerSpec => []LedgerInv
<1>1. LedgerInit => LedgerInv
  BY LedgerInits
<1>2. LedgerInv /\ [LedgerNext]_ledgerVars => LedgerInv'
  BY LedgerStep
<1> QED
  BY <1>1, <1>2, PTL DEF LedgerSpec

(* Billed: usage, in memory and in the database, is never more than the     *)
(* host has moved, but for what the first baseline was blind to and what an *)
(* older mark lets through, and exactly that while its counter has not      *)
(* restarted; and neither differs from the other without a write on its way *)
(* (history/traffic.rs, history/traffic/counters.rs), for bytes, uptimes    *)
(* and failures without bound.                                              *)
THEOREM Billed == LedgerSpec => []UsageIsBilledOnce
<1>1. LedgerInv => UsageIsBilledOnce
  <2> SUFFICES ASSUME LedgerInv PROVE UsageIsBilledOnce
    OBVIOUS
  <2>1. PICK c \in Nat, u \in Nat, m \in Nat \ {0} : c = host.count /\ u = host.up /\ m = moved
    BY DEF LedgerInv, Billing
  <2>2. NothingBilledTwice
    <3> SUFFICES ASSUME NEW r \in {row, db}, r # NoRow
                 PROVE  /\ r.used <= moved - r.from + r.again
                        /\ ~broken => r.again = r.blind
                        /\ ~broken /\ r.base = host.count => r.used = moved - r.from + r.blind
      BY Zenon DEF NothingBilledTwice
    <3>1. PICK q : q = r
      OBVIOUS
    <3>2. q \in LedgerRow /\ Fits(q, c, u, m) /\ (~broken => Exact(q, u) /\ c = m)
      <4>1. Good(r)
        BY Zenon DEF LedgerInv, Billing
      <4>2. Sound(q, c, u, m, broken) /\ q # NoRow
        BY <2>1, <3>1, <4>1 DEF Good
      <4>3. ~broken => c = m
        BY <2>1 DEF LedgerInv, Billing
      <4> QED
        BY <4>2, <4>3, Zenon DEF Sound
    <3>3. /\ q.used \in Nat /\ q.base \in Nat /\ q.up \in Nat /\ q.mark \in Int /\ q.mark >= -1
          /\ q.from \in Nat /\ q.blind \in Nat /\ q.again \in Nat
      BY <3>2, RowParts DEF None
    <3>4. Delta(q, c, u) \in Nat
      BY <3>3 DEF Delta, BillableDelta, Rebooted, Excess, Larger, Smaller, None
    <3>5. q.used <= m - q.from + q.again
      BY <3>2, <3>3, <3>4 DEF Fits
    <3>6. ~broken => q.again = q.blind /\ (q.base = c => q.used = m - q.from + q.blind)
      BY <3>2, <3>3, <3>5 DEF Exact, None
    <3> QED
      BY <2>1, <3>1, <3>5, <3>6
  <2>3. EveryChangeIsQueued
    BY Kinds DEF LedgerInv, Queued, EveryChangeIsQueued, Behind
  <2> QED
    BY <2>2, <2>3 DEF UsageIsBilledOnce
<1> QED
  BY <1>1, LedgerInvariance, PTL

(* Forgotten: a ledger whose deletion has reported success is in neither    *)
(* place until the node is enrolled again, whatever was queued, under way   *)
(* or put back by a failed flush (TrafficTracker::remove_nodes,             *)
(* collect_dirty_writes).                                                   *)
THEOREM Forgotten == LedgerSpec => []ForgottenStaysForgotten
<1>1. LedgerInv => ForgottenStaysForgotten
  BY DEF LedgerInv, Queued, ForgottenStaysForgotten
<1> QED
  BY <1>1, LedgerInvariance, PTL
==============================================================================
