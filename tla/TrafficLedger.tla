---------------------------- MODULE TrafficLedger ----------------------------
(***************************************************************************)
(* The monthly traffic ledger of one node (server: history/traffic.rs,     *)
(* history/traffic/counters.rs): the host's byte counter, the row in       *)
(* memory with its baseline, the writer that persists it and retries, the  *)
(* load at startup, crashes, and the removal of a node's ledger.           *)
(*                                                                         *)
(* One direction of one interface is modelled: receive and transmit are    *)
(* advanced alike.  So the case of a host of which only some interfaces    *)
(* come back does not arise (docs/traffic-accounting.md lists it as a      *)
(* known limitation), nor do rows written before uptimes were stored.  The *)
(* bound on plausible jumps, which makes the code bill less, is left out.  *)
(* Nodes share the writer's transaction and nothing else.                  *)
(***************************************************************************)
EXTENDS Integers

CONSTANTS
  Plan,       \* accounting settings (TrafficAccounting)
  NoPlan,     \* no quota configured
  Hold,       \* COUNTER_REGRESSION_HOLD_SECS, in ticks
  MaxBytes,   \* bound: bytes the host ever moves
  MaxUptime,  \* bound: uptime in ticks
  MaxMonth,   \* bound: last month
  MaxEvents   \* bound: outages, restarts, changes of plan, deletions and failures

ASSUME LedgerAssumption ==
  /\ NoPlan \notin Plan
  /\ Hold \in Nat /\ MaxBytes \in Nat /\ MaxUptime \in Nat /\ MaxMonth \in Nat
  /\ MaxEvents \in Nat

VARIABLES
  host,       \* count, shown, up: the counter, whether its interface is there, uptime
  moved,      \* bytes the host has moved: what usage is measured against
  broken,     \* the counter has restarted: some bytes cannot be accounted
  month, plan, enrolled,  \* the calendar, and the node's entry in the registry
  row,        \* TrafficTracker.state
  dirty,      \* TrafficTracker.dirty has the node
  pending,    \* what the writer holds for the node
  writer,     \* "off", "idle" or "flushing"
  barrier,    \* the flush somebody waits for: "none", "sent" or "taken"
  db,         \* the committed row
  phase,      \* "loading", "open" (writer_tx is there), "closing" or "down"
  recovered,  \* recovered_after_startup, or the cleanup of the startup itself
  op,         \* the holder of traffic_lifecycle_lock
  forgotten,  \* the last deletion has reported success
  events      \* how many of them there were

hostVars == <<host, moved, broken>>
entryVars == <<month, plan, enrolled>>
writerVars == <<dirty, pending, writer, barrier, db>>
serverVars == <<phase, recovered, op, forgotten>>
ledgerVars == <<hostVars, entryVars, row, writerVars, serverVars, events>>

-----------------------------------------------------------------------------
None == -1
NoRow == [kind |-> "none"]
Nothing == [kind |-> "nothing"]
(* A first baseline.  Usage begins at "from"; what the counter of an absent *)
(* interface holds then is "blind": it is billed when the interface comes. *)
Row(m, p, base, up, from, blind) ==
  [kind |-> "row", month |-> m, plan |-> p, used |-> 0, base |-> base, up |-> up,
   mark |-> None, since |-> None, from |-> from, blind |-> blind, again |-> blind]

Larger(a, b) == IF a > b THEN a ELSE b
Smaller(a, b) == IF a < b THEN a ELSE b
Excess(a, b) == Larger(a - b, 0)

Reading == IF host.shown THEN host.count ELSE 0

(* CounterBaseline::advance: the row after a sample and what it bills.     *)
(* billable_delta: a counter that is back at its old mark bills only what  *)
(* is above it.                                                            *)
BillsAll(r, base, mark) == Excess(r, base)
BillableDelta(r, base, mark) ==
  IF mark # None /\ r >= mark THEN Smaller(Excess(r, base), r - mark) ELSE Excess(r, base)

Rebooted(b, up) == up < b.up
Regressed(b, r) == r < b.base
HoldSince(b, up) == IF b.since = None THEN up ELSE b.since
Rebases(b, r, up) ==
  Regressed(b, r) /\ (Rebooted(b, up) \/ Excess(up, HoldSince(b, up)) >= Hold)

KeptMark(b, r, up) ==
  IF Rebooted(b, up) \/ (b.mark # None /\ r >= b.mark) THEN None ELSE b.mark

Delta(b, r, up) ==
  BillableDelta(r, b.base, IF Rebooted(b, up) THEN None ELSE b.mark)

(* What a baseline that is lowered while an older mark stands gives up: the *)
(* bytes below it are billed again if the counter comes back to them, as   *)
(* the mark above them stays where it is.  "again" adds them up, from    *)
(* what the first baseline was blind to.                                   *)
Reopened(b, r, up) ==
  IF Rebases(b, r, up) /\ ~Rebooted(b, up) /\ KeptMark(b, r, up) # None
    THEN b.base - r ELSE 0

Advance(b, r, up) ==
  [b EXCEPT
     !.up = up,
     !.base = IF Rebases(b, r, up) THEN r ELSE Larger(@, r),
     !.mark = IF Rebases(b, r, up) /\ ~Rebooted(b, up)
                THEN Larger(KeptMark(b, r, up), b.base) ELSE KeptMark(b, r, up),
     !.since = IF ~Regressed(b, r) \/ Rebases(b, r, up) THEN None ELSE HoldSince(b, up),
     !.again = @ + Reopened(b, r, up)]

(* record: a new month or accounting starts over, still from the advanced  *)
(* baseline; "from" remembers where in "moved" the usage began.            *)
Charged(b, r, up) ==
  LET a == Advance(b, r, up)
      d == Delta(b, r, up)
  IN IF b.month # month \/ b.plan # plan
       THEN [a EXCEPT !.month = month, !.plan = plan, !.used = 0, !.from = @ + b.used + d]
       ELSE [a EXCEPT !.used = @ + d]

(* A row as a restart restores it: the hold window is not persisted.       *)
Restored(r) == IF r = NoRow THEN NoRow ELSE [r EXCEPT !.since = None]

-----------------------------------------------------------------------------
LedgerInit ==
  /\ host = [count |-> 1, shown |-> TRUE, up |-> 0]
  /\ moved = 1 /\ broken = FALSE
  /\ month = 0 /\ plan \in Plan /\ enrolled = TRUE
  /\ row = NoRow /\ dirty = FALSE /\ pending = Nothing
  /\ writer = "off" /\ barrier = "none" /\ db = NoRow
  /\ phase = "loading" /\ recovered = TRUE /\ op = "idle" /\ forgotten = FALSE
  /\ events = 0

-----------------------------------------------------------------------------
(* The host and the calendar.                                              *)
Event == events < MaxEvents /\ events' = events + 1

Tick(n) ==
  /\ host.up < MaxUptime /\ moved + n <= MaxBytes
  /\ n = 0 \/ host.shown
  /\ host' = [host EXCEPT !.up = @ + 1, !.count = @ + n]
  /\ moved' = moved + n
  /\ UNCHANGED <<broken, entryVars, row, writerVars, serverVars, events>>

(* The interface goes away or returns with its counter.                    *)
Toggle ==
  /\ Event
  /\ host' = [host EXCEPT !.shown = ~@]
  /\ UNCHANGED <<moved, broken, entryVars, row, writerVars, serverVars>>

(* The host reboots, or its counter restarts although the host does not.   *)
Restart(reboot) ==
  /\ Event
  /\ host.up > 0 /\ host.count > 0
  /\ host' = [count |-> 0, shown |-> TRUE, up |-> IF reboot THEN 0 ELSE host.up]
  /\ broken' = TRUE
  /\ UNCHANGED <<moved, entryVars, row, writerVars, serverVars>>

NextMonth ==
  /\ Event
  /\ month < MaxMonth
  /\ month' = month + 1
  /\ UNCHANGED <<hostVars, plan, enrolled, row, writerVars, serverVars>>

SetPlan(p) ==
  /\ Event
  /\ enrolled /\ p # plan
  /\ plan' = p
  /\ UNCHANGED <<hostVars, month, enrolled, row, writerVars, serverVars>>

-----------------------------------------------------------------------------
(* A metrics frame, under the lifecycle lock.  The node is put into the    *)
(* dirty set only after its row has been changed and unlocked.             *)
Sample ==
  /\ op = "idle" /\ phase = "open"
  /\ IF enrolled /\ plan # NoPlan
       THEN row' = IF row = NoRow
                     THEN Row(month, plan, Reading, host.up, moved, host.count - Reading)
                     ELSE Charged(row, Reading, host.up)
       ELSE row # NoRow /\ row' = NoRow
  /\ op' = "marking"
  /\ UNCHANGED <<hostVars, entryVars, writerVars, phase, recovered, forgotten, events>>

MarkDirty ==
  /\ op = "marking"
  /\ dirty' = TRUE
  /\ op' = "idle"
  /\ UNCHANGED <<hostVars, entryVars, row, pending, writer, barrier, db, phase, recovered,
                 forgotten, events>>

-----------------------------------------------------------------------------
(* remove_nodes, for a deletion or a reconciliation: the row is dropped,   *)
(* the node marked, and the writer asked to flush at once.                 *)

Delete ==
  /\ Event
  /\ op = "idle" /\ enrolled
  /\ enrolled' = FALSE
  /\ IF phase = "open" THEN row' = NoRow /\ op' = "deleting" ELSE UNCHANGED <<row, op>>
  /\ UNCHANGED <<hostVars, month, plan, writerVars, phase, recovered, forgotten>>

Enrol ==
  /\ ~enrolled /\ op = "idle"
  /\ enrolled' = TRUE /\ forgotten' = FALSE
  /\ UNCHANGED <<hostVars, month, plan, row, writerVars, phase, recovered, op, events>>

(* The poller, or the startup: reconcile_traffic.                          *)
Reconcile ==
  /\ op = "idle" /\ phase = "open" /\ recovered
  /\ recovered' = FALSE
  /\ IF enrolled \/ row = NoRow THEN UNCHANGED <<row, op>>
     ELSE row' = NoRow /\ op' = "reconciling"
  /\ UNCHANGED <<hostVars, entryVars, writerVars, phase, forgotten, events>>

SendBarrier ==
  /\ op \in {"deleting", "reconciling"} /\ barrier = "none"
  /\ phase = "open"
  /\ dirty' = TRUE /\ barrier' = "sent"
  /\ UNCHANGED <<hostVars, entryVars, row, pending, writer, db, serverVars, events>>

-----------------------------------------------------------------------------
(* The writer.  collect_dirty_writes resolves a marked node to its present *)
(* state, which replaces whatever is still pending for it.                 *)
Current == IF row = NoRow THEN [kind |-> "delete"] ELSE [kind |-> "upsert", row |-> row]
CollectsOlder == IF dirty /\ pending = Nothing THEN Current ELSE pending
Collected == IF dirty THEN Current ELSE pending

Flush ==
  /\ writer = "idle"
  /\ barrier = "sent" \/ dirty \/ pending # Nothing
  /\ dirty' = FALSE /\ pending' = Collected
  /\ writer' = "flushing"
  /\ barrier' = IF barrier = "sent" THEN "taken" ELSE barrier
  /\ UNCHANGED <<hostVars, entryVars, row, db, serverVars, events>>

(* The answer to a barrier releases the lock; a failed reconciliation is   *)
(* tried again.                                                            *)
Answered(ok) ==
  IF barrier # "taken" THEN UNCHANGED <<barrier, op, forgotten, recovered>>
  ELSE /\ barrier' = "none" /\ op' = "idle"
       /\ forgotten' = (forgotten \/ (ok /\ op = "deleting"))
       /\ recovered' = (recovered \/ (~ok /\ op = "reconciling"))

FlushOk ==
  /\ writer = "flushing"
  /\ db' = CASE pending = Nothing -> db
             [] pending.kind = "delete" -> NoRow
             [] OTHER -> pending.row
  /\ pending' = Nothing
  /\ writer' = IF phase = "closing" /\ ~dirty THEN "off" ELSE "idle"
  /\ Answered(TRUE)
  /\ UNCHANGED <<hostVars, entryVars, row, dirty, phase, events>>

DropsPending == Nothing
Unflushed == pending

FlushFail ==
  /\ writer = "flushing"
  /\ Event
  /\ pending' = Unflushed
  /\ writer' = IF phase = "closing" THEN "off" ELSE "idle"
  /\ Answered(FALSE)
  /\ UNCHANGED <<hostVars, entryVars, row, dirty, db, phase>>

-----------------------------------------------------------------------------
(* initialize, at startup and again after a failure.                       *)

Load ==
  /\ phase = "loading"
  /\ phase' = "open" /\ writer' = "idle"
  /\ row' = Restored(db)
  /\ recovered' = TRUE
  /\ UNCHANGED <<hostVars, entryVars, dirty, pending, barrier, db, op, forgotten, events>>

(* Shutdown drops the sender: the writer drains what is marked and ends.   *)
Shutdown ==
  /\ Event
  /\ phase = "open" /\ op = "idle"
  /\ phase' = "closing"
  /\ UNCHANGED <<hostVars, entryVars, row, writerVars, recovered, op, forgotten>>

Closed ==
  /\ phase = "closing"
  /\ writer = "off" \/ (writer = "idle" /\ ~dirty /\ pending = Nothing)
  /\ phase' = "down" /\ writer' = "off"
  /\ UNCHANGED <<hostVars, entryVars, row, dirty, pending, barrier, db, recovered, op,
                 forgotten, events>>

(* The server stops, in order or not, and starts again.                    *)
Start ==
  /\ phase' = "loading" /\ recovered' = TRUE /\ op' = "idle"
  /\ row' = NoRow /\ dirty' = FALSE /\ pending' = Nothing
  /\ writer' = "off" /\ barrier' = "none"
  /\ UNCHANGED <<hostVars, entryVars, db, forgotten>>

Reopen == phase = "down" /\ Start /\ UNCHANGED events

Crash ==
  /\ phase # "down"
  /\ Event
  /\ Start

-----------------------------------------------------------------------------
LedgerNext ==
  \/ \E n \in 0..1 : Tick(n)
  \/ \E reboot \in BOOLEAN : Restart(reboot)
  \/ \E p \in Plan \cup {NoPlan} : SetPlan(p)
  \/ Toggle \/ NextMonth
  \/ Sample \/ MarkDirty
  \/ Delete \/ Enrol \/ Reconcile \/ SendBarrier
  \/ Flush \/ FlushOk \/ FlushFail
  \/ Load \/ Shutdown \/ Closed \/ Reopen \/ Crash

LedgerSpec == LedgerInit /\ [][LedgerNext]_ledgerVars

-----------------------------------------------------------------------------
RowOK(r) ==
  r = NoRow \/ /\ r.kind = "row" /\ r.month \in 0..MaxMonth /\ r.plan \in Plan
               /\ r.used \in 0..2 * MaxBytes /\ r.base \in 0..MaxBytes
               /\ r.up \in 0..MaxUptime /\ r.mark \in -1..MaxBytes
               /\ r.since \in -1..MaxUptime /\ r.from \in 0..2 * MaxBytes
               /\ r.blind \in 0..MaxBytes /\ r.again \in 0..2 * MaxBytes

LedgerTypeOK ==
  /\ RowOK(row) /\ RowOK(db)
  /\ moved \in 0..MaxBytes /\ host.count \in 0..MaxBytes /\ host.up \in 0..MaxUptime
  /\ writer \in {"off", "idle", "flushing"}
  /\ op \in {"idle", "marking", "deleting", "reconciling"}
  /\ phase \in {"loading", "open", "closing", "down"}

(* NothingBilledTwice: usage never exceeds what the host has moved since   *)
(* it began, but for two things the code cannot tell from new traffic:     *)
(* what the counter held when the first baseline was taken with its        *)
(* interface away, and the bytes of a baseline that was lowered below an   *)
(* older mark, which only a counter that has restarted can meet.  While it *)
(* has not, usage is exact at a full reading: later outages of the         *)
(* interface, short or long, crashes of the server before a flush and new  *)
(* months neither repeat nor lose bytes                                    *)
(* (docs/traffic-accounting.md; the message at the writer's shutdown).     *)
NothingBilledTwice ==
  \A r \in {row, db} \ {NoRow} :
    /\ r.used <= moved - r.from + r.again
    /\ ~broken => r.again = r.blind
    /\ ~broken /\ r.base = host.count => r.used = moved - r.from + r.blind

(* EveryChangeIsQueued: the database is behind memory only while the       *)
(* difference is marked, pending, or about to be marked (the dirty set is  *)
(* resolved when it is written; a failed flush keeps its content).         *)
Behind == Restored(row) # Restored(db)
EveryChangeIsQueued ==
  phase = "open" /\ Behind => dirty \/ pending # Nothing \/ op # "idle"

(* Usage, in memory and in the database: never counted twice, and never    *)
(* different without a write that is on its way (history/traffic.rs).      *)
UsageIsBilledOnce == NothingBilledTwice /\ EveryChangeIsQueued

(* ForgottenStaysForgotten: once a deletion has reported success the       *)
(* node's ledger is in neither place until it is enrolled again, whatever  *)
(* was queued before, and over restarts (docs/traffic-accounting.md:       *)
(* earlier queued updates cannot overwrite the deletion).                  *)
ForgottenStaysForgotten == forgotten /\ ~enrolled => row = NoRow /\ db = NoRow
===============================================================================
