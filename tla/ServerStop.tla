----------------------------- MODULE ServerStop -----------------------------
(***************************************************************************)
(* How the server keeps what it was told when it stops: the snapshot file  *)
(* of the nodes' states (snapshot.rs), the two queues with a writer task   *)
(* behind them, for history samples and for audit events                   *)
(* (history/writer.rs, audit/writer.rs), and the shutdown that drains them *)
(* under time limits (startup.rs, startup/shutdown.rs).                    *)
(*                                                                         *)
(* A node stands for one enrolment: an id that is enrolled again is        *)
(* another node.  The contents of the live view are counted by `version`,  *)
(* one for each change; `unbumped` changes have not raised the revision    *)
(* that the snapshot task compares.                                        *)
(***************************************************************************)
EXTENDS Integers, FiniteSets, SequencesExt

CONSTANTS
    Enrolment,      \* enrolments
    Session,        \* tasks that report samples and events
    Caller,         \* requests that want the number of the event they record
    QueueCapacity,  \* commands a queue holds
    BatchMax,       \* items a writer collects before it writes
    MaxUpdates,     \* bound: changes of the live view
    MaxItems,       \* bound: items offered to each queue
    MaxFailures,    \* bound: writes that fail
    MaxStops        \* bound: stops and kills of the server

ASSUME StopAssumption ==
    /\ QueueCapacity \in Nat \ {0} /\ BatchMax \in Nat \ {0}
    /\ {MaxUpdates, MaxItems, MaxFailures, MaxStops} \subseteq Nat
    /\ Enrolment \cap {"ticker", "final"} = {}

WriterTask == {"history", "audit"}
Owner == Enrolment \cup {"ticker", "final"}  \* who asks for a snapshot
NoCheckpoint == 0 - 1                       \* no checkpoint yet

VARIABLES
    runPhase,   \* the stage of run_server
    late,       \* the last stop hit the persistence deadline or was a kill
    registered, \* the registry file
    live,       \* the nodes of the shared state
    version,    \* the changes made to them
    unbumped,   \* those whose revision is still to be raised
    file,       \* the snapshot on disk: its nodes and their version
    checkpoint, \* the revision the periodic task saved last
    ticker,     \* the periodic task
    snap,       \* snapshot tasks by owner
    deletion,   \* removals of nodes by the settings handler
    chan,       \* the queues and their writers
    kept,       \* the rows of the two databases, in order
    lost,       \* items whose loss was counted
    offered,    \* items accepted or refused so far
    clone,      \* tasks that hold a sender
    caller,     \* requests in record_and_return_id
    budget

snapVars == <<registered, live, version, unbumped, file, checkpoint, ticker, snap, deletion>>
queueVars == <<chan, kept, lost, offered, clone, caller>>
stopVars == <<runPhase, late, snapVars, queueVars, budget>>

NoView == [nodes |-> {}, version |-> 0]
NoSnap == [at |-> "none", base |-> NoCheckpoint, view |-> NoView]
Queue == [open |-> TRUE, queue |-> <<>>, batch |-> <<>>, at |-> "up", ackTo |-> {}]
NoCall == [at |-> "none", earlier |-> {}]

StopInit ==
    /\ runPhase = "running" /\ late = FALSE
    /\ registered = {} /\ live = {} /\ version = 0 /\ unbumped = 0
    /\ file = NoView /\ checkpoint = NoCheckpoint /\ ticker = "idle"
    /\ snap = [o \in Owner |-> NoSnap]
    /\ deletion = [n \in Enrolment |-> "none"]
    /\ chan = [w \in WriterTask |-> Queue]
    /\ kept = [w \in WriterTask |-> <<>>] /\ lost = [w \in WriterTask |-> {}]
    /\ offered = [w \in WriterTask |-> 0]
    /\ clone = [s \in Session |-> FALSE]
    /\ caller = [c \in Caller |-> NoCall]
    /\ budget \in [changes : {0, MaxUpdates}, items : {0, MaxItems},
                   faults : {MaxFailures}, stops : {MaxStops}]

Up == runPhase # "exited"
Cancelled == runPhase # "running"
Spend(what) == budget[what] > 0 /\ budget' = [budget EXCEPT ![what] = @ - 1]
Revision == version - unbumped

-----------------------------------------------------------------------------
(* The live view: every change of it raises the revision a moment later.   *)

Changed(nodes) ==
    /\ live' = nodes /\ version' = version + 1 /\ unbumped' = unbumped + 1

Register(n) ==
    /\ Up /\ n \notin registered /\ deletion[n] = "none"
    /\ registered' = registered \cup {n}
    /\ UNCHANGED <<runPhase, late, live, version, unbumped, file, checkpoint, ticker, snap, deletion,
                   queueVars, budget>>

Report(n) ==
    /\ Up /\ n \in registered /\ Spend("changes") /\ Changed(live \cup {n})
    /\ UNCHANGED <<runPhase, late, registered, file, checkpoint, ticker, snap, deletion, queueVars>>

RaiseIt ==
    /\ Up /\ unbumped > 0 /\ unbumped' = unbumped - 1
    /\ UNCHANGED <<runPhase, late, registered, live, version, file, checkpoint, ticker, snap,
                   deletion, queueVars, budget>>

\* The removal of a node runs in a task of its own: the registry, the runtime
\* state, then a snapshot, whose failure is logged.
Revoke(n) ==
    /\ Up /\ n \in registered /\ deletion[n] = "none"
    /\ registered' = registered \ {n}
    /\ deletion' = [deletion EXCEPT ![n] = "revoked"]
    /\ UNCHANGED <<runPhase, late, live, version, unbumped, file, checkpoint, ticker, snap,
                   queueVars, budget>>

Forget(n) ==
    /\ Up /\ deletion[n] = "revoked"
    /\ deletion' = [deletion EXCEPT ![n] = "forgotten"]
    /\ IF n \in live THEN Changed(live \ {n}) ELSE UNCHANGED <<live, version, unbumped>>
    /\ snap' = [snap EXCEPT ![n].at = "queued"]
    /\ UNCHANGED <<runPhase, late, registered, file, checkpoint, ticker, queueVars, budget>>

Removed(n) ==
    /\ Up /\ deletion[n] = "forgotten" /\ snap[n].at \in {"ok", "failed"}
    /\ deletion' = [deletion EXCEPT ![n] = IF snap[n].at = "ok" THEN "saved" ELSE "unsaved"]
    /\ snap' = [snap EXCEPT ![n] = NoSnap]
    /\ UNCHANGED <<runPhase, late, registered, live, version, unbumped, file, checkpoint, ticker,
                   queueVars, budget>>

-----------------------------------------------------------------------------
(* persist_current_snapshot: a task that outlives whoever asked for it and *)
(* reads the view under the lock that it also writes under.                *)

Holds(o) == snap[o].at \in {"listing", "writing"}

ReadsFirst(o) == TRUE
MayRead(o) == \A other \in Owner : ~Holds(other)

Lock(o) ==
    /\ Up /\ snap[o].at = "queued" /\ MayRead(o)
    /\ snap' = [snap EXCEPT ![o].at = "listing", ![o].base = Revision]
    /\ UNCHANGED <<runPhase, late, registered, live, version, unbumped, file, checkpoint, ticker,
                   deletion, queueVars, budget>>

List(o) ==
    /\ Up /\ snap[o].at = "listing"
    /\ snap' = [snap EXCEPT ![o].at = "writing",
                            ![o].view = [nodes |-> live, version |-> version]]
    /\ UNCHANGED <<runPhase, late, registered, live, version, unbumped, file, checkpoint, ticker,
                   deletion, queueVars, budget>>

Persist(o) ==
    /\ Up /\ snap[o].at = "writing"
    /\ \/ /\ file' = snap[o].view /\ snap' = [snap EXCEPT ![o].at = "ok"]
          /\ UNCHANGED budget
       \/ /\ Spend("faults") /\ snap' = [snap EXCEPT ![o].at = "failed"]
          /\ UNCHANGED file
    /\ UNCHANGED <<runPhase, late, registered, live, version, unbumped, checkpoint, ticker,
                   deletion, queueVars>>

\* The revision that counts as saved is the one read before the view.
LatestRevision(o) == Revision
SavedRevision(o) == snap[o].base

SnapshotTick ==
    /\ Up /\ ticker = "idle" /\ checkpoint # Revision
    /\ ticker' = "waiting" /\ snap' = [snap EXCEPT !["ticker"].at = "queued"]
    /\ UNCHANGED <<runPhase, late, registered, live, version, unbumped, file, checkpoint, deletion,
                   queueVars, budget>>

Ticked ==
    /\ Up /\ ticker = "waiting" /\ snap["ticker"].at \in {"ok", "failed"}
    /\ ticker' = "idle"
    /\ checkpoint' = IF snap["ticker"].at = "ok" THEN SavedRevision("ticker") ELSE checkpoint
    /\ snap' = [snap EXCEPT !["ticker"] = NoSnap]
    /\ UNCHANGED <<runPhase, late, registered, live, version, unbumped, file, deletion,
                   queueVars, budget>>

TickerEnds ==
    /\ Up /\ Cancelled /\ ticker = "idle" /\ ticker' = "gone"
    /\ UNCHANGED <<runPhase, late, registered, live, version, unbumped, file, checkpoint, snap,
                   deletion, queueVars, budget>>

-----------------------------------------------------------------------------
(* The queues.  A command is an item or a request to flush.                *)

Item(i) == [kind |-> "item", id |-> i]
FlushFor(c) == [kind |-> "flush", by |-> c]
Items(cmds) == {cmds[k].id : k \in {j \in DOMAIN cmds : cmds[j].kind = "item"}}
Pending(w) == Items(chan[w].queue) \cup ToSet(chan[w].batch)
Next(w) == offered[w] + 1
HasRoom(w) == Len(chan[w].queue) < QueueCapacity
Send(w, cmd) == chan' = [chan EXCEPT ![w].queue = Append(@, cmd)]

\* try_send: a full queue refuses the item, and the refusal is counted.
Offer(w) ==
    /\ Spend("items")
    /\ offered' = [offered EXCEPT ![w] = @ + 1]
    /\ IF HasRoom(w)
       THEN Send(w, Item(Next(w))) /\ UNCHANGED lost
       ELSE lost' = [lost EXCEPT ![w] = @ \cup {Next(w)}] /\ UNCHANGED chan

\* record_status clones the sender, then waits for the mutex of the write interval.
TakeSender(s) ==
    /\ Up /\ ~clone[s] /\ chan["history"].open
    /\ clone' = [clone EXCEPT ![s] = TRUE]
    /\ UNCHANGED <<runPhase, late, snapVars, chan, kept, lost, offered, caller, budget>>

RecordStatus(s) ==
    /\ Up /\ clone[s] /\ clone' = [clone EXCEPT ![s] = FALSE]
    /\ \/ Offer("history")
       \/ UNCHANGED <<chan, lost, offered, budget>>  \* within the interval, or no snapshot
    /\ UNCHANGED <<runPhase, late, snapVars, kept, caller>>

\* An audit event is sent under the read lock of the sender.
RecordEvent ==
    /\ Up /\ chan["audit"].open /\ Offer("audit")
    /\ UNCHANGED <<runPhase, late, snapVars, kept, clone, caller>>

\* record_and_return_id flushes the queue and then inserts its event itself; once
\* the sender is gone it inserts without a flush.
Call(c) ==
    /\ Up /\ caller[c].at = "none"
    /\ caller' = [caller EXCEPT ![c] =
           IF chan["audit"].open THEN [at |-> "send", earlier |-> Pending("audit")]
           ELSE [at |-> "insert", earlier |-> {}]]
    /\ UNCHANGED <<runPhase, late, snapVars, chan, kept, lost, offered, clone, budget>>

SendFlush(c) ==
    /\ Up /\ caller[c].at = "send" /\ HasRoom("audit")
    /\ Send("audit", FlushFor(c))
    /\ caller' = [caller EXCEPT ![c].at = "ack"]
    /\ UNCHANGED <<runPhase, late, snapVars, kept, lost, offered, clone, budget>>

Insert(c) ==
    /\ Up /\ caller[c].at = "insert" /\ chan["audit"].at # "writing"
    /\ \/ /\ Spend("items")
          /\ offered' = [offered EXCEPT !["audit"] = @ + 1]
          /\ kept' = [kept EXCEPT !["audit"] = Append(@, Next("audit"))]
       \/ UNCHANGED <<kept, offered, budget>>  \* the insert fails and the caller is told
    /\ caller' = [caller EXCEPT ![c] = NoCall]
    /\ UNCHANGED <<runPhase, late, snapVars, chan, lost, clone>>

-----------------------------------------------------------------------------
(* The writer tasks: run_history_writer and run_audit_writer.              *)

Acked(calls, cs) == [c \in Caller |-> IF c \in cs THEN [calls[c] EXCEPT !.at = "insert"]
                                      ELSE calls[c]]

AcksAtOnce(q) == TRUE
MayAck(q) == q.batch = <<>>

TakeCommand(w) ==
    /\ Up /\ chan[w].at = "up" /\ chan[w].queue # <<>>
    /\ LET q == chan[w]
           cmd == Head(q.queue)
           rest == [q EXCEPT !.queue = Tail(@)]
           more == Append(q.batch, cmd.id)
       IN \/ /\ cmd.kind = "item"
             /\ chan' = [chan EXCEPT ![w] =
                    [rest EXCEPT !.batch = more,
                                 !.at = IF Len(more) >= BatchMax THEN "writing" ELSE "up"]]
             /\ UNCHANGED caller
          \/ /\ cmd.kind = "flush" /\ MayAck(q)
             /\ chan' = [chan EXCEPT ![w] = rest]
             /\ caller' = Acked(caller, {cmd.by})
          \/ /\ cmd.kind = "flush" /\ ~MayAck(q)
             /\ chan' = [chan EXCEPT ![w] = [rest EXCEPT !.at = "writing", !.ackTo = {cmd.by}]]
             /\ UNCHANGED caller
    /\ UNCHANGED <<runPhase, late, snapVars, kept, lost, offered, clone, budget>>

FlushTimer(w) ==
    /\ Up /\ chan[w].at = "up" /\ chan[w].queue = <<>> /\ chan[w].batch # <<>>
    /\ chan' = [chan EXCEPT ![w].at = "writing"]
    /\ UNCHANGED <<runPhase, late, snapVars, kept, lost, offered, clone, caller, budget>>

\* One transaction for the batch: it is all there, or lost and counted.
Written(w) ==
    /\ Up /\ chan[w].at = "writing"
    /\ \/ kept' = [kept EXCEPT ![w] = @ \o chan[w].batch] /\ UNCHANGED <<lost, budget>>
       \/ /\ Spend("faults")
          /\ lost' = [lost EXCEPT ![w] = @ \cup ToSet(chan[w].batch)]
          /\ UNCHANGED kept
    /\ chan' = [chan EXCEPT ![w].batch = <<>>, ![w].at = "up", ![w].ackTo = {}]
    /\ caller' = Acked(caller, chan[w].ackTo)
    /\ UNCHANGED <<runPhase, late, snapVars, offered, clone>>

\* recv returns None when the senders are gone, clones included, and the queue
\* is empty; what is left in the batch is written first.
Senders(w) ==
    \/ chan[w].open
    \/ w = "history" /\ \E s \in Session : clone[s]
    \/ w = "audit" /\ \E c \in Caller : caller[c].at = "send"

LeavesBatch(w) == TRUE
MayEnd(w) == chan[w].batch = <<>>

WriterEnds(w) ==
    /\ Up /\ chan[w].at = "up" /\ ~Senders(w) /\ chan[w].queue = <<>>
    /\ chan' = [chan EXCEPT ![w].at = IF MayEnd(w) THEN "gone" ELSE "writing"]
    /\ UNCHANGED <<runPhase, late, snapVars, kept, lost, offered, clone, caller, budget>>

-----------------------------------------------------------------------------
(* Shutdown.                                                               *)

Reached(p) == runPhase' = p /\ UNCHANGED <<late, queueVars>>

\* A signal, or the end of the HTTP server, cancels everything.
Signal ==
    /\ runPhase = "running" /\ Spend("stops") /\ Reached("http") /\ UNCHANGED snapVars

\* The connections have ended, or their 3 seconds are over.
HttpEnds == runPhase = "http" /\ Reached("draining") /\ UNCHANGED <<snapVars, budget>>

\* The background tasks have ended, or their 5 seconds are over and they are aborted:
\* a snapshot task that one of them waits for goes on.
Drained ==
    /\ runPhase = "draining" /\ Reached("snapshot")
    /\ ticker' = "gone"
    /\ snap' = [snap EXCEPT !["final"].at = "queued"]
    /\ UNCHANGED <<registered, live, version, unbumped, file, checkpoint, deletion, budget>>

Closes(p, w) ==
    /\ runPhase' = p /\ chan' = [chan EXCEPT ![w].open = FALSE]
    /\ UNCHANGED <<late, snapVars, kept, lost, offered, clone, caller, budget>>

FinalSnapshot ==
    /\ runPhase = "snapshot" /\ snap["final"].at \in {"ok", "failed"} /\ Closes("history", "history")

HistoryDrained == runPhase = "history" /\ chan["history"].at = "gone" /\ Closes("audit", "audit")

\* The process ends: what runs in its tasks is dropped, a write that has begun may
\* still be finished.
Ends(l) ==
    /\ runPhase' = "exited" /\ late' = l
    /\ \/ UNCHANGED file
       \/ \E o \in Owner : snap[o].at = "writing" /\ file' = snap[o].view
    /\ kept' \in {[w \in WriterTask |-> IF w \in done THEN kept[w] \o chan[w].batch ELSE kept[w]] :
                      done \in SUBSET {w \in WriterTask : chan[w].at = "writing"}}
    /\ ticker' = "gone" /\ snap' = [o \in Owner |-> NoSnap]
    /\ deletion' = [n \in Enrolment |-> IF deletion[n] \in {"revoked", "forgotten"} THEN "unsaved"
                                   ELSE deletion[n]]
    /\ clone' = [s \in Session |-> FALSE] /\ caller' = [c \in Caller |-> NoCall]
    /\ UNCHANGED <<registered, live, version, unbumped, checkpoint, chan, lost, offered>>

AuditDrained ==
    /\ runPhase = "audit" /\ chan["audit"].at = "gone" /\ Ends(FALSE) /\ UNCHANGED budget

\* The 4 seconds of finish_persistence are over.
PersistenceDeadline ==
    /\ runPhase \in {"snapshot", "history", "audit"} /\ Ends(TRUE) /\ UNCHANGED budget

Kill == Up /\ Spend("stops") /\ Ends(TRUE)

\* restore_snapshot_if_available keeps the nodes that are registered.
StartAgain ==
    /\ runPhase = "exited" /\ runPhase' = "running"
    /\ live' = file.nodes \cap registered
    /\ version' = file.version /\ unbumped' = 0 /\ checkpoint' = NoCheckpoint /\ ticker' = "idle"
    /\ chan' = [w \in WriterTask |-> Queue]
    /\ lost' = [w \in WriterTask |-> 1 .. offered[w] \ ToSet(kept[w])]
    /\ UNCHANGED <<late, registered, file, snap, deletion, kept, offered, clone, caller, budget>>

StopNext ==
    \/ \E n \in Enrolment : Register(n) \/ Report(n) \/ Revoke(n) \/ Forget(n) \/ Removed(n)
    \/ \E o \in Owner : Lock(o) \/ List(o) \/ Persist(o)
    \/ RaiseIt \/ SnapshotTick \/ Ticked \/ TickerEnds
    \/ \E s \in Session : TakeSender(s) \/ RecordStatus(s)
    \/ RecordEvent
    \/ \E c \in Caller : Call(c) \/ SendFlush(c) \/ Insert(c)
    \/ \E w \in WriterTask : TakeCommand(w) \/ FlushTimer(w) \/ Written(w) \/ WriterEnds(w)
    \/ Signal \/ HttpEnds \/ Drained \/ FinalSnapshot \/ HistoryDrained \/ AuditDrained
    \/ PersistenceDeadline \/ Kill \/ StartAgain

StopSpec == StopInit /\ [][StopNext]_stopVars

-----------------------------------------------------------------------------
StopTypeOK ==
    /\ runPhase \in {"running", "http", "draining", "snapshot", "history", "audit", "exited"}
    /\ late \in BOOLEAN /\ registered \cup live \subseteq Enrolment
    /\ unbumped \in 0 .. version /\ version \in 0 .. MaxUpdates * 2
    /\ file.nodes \subseteq Enrolment /\ checkpoint \in NoCheckpoint .. version
    /\ ticker \in {"idle", "waiting", "gone"}
    /\ \A o \in Owner : snap[o].at \in {"none", "queued", "listing", "writing", "ok", "failed"}
    /\ Cardinality({o \in Owner : Holds(o)}) <= 1
    /\ \A n \in Enrolment : deletion[n] \in {"none", "revoked", "forgotten", "saved", "unsaved"}
    /\ \A w \in WriterTask :
         /\ Len(chan[w].queue) <= QueueCapacity /\ Len(chan[w].batch) <= BatchMax
         /\ chan[w].at \in {"up", "writing", "gone"}
         /\ chan[w].at = "gone" => ~chan[w].open

\* A node whose removal has been saved never comes back with the snapshot, whichever
\* older snapshot tasks are still about, and through stops, aborted tasks, deadlines and
\* restarts.  And the periodic task skips a tick (its checkpoint is the revision) only if
\* the file has every change whose revision was raised.
SnapshotsNeverGoBack ==
    /\ \A n \in Enrolment : deletion[n] = "saved" => n \notin file.nodes
    /\ Up /\ checkpoint = Revision /\ unbumped = 0 => file = [nodes |-> live, version |-> version]

\* Every sample and every event that was offered to its queue is in the queue, in the batch
\* or in the database, or its loss has been counted; after a shutdown that kept its
\* deadlines, none is left in memory.
AcceptedIsAccounted ==
    \A w \in WriterTask :
      LET there == ToSet(kept[w]) \cup lost[w]
      IN /\ ~late \/ Up => 1 .. offered[w] \subseteq there \cup Pending(w)
         /\ runPhase = "exited" /\ ~late => 1 .. offered[w] \subseteq there

\* An event recorded for its number (the last login is found by it) is inserted after every
\* event that was queued when its request came: each is in the database or counted as lost.
LoginsFollowEarlierEvents ==
    \A c \in Caller : caller[c].at = "insert" => caller[c].earlier \cap Pending("audit") = {}

(* What a queue has accepted: accounted for to the end, and in order       *)
(* where a login waits for it (audit/log.rs, history.rs).                  *)
AcceptedIsKept == AcceptedIsAccounted /\ LoginsFollowEarlierEvents
=============================================================================
