---------------------------- MODULE LiveStateProofs ----------------------------
(***************************************************************************)
(* What becomes of the live state of the nodes, for any number of them.    *)
(* The snapshot file and the two queues of a server that stops, is killed  *)
(* and starts again (ServerStop): the file never goes back behind a        *)
(* removal or a checkpoint, and what the queues have accepted is kept or   *)
(* counted.  What browsers are shown of it (BrowserViews): a page never    *)
(* goes back, and once all is quiet it shows every listed node as it is.   *)
(***************************************************************************)
EXTENDS ServerStop, BrowserViews, TLAPS

----------------------------------------------------------------------------
(* The snapshot file.                                                       *)

View == [nodes : SUBSET Enrolment, version : Nat]
Stage == {"none", "queued", "listing", "writing", "ok", "failed"}

Types ==
  /\ registered \in SUBSET Enrolment /\ live \in SUBSET Enrolment
  /\ version \in Nat /\ unbumped \in 0 .. version
  /\ file \in View /\ checkpoint \in Int
  /\ snap \in [Owner -> [at : Stage, base : Int, view : View]]
  /\ deletion \in [Enrolment -> {"none", "revoked", "forgotten", "saved", "unsaved"}]

(* A node that is being removed is out of the registry, then of the view.  *)
Removals ==
  \A n \in Enrolment :
    /\ deletion[n] # "none" => n \notin registered
    /\ deletion[n] \in {"forgotten", "saved"} => n \notin live
    /\ snap[n].at # "none" => deletion[n] = "forgotten"
    /\ snap[n].at = "writing" => n \notin snap[n].view.nodes

(* Once a removal is in the file no snapshot under way brings it back.     *)
Gone(n) ==
  /\ n \notin file.nodes
  /\ \A o \in Owner : snap[o].at = "writing" => n \notin snap[o].view.nodes

Saved == \A n \in Enrolment : deletion[n] = "saved" \/ snap[n].at = "ok" => Gone(n)

(* One task at a time reads the view and writes the file.                  *)
Locked == \A o, p \in Owner : Holds(o) /\ Holds(p) => o = p

(* A view of the present version has the present nodes.                    *)
Recent(view) == view.version = version => view.nodes = live

(* What is being written is not older than the file or its revision.       *)
Newest ==
  /\ file.version <= version
  /\ \A o \in Owner :
       /\ snap[o].at = "listing" => snap[o].base <= version
       /\ snap[o].at = "writing" =>
            /\ snap[o].base <= snap[o].view.version
            /\ file.version <= snap[o].view.version
            /\ snap[o].view.version <= version
            /\ Recent(snap[o].view)

(* What the periodic task takes for saved is in the file, and the file was *)
(* then written by this server: the one a server starts from may have its  *)
(* version and other nodes.                                                *)
Checkpoint ==
  /\ ~Up => \A o \in Owner : snap[o].at = "none"
  /\ snap["ticker"].at = "ok" => snap["ticker"].base <= file.version /\ Recent(file)
  /\ checkpoint # NoCheckpoint => checkpoint <= file.version /\ Recent(file)

SnapshotInv == Types /\ Removals /\ Saved /\ Locked /\ Newest /\ Checkpoint

LEMMA Owners ==
  /\ "ticker" \in Owner /\ "final" \in Owner /\ Enrolment \subseteq Owner
  /\ "ticker" \notin Enrolment /\ "final" \notin Enrolment
  /\ NoView \in View /\ NoSnap \in [at : Stage, base : Int, view : View]
BY StopAssumption DEF Owner, NoView, NoSnap, View, Stage, NoCheckpoint

LEMMA SnapshotInit == StopInit => SnapshotInv
<1> SUFFICES ASSUME StopInit PROVE SnapshotInv
  OBVIOUS
<1> USE Owners DEF StopInit
<1>1. Types
  BY DEF Types, NoView, View, NoCheckpoint
<1>2. Removals /\ Saved /\ Locked
  BY DEF Removals, Saved, Locked, Gone, NoSnap, NoView, Holds
<1>3. Newest /\ Checkpoint
  BY DEF Newest, Checkpoint, NoSnap, NoView, Up
<1>4. QED
  BY <1>1, <1>2, <1>3 DEF SnapshotInv

(* The queues and the order of the shutdown leave the snapshots alone.     *)
LEMMA SnapshotsAlone ==
  ASSUME SnapshotInv, UNCHANGED snapVars, Up' \/ ~Up
  PROVE  SnapshotInv'
BY DEF SnapshotInv, snapVars, Types, Removals, Saved, Gone, Locked, Holds, Newest, Recent, Checkpoint

LEMMA RegisterKeeps == ASSUME SnapshotInv, NEW n \in Enrolment, Register(n) PROVE SnapshotInv'
BY DEF SnapshotInv, Register, Types, Removals, Saved, Gone, Locked, Holds, Newest, Recent, Checkpoint, Up

LEMMA RaiseKeeps == ASSUME SnapshotInv, RaiseIt PROVE SnapshotInv'
BY DEF SnapshotInv, RaiseIt, Types, Removals, Saved, Gone, Locked, Holds, Newest, Recent, Checkpoint, Up

(* A change of the view has a version no view has had.                     *)
LEMMA ChangeKeeps ==
  ASSUME SnapshotInv, NEW nodes \in SUBSET Enrolment, Changed(nodes),
         UNCHANGED <<runPhase, registered, file, checkpoint, snap, deletion>>,
         \A n \in Enrolment : deletion[n] \in {"forgotten", "saved"} => n \notin nodes
  PROVE  SnapshotInv'
<1>1. Types'
  BY DEF SnapshotInv, Types, Changed
<1>2. Removals' /\ Saved' /\ Locked'
  BY DEF SnapshotInv, Removals, Saved, Gone, Locked, Holds, Changed
<1>3. Newest'
  BY Owners DEF SnapshotInv, Types, Newest, Recent, Changed, View
<1>4. Checkpoint'
  BY Owners DEF SnapshotInv, Types, Newest, Checkpoint, Recent, Changed, View, Up
<1>5. QED
  BY <1>1, <1>2, <1>3, <1>4 DEF SnapshotInv

LEMMA ReportKeeps == ASSUME SnapshotInv, NEW n \in Enrolment, Report(n) PROVE SnapshotInv'
<1>1. live \cup {n} \in SUBSET Enrolment
  BY DEF SnapshotInv, Types
<1>2. \A m \in Enrolment : deletion[m] \in {"forgotten", "saved"} => m \notin live \cup {n}
  BY DEF SnapshotInv, Removals, Report
<1>3. QED
  BY <1>1, <1>2, ChangeKeeps DEF Report

LEMMA RevokeKeeps == ASSUME SnapshotInv, NEW n \in Enrolment, Revoke(n) PROVE SnapshotInv'
BY DEF SnapshotInv, Revoke, Types, Removals, Saved, Gone, Locked, Holds, Newest, Recent, Checkpoint, Up

LEMMA ForgetKeeps == ASSUME SnapshotInv, NEW n \in Enrolment, Forget(n) PROVE SnapshotInv'
<1>1. /\ n \in Owner /\ snap \in [Owner -> [at : Stage, base : Int, view : View]]
      /\ \A o \in Owner : snap'[o].view = snap[o].view /\ snap'[o].base = snap[o].base
      /\ \A o \in Owner : o # n => snap'[o] = snap[o]
      /\ snap'[n].at = "queued" /\ snap' \in [Owner -> [at : Stage, base : Int, view : View]]
  BY Owners DEF SnapshotInv, Types, Forget, Stage
<1>2. Types'
  BY <1>1 DEF SnapshotInv, Types, Forget, Changed
<1>3. Removals'
  BY <1>1 DEF SnapshotInv, Types, Removals, Forget, Changed
<1>4. Saved' /\ Locked'
  BY <1>1 DEF SnapshotInv, Types, Saved, Gone, Locked, Holds, Forget, Owner
<1>5. Newest'
  <2>1. CASE Changed(live \ {n})
    BY <1>1, <2>1 DEF SnapshotInv, Types, Newest, Recent, Changed, View, Forget
  <2>2. CASE UNCHANGED <<live, version, unbumped>>
    BY <1>1, <2>2 DEF SnapshotInv, Types, Newest, Recent, View, Forget
  <2>3. QED
    BY <2>1, <2>2 DEF Forget
<1>6. Checkpoint'
  <2>1. snap'["ticker"] = snap["ticker"] /\ Up'
    BY <1>1, Owners DEF Forget, Up
  <2>2. CASE Changed(live \ {n})
    BY <2>1, <2>2, Owners DEF SnapshotInv, Types, Newest, Checkpoint, Recent, Changed, View, Forget
  <2>3. CASE UNCHANGED <<live, version, unbumped>>
    BY <2>1, <2>3, Owners DEF SnapshotInv, Checkpoint, Recent, Forget
  <2>4. QED
    BY <2>2, <2>3 DEF Forget
<1>7. QED
  BY <1>2, <1>3, <1>4, <1>5, <1>6 DEF SnapshotInv

LEMMA RemovedKeeps == ASSUME SnapshotInv, NEW n \in Enrolment, Removed(n) PROVE SnapshotInv'
<1>1. /\ n \in Owner /\ snap' = [snap EXCEPT ![n] = NoSnap] /\ Up /\ Up'
      /\ snap'[n].at = "none" /\ \A o \in Owner : o # n => snap'[o] = snap[o]
      /\ UNCHANGED <<registered, live, version, unbumped, file, checkpoint>>
  BY Owners DEF SnapshotInv, Types, Removed, NoSnap, Up
<1>2. Types'
  BY <1>1, Owners DEF SnapshotInv, Types, Removed
<1>3. Removals' /\ Saved' /\ Locked' /\ Newest'
  BY <1>1 DEF SnapshotInv, Types, Removals, Saved, Gone, Locked, Holds, Newest, Recent, Removed, Owner
<1>4. Checkpoint'
  BY <1>1, Owners DEF SnapshotInv, Checkpoint, Recent
<1>5. QED
  BY <1>2, <1>3, <1>4 DEF SnapshotInv

LEMMA LockKeeps == ASSUME SnapshotInv, NEW o \in Owner, Lock(o) PROVE SnapshotInv'
<1>1. /\ snap \in [Owner -> [at : Stage, base : Int, view : View]] /\ Revision \in Int /\ Revision <= version
      /\ version \in Nat
  BY DEF SnapshotInv, Types, Revision
<1>2. /\ \A p \in Owner : p # o => snap'[p] = snap[p]
      /\ snap'[o].at = "listing" /\ snap'[o].base = Revision /\ snap'[o].view = snap[o].view
      /\ snap' \in [Owner -> [at : Stage, base : Int, view : View]]
  BY <1>1 DEF Lock, Stage
<1>3. Up /\ UNCHANGED <<runPhase, registered, live, version, unbumped, file, checkpoint, deletion>>
      /\ \A p \in Owner : ~Holds(p)
  BY DEF Lock, MayRead
<1>4. Types' /\ Removals' /\ Saved'
  BY <1>2, <1>3, Owners DEF SnapshotInv, Types, Removals, Saved, Gone, Lock
<1>5. Locked'
  BY <1>2, <1>3 DEF SnapshotInv, Locked, Holds
<1>6. Newest'
  BY <1>1, <1>2, <1>3 DEF SnapshotInv, Newest, Recent
<1>7. Checkpoint'
  BY <1>2, <1>3, Owners DEF SnapshotInv, Checkpoint, Recent, Up
<1>8. QED
  BY <1>4, <1>5, <1>6, <1>7 DEF SnapshotInv

LEMMA ListKeeps == ASSUME SnapshotInv, NEW o \in Owner, List(o) PROVE SnapshotInv'
<1> DEFINE now == [nodes |-> live, version |-> version]
<1>1. now \in View /\ now.nodes = live /\ now.version = version
  BY DEF SnapshotInv, Types, View
<1>2. /\ \A p \in Owner : p # o => snap'[p] = snap[p]
      /\ snap'[o].at = "writing" /\ snap'[o].base = snap[o].base /\ snap'[o].view = now
      /\ snap' \in [Owner -> [at : Stage, base : Int, view : View]]
  BY <1>1 DEF SnapshotInv, Types, List, Stage
<1>3. Up /\ UNCHANGED <<runPhase, registered, live, version, unbumped, file, checkpoint, deletion>>
      /\ snap[o].at = "listing"
  BY DEF List
<1> HIDE DEF now
<1>4. Types'
  BY <1>2, <1>3 DEF SnapshotInv, Types
<1>5. Removals' /\ Saved'
  BY <1>1, <1>2, <1>3, Owners DEF SnapshotInv, Removals, Saved, Gone
<1>6. Locked'
  BY <1>2, <1>3 DEF SnapshotInv, Locked, Holds
<1>7. Newest'
  BY <1>1, <1>2, <1>3 DEF SnapshotInv, Types, Newest, Recent
<1>8. Checkpoint'
  BY <1>2, <1>3, Owners DEF SnapshotInv, Checkpoint, Recent, Up
<1>9. QED
  BY <1>4, <1>5, <1>6, <1>7, <1>8 DEF SnapshotInv

(* While a view is written nobody else writes: the file advances, and a    *)
(* removal that asked for it is done with.                                 *)
LEMMA PersistKeeps == ASSUME SnapshotInv, NEW o \in Owner, Persist(o) PROVE SnapshotInv'
<1>1. Up /\ UNCHANGED <<runPhase, registered, live, version, unbumped, checkpoint, deletion>>
      /\ snap[o].at = "writing" /\ \A p \in Owner : p # o => snap[p].at # "writing"
  BY DEF SnapshotInv, Locked, Holds, Persist
<1>2. CASE file' = snap[o].view /\ snap' = [snap EXCEPT ![o].at = "ok"]
  <2>1. /\ \A p \in Owner : p # o => snap'[p] = snap[p]
        /\ snap'[o].at = "ok" /\ snap'[o].base = snap[o].base
        /\ snap' \in [Owner -> [at : Stage, base : Int, view : View]]
        /\ file' \in View
    BY <1>2 DEF SnapshotInv, Types, Stage
  <2>2. Types' /\ Removals' /\ Locked'
    BY <1>1, <2>1, Owners DEF SnapshotInv, Types, Removals, Locked, Holds
  <2>3. Saved'
    BY <1>1, <1>2, <2>1, Owners DEF SnapshotInv, Removals, Saved, Gone
  <2>4. Newest'
    BY <1>1, <1>2, <2>1 DEF SnapshotInv, Types, View, Newest, Recent
  <2>5. Checkpoint'
    <3>1. file.version \in Int /\ file'.version \in Int /\ snap["ticker"].base \in Int
      BY <2>1, Owners DEF SnapshotInv, Types, View
    <3>2. file.version <= file'.version /\ snap[o].base <= file'.version /\ Recent(file)'
      BY <1>1, <1>2 DEF SnapshotInv, Newest, Recent
    <3>3. QED
      BY <1>1, <2>1, <3>1, <3>2, Owners DEF SnapshotInv, Types, Checkpoint, Up
  <2>6. QED
    BY <2>2, <2>3, <2>4, <2>5 DEF SnapshotInv
<1>3. CASE snap' = [snap EXCEPT ![o].at = "failed"] /\ UNCHANGED file
  <2>1. /\ \A p \in Owner : p # o => snap'[p] = snap[p]
        /\ snap'[o].at = "failed"
        /\ snap' \in [Owner -> [at : Stage, base : Int, view : View]]
    BY <1>3 DEF SnapshotInv, Types, Stage
  <2>2. Types' /\ Removals' /\ Saved' /\ Locked' /\ Newest'
    BY <1>1, <1>3, <2>1, Owners DEF SnapshotInv, Types, Removals, Saved, Gone, Locked, Holds, Newest, Recent
  <2>3. Checkpoint'
    BY <1>1, <1>3, <2>1, Owners DEF SnapshotInv, Checkpoint, Recent, Up
  <2>4. QED
    BY <2>2, <2>3 DEF SnapshotInv
<1>4. QED
  BY <1>2, <1>3 DEF Persist

(* Asking for a snapshot.                                                  *)
LEMMA QueuedKeeps ==
  ASSUME SnapshotInv, NEW o \in {"ticker", "final"}, snap' = [snap EXCEPT ![o].at = "queued"],
         UNCHANGED <<registered, live, version, unbumped, file, checkpoint, deletion>>, Up, Up'
  PROVE  SnapshotInv'
<1>1. /\ o \in Owner /\ o \notin Enrolment
      /\ \A p \in Owner : p # o => snap'[p] = snap[p]
      /\ snap'[o].at = "queued"
      /\ snap' \in [Owner -> [at : Stage, base : Int, view : View]]
  BY Owners DEF SnapshotInv, Types, Stage
<1>2. Types' /\ Removals' /\ Saved' /\ Locked' /\ Newest'
  BY <1>1, Owners DEF SnapshotInv, Types, Removals, Saved, Gone, Locked, Holds, Newest, Recent
<1>3. Checkpoint'
  BY <1>1, Owners DEF SnapshotInv, Checkpoint, Recent
<1>4. QED
  BY <1>2, <1>3 DEF SnapshotInv

LEMMA TickKeeps == ASSUME SnapshotInv, SnapshotTick PROVE SnapshotInv'
BY QueuedKeeps DEF SnapshotTick, Up

LEMMA TickedKeeps == ASSUME SnapshotInv, Ticked PROVE SnapshotInv'
<1>1. /\ \A p \in Owner : p # "ticker" => snap'[p] = snap[p]
      /\ snap'["ticker"] = NoSnap /\ NoSnap.at = "none"
      /\ snap' \in [Owner -> [at : Stage, base : Int, view : View]]
  BY Owners DEF SnapshotInv, Types, Ticked, NoSnap
<1>2. Up /\ UNCHANGED <<runPhase, registered, live, version, unbumped, file, deletion>>
  BY DEF Ticked
<1>3. CASE snap["ticker"].at = "ok" /\ checkpoint' = snap["ticker"].base
  <2>1. Types' /\ Checkpoint'
    BY <1>1, <1>2, <1>3, Owners DEF SnapshotInv, Types, Checkpoint, Recent, Up
  <2>2. Removals' /\ Saved' /\ Locked' /\ Newest'
    BY <1>1, <1>2, Owners DEF SnapshotInv, Removals, Saved, Gone, Locked, Holds, Newest, Recent
  <2>3. QED
    BY <2>1, <2>2 DEF SnapshotInv
<1>4. CASE checkpoint' = checkpoint
  <2>1. Types' /\ Checkpoint'
    BY <1>1, <1>2, <1>4, Owners DEF SnapshotInv, Types, Checkpoint, Recent, Up
  <2>2. Removals' /\ Saved' /\ Locked' /\ Newest'
    BY <1>1, <1>2, Owners DEF SnapshotInv, Removals, Saved, Gone, Locked, Holds, Newest, Recent
  <2>3. QED
    BY <2>1, <2>2 DEF SnapshotInv
<1>5. QED
  BY <1>3, <1>4 DEF Ticked, SavedRevision

LEMMA TickerEndKeeps == ASSUME SnapshotInv, TickerEnds PROVE SnapshotInv'
BY DEF SnapshotInv, TickerEnds, Types, Removals, Saved, Gone, Locked, Holds, Newest, Recent, Checkpoint, Up

LEMMA DrainedKeeps == ASSUME SnapshotInv, Drained PROVE SnapshotInv'
BY QueuedKeeps DEF Drained, Reached, Up

(* The process ends with the file as it is or with the view that was being *)
(* written.                                                                *)
LEMMA EndKeeps == ASSUME SnapshotInv, NEW l, Ends(l) PROVE SnapshotInv'
<1>1. /\ ~Up' /\ UNCHANGED <<registered, live, version, unbumped, checkpoint>>
      /\ \A o \in Owner : snap'[o].at = "none"
      /\ snap' \in [Owner -> [at : Stage, base : Int, view : View]]
  BY Owners DEF Ends, Up, NoSnap
<1>2. /\ \A n \in Enrolment : deletion'[n] = deletion[n] \/ (deletion[n] # "none" /\ deletion'[n] = "unsaved")
      /\ deletion' \in [Enrolment -> {"none", "revoked", "forgotten", "saved", "unsaved"}]
  BY DEF SnapshotInv, Types, Ends
<1>3. /\ file' \in View /\ file.version <= file'.version /\ file'.version <= version
      /\ \A n \in Enrolment : deletion[n] = "saved" => n \notin file'.nodes
      /\ Recent(file) => (file'.version = version => file'.nodes = live)
  <2>1. CASE UNCHANGED file
    BY <2>1 DEF SnapshotInv, Types, View, Saved, Gone, Newest, Recent
  <2>2. CASE \E o \in Owner : snap[o].at = "writing" /\ file' = snap[o].view
    BY <2>2 DEF SnapshotInv, Types, View, Saved, Gone, Newest, Recent
  <2>3. QED
    BY <2>1, <2>2 DEF Ends
<1>4. Types'
  BY <1>1, <1>2, <1>3 DEF SnapshotInv, Types
<1>5. Removals'
  BY <1>1, <1>2, Owners DEF SnapshotInv, Removals
<1>6. Saved' /\ Locked' /\ Newest'
  BY <1>1, <1>2, <1>3, Owners DEF SnapshotInv, Saved, Gone, Locked, Holds, Newest
<1>7. Checkpoint'
  <2>1. file.version \in Int /\ file'.version \in Int /\ checkpoint \in Int
    BY <1>3 DEF SnapshotInv, Types, View
  <2>2. QED
    BY <1>1, <1>3, <2>1, Owners DEF SnapshotInv, Checkpoint, Recent
<1>8. QED
  BY <1>4, <1>5, <1>6, <1>7 DEF SnapshotInv

LEMMA StartKeeps == ASSUME SnapshotInv, StartAgain PROVE SnapshotInv'
<1>1. /\ UNCHANGED <<registered, file, snap, deletion>> /\ version' = file.version /\ unbumped' = 0
      /\ checkpoint' = NoCheckpoint /\ live' = file.nodes \cap registered
      /\ \A o \in Owner : snap[o].at = "none"
  BY DEF SnapshotInv, Checkpoint, StartAgain, Up
<1>2. Types' /\ Removals' /\ Saved' /\ Locked' /\ Newest'
  BY <1>1, Owners DEF SnapshotInv, Types, View, NoCheckpoint, Removals, Saved, Gone, Locked, Holds, Newest
<1>3. Checkpoint'
  BY <1>1, Owners DEF SnapshotInv, Checkpoint
<1>4. QED
  BY <1>2, <1>3 DEF SnapshotInv

LEMMA SnapshotStep == SnapshotInv /\ [StopNext]_stopVars => SnapshotInv'
<1> SUFFICES ASSUME SnapshotInv, [StopNext]_stopVars PROVE SnapshotInv'
  OBVIOUS
<1>1. CASE UNCHANGED stopVars
  BY <1>1, SnapshotsAlone DEF stopVars, Up
<1>2. ASSUME NEW n \in Enrolment, Register(n) \/ Report(n) \/ Revoke(n) \/ Forget(n) \/ Removed(n)
      PROVE  SnapshotInv'
  BY <1>2, RegisterKeeps, ReportKeeps, RevokeKeeps, ForgetKeeps, RemovedKeeps
<1>3. ASSUME NEW o \in Owner, Lock(o) \/ List(o) \/ Persist(o) PROVE SnapshotInv'
  BY <1>3, LockKeeps, ListKeeps, PersistKeeps
<1>4. CASE RaiseIt \/ SnapshotTick \/ Ticked \/ TickerEnds \/ Drained
  BY <1>4, RaiseKeeps, TickKeeps, TickedKeeps, TickerEndKeeps, DrainedKeeps
<1>5. ASSUME NEW s \in Session, TakeSender(s) \/ RecordStatus(s) PROVE SnapshotInv'
  BY <1>5, SnapshotsAlone DEF TakeSender, RecordStatus, Up
<1>6. CASE RecordEvent
  BY <1>6, SnapshotsAlone DEF RecordEvent, Up
<1>7. ASSUME NEW c \in Caller, Call(c) \/ SendFlush(c) \/ Insert(c) PROVE SnapshotInv'
  BY <1>7, SnapshotsAlone DEF Call, SendFlush, Insert, Up
<1>8. ASSUME NEW w \in WriterTask, TakeCommand(w) \/ FlushTimer(w) \/ Written(w) \/ WriterEnds(w)
      PROVE  SnapshotInv'
  BY <1>8, SnapshotsAlone DEF TakeCommand, FlushTimer, Written, WriterEnds, Up
<1>9. CASE Signal \/ HttpEnds \/ FinalSnapshot \/ HistoryDrained
  BY <1>9, SnapshotsAlone DEF Signal, HttpEnds, FinalSnapshot, HistoryDrained, Reached, Closes, Up
<1>10. CASE AuditDrained \/ PersistenceDeadline \/ Kill
  BY <1>10, EndKeeps DEF AuditDrained, PersistenceDeadline, Kill
<1>11. CASE StartAgain
  BY <1>11, StartKeeps
<1>12. QED
  BY <1>1, <1>2, <1>3, <1>4, <1>5, <1>6, <1>7, <1>8, <1>9, <1>10, <1>11 DEF StopNext

(* A removal that was saved stays, whichever snapshot tasks are still      *)
(* about; and the periodic task skips a tick only if the file has every    *)
(* change whose revision was raised (snapshot.rs, agent_delete.rs).        *)
THEOREM FileMovesForward == StopSpec => []SnapshotsNeverGoBack
<1>1. SnapshotInv => SnapshotsNeverGoBack
  <2> SUFFICES ASSUME SnapshotInv PROVE SnapshotsNeverGoBack
    OBVIOUS
  <2>1. \A n \in Enrolment : deletion[n] = "saved" => n \notin file.nodes
    BY DEF SnapshotInv, Saved, Gone
  <2>2. ASSUME checkpoint = Revision, unbumped = 0 PROVE file = [nodes |-> live, version |-> version]
    <3>1. checkpoint = version /\ version \in Nat /\ file.version \in Nat
      BY <2>2 DEF SnapshotInv, Types, View, Revision
    <3>2. file.version = version /\ file.nodes = live
      BY <3>1 DEF SnapshotInv, Checkpoint, NoCheckpoint, Newest, Recent
    <3>3. QED
      BY <3>2 DEF SnapshotInv, Types, View
  <2>3. QED
    BY <2>1, <2>2 DEF SnapshotsNeverGoBack
<1>2. QED
  BY SnapshotInit, SnapshotStep, <1>1, PTL DEF StopSpec

----------------------------------------------------------------------------
(* The queues and their writers.                                            *)

Command == [kind : {"item"}, id : Nat] \cup [kind : {"flush"}, by : Caller]
Channel == [open : BOOLEAN, queue : Seq(Command), batch : Seq(Nat),
            at : {"up", "writing", "gone"}, ackTo : SUBSET Caller]
Request == [at : {"none", "send", "ack", "insert"}, earlier : SUBSET Nat]

QueueTypes ==
  /\ late \in BOOLEAN
  /\ chan \in [WriterTask -> Channel]
  /\ kept \in [WriterTask -> Seq(Nat)] /\ lost \in [WriterTask -> SUBSET Nat]
  /\ offered \in [WriterTask -> Nat]
  /\ clone \in [Session -> BOOLEAN]
  /\ caller \in [Caller -> Request]

There(w) == ToSet(kept[w]) \cup lost[w]

Accounted == Up \/ ~late => \A w \in WriterTask : 1 .. offered[w] \subseteq There(w) \cup Pending(w)

(* A writer has gone when nobody can send to it any more and it has        *)
(* written all it was sent; a shutdown in time waits for both.             *)
Emptied(w) == ~Senders(w) /\ chan[w].queue = <<>> /\ chan[w].batch = <<>>

Drains ==
  /\ \A w \in WriterTask : chan[w].at = "gone" => Emptied(w)
  /\ runPhase = "audit" => chan["history"].at = "gone"
  /\ runPhase = "exited" /\ ~late => \A w \in WriterTask : chan[w].at = "gone"

(* The numbers of items were given out before.                             *)
Numbered ==
  /\ \A w \in WriterTask : Pending(w) \subseteq 1 .. offered[w]
  /\ \A c \in Caller : caller[c].earlier \subseteq 1 .. offered["audit"]

(* Behind a request to flush there is nothing that it has to write, nor a  *)
(* second request of its caller.                                           *)
Waits(w, c) == w = "audit" /\ caller[c].at = "ack"
Behind(c, cmd) == cmd # FlushFor(c) /\ (cmd.kind = "item" => cmd.id \notin caller[c].earlier)

QueuedFlushes(w) ==
  \A k \in DOMAIN chan[w].queue :
    chan[w].queue[k].kind = "flush" =>
      /\ Waits(w, chan[w].queue[k].by)
      /\ \A j \in DOMAIN chan[w].queue : j > k => Behind(chan[w].queue[k].by, chan[w].queue[j])

TakenFlushes(w) ==
  \A c \in chan[w].ackTo :
    /\ Waits(w, c) /\ chan[w].at = "writing"
    /\ \A k \in DOMAIN chan[w].queue : Behind(c, chan[w].queue[k])

Flushes == Up => \A w \in WriterTask : QueuedFlushes(w) /\ TakenFlushes(w)

QueueInv == QueueTypes /\ Accounted /\ Drains /\ Numbered /\ Flushes /\ LoginsFollowEarlierEvents

(* Facts about commands in a queue.                                        *)
LEMMA Commands ==
  /\ \A i \in Nat : Item(i) \in Command /\ Item(i).kind = "item" /\ Item(i).id = i
  /\ \A c \in Caller : FlushFor(c) \in Command /\ FlushFor(c).kind = "flush" /\ FlushFor(c).by = c
  /\ \A cmd \in Command : cmd.kind = "item" => cmd.id \in Nat
  /\ \A cmd \in Command : cmd.kind # "item" =>
       cmd.kind = "flush" /\ cmd.by \in Caller /\ cmd = FlushFor(cmd.by)
BY DEF Command, Item, FlushFor

LEMMA AppendSet ==
  ASSUME NEW S, NEW s \in Seq(S), NEW x \in S
  PROVE  ToSet(Append(s, x)) = ToSet(s) \cup {x}
<1>1. DOMAIN Append(s, x) = 1 .. Len(s) + 1 /\ Len(s) \in Nat /\ DOMAIN s = 1 .. Len(s)
  OBVIOUS
<1>2. \A i \in 1 .. Len(s) : Append(s, x)[i] = s[i]
  OBVIOUS
<1>3. Append(s, x)[Len(s) + 1] = x
  OBVIOUS
<1>4. QED
  BY <1>1, <1>2, <1>3 DEF ToSet

LEMMA ConcatSet ==
  ASSUME NEW S, NEW s \in Seq(S), NEW t \in Seq(S)
  PROVE  ToSet(s \o t) = ToSet(s) \cup ToSet(t)
<1>1. /\ DOMAIN (s \o t) = 1 .. (Len(s) + Len(t)) /\ Len(s) \in Nat /\ Len(t) \in Nat
      /\ DOMAIN s = 1 .. Len(s) /\ DOMAIN t = 1 .. Len(t)
  OBVIOUS
<1>2. \A i \in 1 .. Len(s) : (s \o t)[i] = s[i]
  OBVIOUS
<1>3. \A i \in 1 .. Len(t) : (s \o t)[Len(s) + i] = t[i]
  OBVIOUS
<1>4. \A i \in 1 .. (Len(s) + Len(t)) : i \in 1 .. Len(s) \/ i - Len(s) \in 1 .. Len(t)
  BY <1>1
<1>5. ToSet(s \o t) \subseteq ToSet(s) \cup ToSet(t)
  BY <1>1, <1>2, <1>3, <1>4 DEF ToSet
<1>6. ToSet(s) \subseteq ToSet(s \o t)
  <2>1. \A i \in 1 .. Len(s) : i \in DOMAIN (s \o t)
    BY <1>1
  <2>2. QED
    BY <1>1, <1>2, <2>1 DEF ToSet
<1>7. ToSet(t) \subseteq ToSet(s \o t)
  <2>1. \A i \in 1 .. Len(t) : Len(s) + i \in DOMAIN (s \o t)
    BY <1>1
  <2>2. QED
    BY <1>1, <1>3, <2>1 DEF ToSet
<1>8. QED
  BY <1>5, <1>6, <1>7

LEMMA AppendItems ==
  ASSUME NEW q \in Seq(Command), NEW cmd \in Command
  PROVE  Items(Append(q, cmd)) = Items(q) \cup (IF cmd.kind = "item" THEN {cmd.id} ELSE {})
<1>1. DOMAIN Append(q, cmd) = 1 .. Len(q) + 1 /\ Len(q) \in Nat /\ DOMAIN q = 1 .. Len(q)
  OBVIOUS
<1>2. \A i \in 1 .. Len(q) : Append(q, cmd)[i] = q[i]
  OBVIOUS
<1>3. Append(q, cmd)[Len(q) + 1] = cmd
  OBVIOUS
<1>4. QED
  BY <1>1, <1>2, <1>3 DEF Items

LEMMA HeadItems ==
  ASSUME NEW q \in Seq(Command), q # <<>>
  PROVE  /\ Head(q) \in Command /\ Tail(q) \in Seq(Command) /\ Head(q) = q[1] /\ 1 \in DOMAIN q
         /\ \A k \in DOMAIN Tail(q) : k + 1 \in DOMAIN q /\ Tail(q)[k] = q[k + 1]
         /\ Items(q) = Items(Tail(q)) \cup (IF Head(q).kind = "item" THEN {Head(q).id} ELSE {})
<1>1. /\ Head(q) \in Command /\ Tail(q) \in Seq(Command) /\ Head(q) = q[1]
      /\ Len(q) \in Nat /\ Len(q) >= 1 /\ DOMAIN q = 1 .. Len(q) /\ DOMAIN Tail(q) = 1 .. Len(q) - 1
  OBVIOUS
<1>2. \A k \in 1 .. Len(q) - 1 : Tail(q)[k] = q[k + 1]
  OBVIOUS
<1>3. \A k \in DOMAIN q : k = 1 \/ (k - 1 \in DOMAIN Tail(q) /\ q[k] = Tail(q)[k - 1])
  BY <1>1, <1>2
<1>4. \A k \in DOMAIN Tail(q) : k + 1 \in DOMAIN q /\ Tail(q)[k] = q[k + 1]
  BY <1>1, <1>2
<1>5. Items(q) = Items(Tail(q)) \cup (IF Head(q).kind = "item" THEN {Head(q).id} ELSE {})
  <2> DEFINE head == IF Head(q).kind = "item" THEN {Head(q).id} ELSE {}
  <2>1. ASSUME NEW x \in Items(q) PROVE x \in Items(Tail(q)) \cup head
    <3>1. PICK k \in DOMAIN q : q[k].kind = "item" /\ x = q[k].id
      BY <2>1 DEF Items
    <3>2. QED
      BY <1>1, <1>3, <3>1 DEF Items
  <2>2. Items(Tail(q)) \subseteq Items(q)
    BY <1>4 DEF Items
  <2>3. head \subseteq Items(q)
    <3>1. 1 \in DOMAIN q
      BY <1>1
    <3>2. QED
      BY <1>1, <3>1 DEF Items
  <2>4. QED
    BY <2>1, <2>2, <2>3
<1>6. QED
  BY <1>1, <1>4, <1>5

LEMMA QueueInit == StopInit => QueueInv
<1> SUFFICES ASSUME StopInit PROVE QueueInv
  OBVIOUS
<1>1. /\ \A w \in WriterTask :
           /\ chan[w] = Queue /\ kept[w] = <<>> /\ lost[w] = {} /\ offered[w] = 0
           /\ chan[w].queue = <<>> /\ chan[w].batch = <<>> /\ chan[w].at = "up" /\ chan[w].ackTo = {}
      /\ \A c \in Caller : caller[c].at = "none" /\ caller[c].earlier = {}
  BY DEF StopInit, Queue, NoCall
<1>2. QueueTypes
  <2>1. Queue \in Channel
    BY DEF Queue, Channel
  <2>2. NoCall \in Request
    BY DEF NoCall, Request
  <2>3. chan \in [WriterTask -> Channel] /\ caller \in [Caller -> Request]
    BY <2>1, <2>2 DEF StopInit
  <2>4. /\ kept \in [WriterTask -> Seq(Nat)] /\ lost \in [WriterTask -> SUBSET Nat]
        /\ offered \in [WriterTask -> Nat]
    BY DEF StopInit
  <2>5. late \in BOOLEAN /\ clone \in [Session -> BOOLEAN]
    BY DEF StopInit
  <2>6. QED
    BY <2>3, <2>4, <2>5 DEF QueueTypes
<1>3. \A w \in WriterTask : Pending(w) = {}
  BY <1>1 DEF Pending, Items, ToSet
<1>4. Accounted /\ Numbered
  BY <1>1, <1>3 DEF Accounted, Numbered
<1>5. Drains
  BY <1>1 DEF StopInit, Drains
<1>6. Flushes /\ LoginsFollowEarlierEvents
  BY <1>1 DEF Flushes, QueuedFlushes, TakenFlushes, LoginsFollowEarlierEvents
<1>7. QED
  BY <1>2, <1>4, <1>5, <1>6 DEF QueueInv

(* Snapshots and the first stages of a shutdown leave the queues alone.    *)
LEMMA QueuesAlone ==
  ASSUME QueueInv, UNCHANGED <<queueVars, late>>,
         \/ UNCHANGED runPhase
         \/ Up /\ runPhase' \in {"http", "draining", "snapshot"}
  PROVE  QueueInv'
<1>1. UNCHANGED <<chan, kept, lost, offered, clone, caller, late>> /\ (Up' <=> Up)
  BY DEF queueVars, Up
<1>2. QueueTypes' /\ Accounted' /\ Numbered'
  BY <1>1 DEF QueueInv, QueueTypes, Accounted, Numbered, There, Pending
<1>3. Drains'
  BY <1>1 DEF QueueInv, Drains, Emptied, Senders, Up
<1>4. Flushes' /\ LoginsFollowEarlierEvents'
  BY <1>1 DEF QueueInv, Flushes, QueuedFlushes, TakenFlushes, Waits, Behind, LoginsFollowEarlierEvents, Pending
<1>5. QED
  BY <1>2, <1>3, <1>4 DEF QueueInv

(* An item that is sent has a number nobody waits for; one that is refused *)
(* is counted.                                                             *)
LEMMA OfferKeeps ==
  ASSUME QueueInv, NEW w \in WriterTask, Offer(w), Up, Senders(w),
         UNCHANGED <<runPhase, late, kept, caller>>,
         clone' \in [Session -> BOOLEAN], \A s \in Session : clone'[s] => clone[s]
  PROVE  QueueInv'
<1> DEFINE new == offered[w] + 1
<1>1. /\ chan \in [WriterTask -> Channel] /\ offered \in [WriterTask -> Nat] /\ chan[w].at # "gone"
      /\ kept \in [WriterTask -> Seq(Nat)] /\ lost \in [WriterTask -> SUBSET Nat]
      /\ caller \in [Caller -> Request] /\ late \in BOOLEAN
      /\ new \in Nat /\ \A v \in WriterTask : v # w => offered'[v] = offered[v]
      /\ offered'[w] = new /\ offered' \in [WriterTask -> Nat] /\ Up'
  BY DEF QueueInv, QueueTypes, Drains, Emptied, Offer, Up
<1>2. kept' = kept /\ caller' = caller /\ late' = late /\ runPhase' = runPhase
  OBVIOUS
<1>3. CASE Send(w, Item(new)) /\ UNCHANGED lost
  <2> DEFINE q == chan[w].queue
  <2>1. q \in Seq(Command) /\ Item(new) \in Command /\ Item(new).kind = "item" /\ Item(new).id = new
    BY <1>1, Commands DEF Channel
  <2>2. /\ \A v \in WriterTask : v # w => chan'[v] = chan[v]
        /\ chan'[w].queue = Append(q, Item(new))
        /\ chan'[w].batch = chan[w].batch /\ chan'[w].at = chan[w].at /\ chan'[w].ackTo = chan[w].ackTo
        /\ \A v \in WriterTask : chan'[v].open = chan[v].open
        /\ chan' \in [WriterTask -> Channel]
    <3>1. Append(q, Item(new)) \in Seq(Command)
      BY <2>1
    <3>2. QED
      BY <1>1, <1>3, <3>1 DEF Send, Channel
  <2>3. Items(chan'[w].queue) = Items(q) \cup {new}
    BY <2>1, <2>2, AppendItems
  <2>4. QueueTypes'
    BY <1>1, <1>2, <1>3, <2>2 DEF QueueTypes
  <2>5. Accounted' /\ Numbered'
    <3>0. ASSUME NEW v \in WriterTask
          PROVE  /\ 1 .. offered'[v] \subseteq 1 .. offered[v] \cup (IF v = w THEN {new} ELSE {})
                 /\ 1 .. offered[v] \subseteq 1 .. offered'[v]
      <4>1. offered[v] \in Nat /\ (v = w => offered'[v] = offered[v] + 1) /\ (v # w => offered'[v] = offered[v])
        BY <1>1
      <4>2. QED
        BY <4>1
    <3>1. \A v \in WriterTask : 1 .. offered'[v] \subseteq 1 .. offered[v] \cup (IF v = w THEN {new} ELSE {})
      BY <3>0
    <3>2. \A v \in WriterTask : 1 .. offered[v] \subseteq 1 .. offered'[v]
      BY <3>0
    <3>3. /\ \A v \in WriterTask : 1 .. offered[v] \subseteq ToSet(kept[v]) \cup lost[v] \cup Items(chan[v].queue) \cup ToSet(chan[v].batch)
          /\ \A v \in WriterTask : Items(chan[v].queue) \cup ToSet(chan[v].batch) \subseteq 1 .. offered[v]
          /\ \A c \in Caller : caller[c].earlier \subseteq 1 .. offered["audit"]
      BY DEF QueueInv, Accounted, Numbered, There, Pending
    <3>4. new \in 1 .. offered'[w] /\ "audit" \in WriterTask
      BY <1>1 DEF WriterTask
    <3> HIDE DEF new, q
    <3>5. Accounted'
      BY <1>2, <1>3, <2>2, <2>3, <3>1, <3>3 DEF Accounted, There, Pending, q
    <3>6. Numbered'
      BY <1>2, <2>2, <2>3, <3>2, <3>3, <3>4 DEF Numbered, Pending, q
    <3>7. QED
      BY <3>5, <3>6
  <2>6. Drains'
    <3>1. ASSUME NEW v \in WriterTask, chan'[v].at = "gone" PROVE Emptied(v)'
      <4>1. v # w /\ chan'[v] = chan[v] /\ chan[v].at = "gone"
        BY <1>1, <2>2, <3>1
      <4>2. Emptied(v)
        BY <4>1 DEF QueueInv, Drains
      <4>3. QED
        BY <1>2, <4>1, <4>2 DEF Emptied, Senders
    <3>2. runPhase' = "audit" => chan'["history"].at = "gone"
      BY <1>2, <2>2 DEF QueueInv, Drains, WriterTask
    <3>3. QED
      BY <1>1, <3>1, <3>2 DEF Drains, Up
  <2>7. Flushes'
    <3>1. ASSUME NEW c \in Caller, w = "audit" PROVE Behind(c, Item(new))
      <4>1. caller[c].earlier \subseteq 1 .. offered[w]
        BY <3>1 DEF QueueInv, Numbered
      <4>2. new \notin 1 .. offered[w]
        BY <1>1
      <4>3. Item(new) # FlushFor(c)
        BY <2>1, Commands
      <4>4. QED
        BY <2>1, <4>1, <4>2, <4>3 DEF Behind
    <3>2. /\ Len(q) \in Nat /\ DOMAIN q = 1 .. Len(q) /\ DOMAIN Append(q, Item(new)) = 1 .. Len(q) + 1
          /\ \A k \in DOMAIN q : Append(q, Item(new))[k] = q[k]
          /\ Append(q, Item(new))[Len(q) + 1] = Item(new)
      BY <2>1
    <3>3. QueuedFlushes(w) /\ TakenFlushes(w)
      BY DEF QueueInv, Flushes
    <3> HIDE DEF new, q
    <3>4. ASSUME NEW k \in DOMAIN Append(q, Item(new)), Append(q, Item(new))[k].kind = "flush"
          PROVE  /\ Waits(w, Append(q, Item(new))[k].by)
                 /\ \A j \in DOMAIN Append(q, Item(new)) :
                      j > k => Behind(Append(q, Item(new))[k].by, Append(q, Item(new))[j])
      <4>1. k \in DOMAIN q /\ k \in 1 .. Len(q) /\ Append(q, Item(new))[k] = q[k]
        BY <2>1, <3>2, <3>4
      <4>2. Waits(w, q[k].by) /\ \A j \in DOMAIN q : j > k => Behind(q[k].by, q[j])
        BY <3>3, <3>4, <4>1 DEF QueuedFlushes, q
      <4>3. q[k].by \in Caller /\ w = "audit"
        <5>1. q[k] \in Command /\ q[k].kind # "item"
          BY <2>1, <3>4, <4>1
        <5>2. QED
          BY <4>2, <5>1, Commands DEF Waits
      <4>4. Behind(q[k].by, Item(new))
        BY <3>1, <4>3
      <4>5. QED
        BY <3>2, <4>1, <4>2, <4>4
    <3>5. ASSUME NEW c \in chan[w].ackTo
          PROVE  /\ Waits(w, c) /\ chan[w].at = "writing"
                 /\ \A k \in DOMAIN Append(q, Item(new)) : Behind(c, Append(q, Item(new))[k])
      <4>1. Waits(w, c) /\ chan[w].at = "writing" /\ \A k \in DOMAIN q : Behind(c, q[k])
        BY <3>3 DEF TakenFlushes, q
      <4>2. c \in Caller
        BY <1>1 DEF Channel
      <4>3. Behind(c, Item(new))
        BY <3>1, <4>1, <4>2 DEF Waits
      <4>4. QED
        BY <3>2, <4>1, <4>3
    <3>6. QueuedFlushes(w)' /\ TakenFlushes(w)'
      BY <1>2, <2>2, <3>4, <3>5 DEF QueuedFlushes, TakenFlushes, Waits, Behind
    <3>7. ASSUME NEW v \in WriterTask, v # w PROVE QueuedFlushes(v)' /\ TakenFlushes(v)'
      BY <1>2, <2>2, <3>7 DEF QueueInv, Flushes, QueuedFlushes, TakenFlushes, Waits, Behind
    <3>8. QED
      BY <3>6, <3>7 DEF Flushes
  <2>8. LoginsFollowEarlierEvents'
    <3>1. \A c \in Caller : new \notin caller[c].earlier \/ w # "audit"
      BY <1>1 DEF QueueInv, Numbered
    <3> HIDE DEF new, q
    <3>2. QED
      BY <1>2, <2>2, <2>3, <3>1 DEF QueueInv, LoginsFollowEarlierEvents, Pending, q, WriterTask
  <2>9. QED
    BY <2>4, <2>5, <2>6, <2>7, <2>8 DEF QueueInv
<1>4. CASE lost' = [lost EXCEPT ![w] = @ \cup {new}] /\ UNCHANGED chan
  <2>1. /\ lost' \in [WriterTask -> SUBSET Nat] /\ lost'[w] = lost[w] \cup {new}
        /\ \A v \in WriterTask : v # w => lost'[v] = lost[v]
    BY <1>1, <1>4
  <2>2. QueueTypes'
    BY <1>1, <1>2, <1>4, <2>1 DEF QueueTypes
  <2>3. Accounted' /\ Numbered'
    <3>1. ASSUME NEW v \in WriterTask
          PROVE  /\ 1 .. offered'[v] \subseteq 1 .. offered[v] \cup (IF v = w THEN {new} ELSE {})
                 /\ 1 .. offered[v] \subseteq 1 .. offered'[v]
      <4>1. offered[v] \in Nat /\ (v = w => offered'[v] = offered[v] + 1) /\ (v # w => offered'[v] = offered[v])
        BY <1>1
      <4>2. QED
        BY <4>1
    <3>2. /\ \A v \in WriterTask : 1 .. offered[v] \subseteq There(v) \cup Pending(v)
          /\ Numbered
      BY DEF QueueInv, Accounted
    <3> HIDE DEF new
    <3>3. QED
      BY <1>2, <1>4, <2>1, <3>1, <3>2 DEF Accounted, Numbered, There, Pending, WriterTask
  <2>4. Drains'
    BY <1>1, <1>2, <1>4 DEF QueueInv, Drains, Emptied, Senders, Up
  <2>5. Flushes' /\ LoginsFollowEarlierEvents'
    BY <1>2, <1>4 DEF QueueInv, Flushes, QueuedFlushes, TakenFlushes, Waits, Behind, LoginsFollowEarlierEvents, Pending
  <2>6. QED
    BY <2>2, <2>3, <2>4, <2>5 DEF QueueInv
<1>5. QED
  BY <1>3, <1>4 DEF Offer, Next

(* Who holds a sender concerns only the writer that may end.               *)
LEMMA ClonesKeep ==
  ASSUME QueueInv, UNCHANGED <<runPhase, late, chan, kept, lost, offered, caller>>,
         clone' \in [Session -> BOOLEAN],
         chan["history"].open \/ \A s \in Session : clone'[s] => clone[s]
  PROVE  QueueInv'
<1>1. /\ runPhase' = runPhase /\ late' = late /\ chan' = chan /\ kept' = kept /\ lost' = lost
      /\ offered' = offered /\ caller' = caller
  OBVIOUS
<1>2. QueueTypes' /\ Accounted' /\ Numbered'
  BY <1>1 DEF QueueInv, QueueTypes, Accounted, Numbered, There, Pending, Up
<1>3. Drains'
  <2>1. ASSUME NEW w \in WriterTask, chan[w].at = "gone" PROVE Emptied(w)'
    <3>1. Emptied(w)
      BY <2>1 DEF QueueInv, Drains
    <3>2. QED
      BY <1>1, <3>1 DEF Emptied, Senders
  <2>2. QED
    BY <1>1, <2>1 DEF QueueInv, Drains
<1>4. Flushes' /\ LoginsFollowEarlierEvents'
  BY <1>1 DEF QueueInv, Flushes, QueuedFlushes, TakenFlushes, Waits, Behind, LoginsFollowEarlierEvents, Pending, Up
<1>5. QED
  BY <1>2, <1>3, <1>4 DEF QueueInv

LEMMA TakeSenderKeeps == ASSUME QueueInv, NEW s \in Session, TakeSender(s) PROVE QueueInv'
<1>1. clone' \in [Session -> BOOLEAN]
  BY DEF QueueInv, QueueTypes, TakeSender
<1>2. QED
  BY <1>1, ClonesKeep DEF TakeSender

LEMMA RecordStatusKeeps == ASSUME QueueInv, NEW s \in Session, RecordStatus(s) PROVE QueueInv'
<1>1. /\ clone' \in [Session -> BOOLEAN] /\ clone' = [clone EXCEPT ![s] = FALSE]
      /\ clone \in [Session -> BOOLEAN]
  BY DEF QueueInv, QueueTypes, RecordStatus
<1>2. ASSUME NEW t \in Session, clone'[t] PROVE clone[t]
  <2>1. CASE t = s
    BY <1>1, <1>2, <2>1, Zenon
  <2>2. CASE t # s
    BY <1>1, <1>2, <2>2, Zenon
  <2>3. QED
    BY <2>1, <2>2
<1>3. CASE Offer("history")
  <2>1. Senders("history") /\ "history" \in WriterTask /\ Up
    BY DEF RecordStatus, Senders, WriterTask
  <2>2. UNCHANGED <<runPhase, late, kept, caller>>
    BY DEF RecordStatus
  <2>3. QED
    BY <1>1, <1>2, <1>3, <2>1, <2>2, OfferKeeps
<1>4. CASE UNCHANGED <<chan, lost, offered, budget>>
  BY <1>1, <1>2, <1>4, ClonesKeep DEF RecordStatus
<1>5. QED
  BY <1>3, <1>4 DEF RecordStatus

LEMMA RecordEventKeeps == ASSUME QueueInv, RecordEvent PROVE QueueInv'
<1>1. Senders("audit") /\ "audit" \in WriterTask /\ Up /\ Offer("audit")
  BY DEF RecordEvent, Senders, WriterTask
<1>2. UNCHANGED <<runPhase, late, kept, caller>> /\ clone' = clone
  BY DEF RecordEvent
<1>3. clone' \in [Session -> BOOLEAN] /\ \A s \in Session : clone'[s] => clone[s]
  BY <1>2 DEF QueueInv, QueueTypes
<1>4. QED
  BY <1>1, <1>2, <1>3, OfferKeeps

(* A caller that waits for a flush is waiting for the only one it asked    *)
(* for: the others have none in the queue.                                 *)
LEMMA Waiting ==
  ASSUME QueueInv, Up, NEW c \in Caller, caller[c].at # "ack"
  PROVE  /\ \A w \in WriterTask : c \notin chan[w].ackTo
         /\ \A w \in WriterTask : \A k \in DOMAIN chan[w].queue :
              chan[w].queue[k].kind = "flush" => chan[w].queue[k].by # c
BY DEF QueueInv, Flushes, QueuedFlushes, TakenFlushes, Waits

(* Only the request of c is another one, and none of its commands is about.*)
LEMMA OthersWait ==
  ASSUME QueueInv, Up, Up', NEW c \in Caller, caller[c].at # "ack", chan' = chan,
         \A d \in Caller : d # c => caller'[d] = caller[d]
  PROVE  Flushes'
<1>1. ASSUME NEW w \in WriterTask PROVE QueuedFlushes(w)'
  <2> DEFINE q == chan[w].queue
  <2>1. q \in Seq(Command)
    BY DEF QueueInv, QueueTypes, Channel
  <2>2. ASSUME NEW k \in DOMAIN q, q[k].kind = "flush"
        PROVE  /\ Waits(w, q[k].by) /\ q[k].by \in Caller /\ caller'[q[k].by] = caller[q[k].by]
               /\ \A j \in DOMAIN q : j > k => Behind(q[k].by, q[j])
    <3>1. q[k] \in Command /\ q[k].kind # "item"
      BY <2>1, <2>2
    <3>2. q[k].by \in Caller
      BY <3>1, Commands
    <3>3. q[k].by # c
      BY <2>2, Waiting
    <3>4. QED
      BY <2>2, <3>2, <3>3 DEF QueueInv, Flushes, QueuedFlushes
  <2> HIDE DEF q
  <2>3. QED
    BY <2>2 DEF QueuedFlushes, Waits, Behind, q
<1>2. ASSUME NEW w \in WriterTask PROVE TakenFlushes(w)'
  <2>1. ASSUME NEW d \in chan[w].ackTo
        PROVE  /\ d \in Caller /\ caller'[d] = caller[d] /\ Waits(w, d) /\ chan[w].at = "writing"
               /\ \A k \in DOMAIN chan[w].queue : Behind(d, chan[w].queue[k])
    <3>1. d \in Caller
      BY DEF QueueInv, QueueTypes, Channel
    <3>2. d # c
      BY Waiting
    <3>3. QED
      BY <3>1, <3>2 DEF QueueInv, Flushes, TakenFlushes
  <2>2. QED
    BY <2>1 DEF TakenFlushes, Waits, Behind
<1>3. QED
  BY <1>1, <1>2 DEF Flushes

LEMMA CallKeeps == ASSUME QueueInv, NEW c \in Caller, Call(c) PROVE QueueInv'
<1>1. /\ runPhase' = runPhase /\ late' = late /\ chan' = chan /\ kept' = kept /\ lost' = lost
      /\ offered' = offered /\ clone' = clone /\ Up /\ Up' /\ caller[c].at = "none"
      /\ caller \in [Caller -> Request]
  BY DEF Call, Up, QueueInv, QueueTypes
<1>2. PICK new \in Request :
        /\ caller' = [caller EXCEPT ![c] = new]
        /\ \/ chan["audit"].open /\ new.at = "send" /\ new.earlier = Pending("audit")
           \/ new.at = "insert" /\ new.earlier = {}
  <2>1. Pending("audit") \subseteq Nat
    <3>1. Pending("audit") \subseteq 1 .. offered["audit"]
      BY DEF QueueInv, Numbered, WriterTask
    <3>2. QED
      BY <3>1
  <2>2. /\ [at |-> "send", earlier |-> Pending("audit")] \in Request
        /\ [at |-> "insert", earlier |-> {}] \in Request
    BY <2>1 DEF Request
  <2>3. CASE chan["audit"].open
    BY <2>2, <2>3 DEF Call
  <2>4. CASE ~chan["audit"].open
    BY <2>2, <2>4 DEF Call
  <2>5. QED
    BY <2>3, <2>4
<1>3. caller'[c] = new /\ caller' \in [Caller -> Request] /\ \A d \in Caller : d # c => caller'[d] = caller[d]
  BY <1>1, <1>2
<1>4. QueueTypes' /\ Accounted'
  BY <1>1, <1>3 DEF QueueInv, QueueTypes, Accounted, There, Pending, Up
<1>5. Numbered'
  <2>1. new.earlier \subseteq 1 .. offered["audit"]
    BY <1>2 DEF QueueInv, Numbered, WriterTask
  <2>2. QED
    BY <1>1, <1>3, <2>1 DEF QueueInv, Numbered, Pending
<1>6. Drains'
  <2>1. ASSUME NEW w \in WriterTask, chan[w].at = "gone" PROVE Emptied(w)'
    <3>1. Emptied(w)
      BY <2>1 DEF QueueInv, Drains
    <3>2. QED
      BY <1>1, <1>2, <1>3, <3>1 DEF Emptied, Senders
  <2>2. QED
    BY <1>1, <2>1 DEF QueueInv, Drains, Up
<1>7. Flushes'
  BY <1>1, <1>3, OthersWait
<1>8. LoginsFollowEarlierEvents'
  BY <1>1, <1>2, <1>3 DEF QueueInv, LoginsFollowEarlierEvents, Pending
<1>9. QED
  BY <1>4, <1>5, <1>6, <1>7, <1>8 DEF QueueInv

LEMMA InsertKeeps == ASSUME QueueInv, NEW c \in Caller, Insert(c) PROVE QueueInv'
<1>1. /\ runPhase' = runPhase /\ late' = late /\ chan' = chan /\ lost' = lost
      /\ clone' = clone /\ Up /\ Up' /\ caller[c].at = "insert"
      /\ caller \in [Caller -> Request] /\ "audit" \in WriterTask
      /\ kept \in [WriterTask -> Seq(Nat)] /\ offered \in [WriterTask -> Nat]
  BY DEF Insert, Up, QueueInv, QueueTypes, WriterTask
<1>2. /\ caller'[c].at = "none" /\ caller'[c].earlier = {} /\ caller' \in [Caller -> Request]
      /\ \A d \in Caller : d # c => caller'[d] = caller[d]
  <2>1. NoCall \in Request
    BY DEF NoCall, Request
  <2>2. caller'[c] = NoCall /\ caller' \in [Caller -> Request] /\ \A d \in Caller : d # c => caller'[d] = caller[d]
    BY <1>1, <2>1 DEF Insert
  <2>3. QED
    BY <2>2 DEF NoCall
<1>3. /\ kept' \in [WriterTask -> Seq(Nat)] /\ offered' \in [WriterTask -> Nat]
      /\ \A w \in WriterTask : 1 .. offered[w] \subseteq 1 .. offered'[w]
      /\ \A w \in WriterTask : ToSet(kept[w]) \subseteq ToSet(kept'[w])
      /\ \A w \in WriterTask : \A i \in 1 .. offered'[w] : i \in 1 .. offered[w] \/ i \in ToSet(kept'[w])
  <2>1. CASE UNCHANGED <<kept, offered>>
    BY <1>1, <2>1
  <2>2. CASE /\ offered' = [offered EXCEPT !["audit"] = @ + 1]
             /\ kept' = [kept EXCEPT !["audit"] = Append(@, Next("audit"))]
    <3> DEFINE new == offered["audit"] + 1
    <3>1. offered["audit"] \in Nat /\ kept["audit"] \in Seq(Nat) /\ new \in Nat
      BY <1>1
    <3>2. Append(kept["audit"], new) \in Seq(Nat) /\ ToSet(Append(kept["audit"], new)) = ToSet(kept["audit"]) \cup {new}
      BY <3>1, AppendSet
    <3>3. /\ kept' \in [WriterTask -> Seq(Nat)] /\ kept'["audit"] = Append(kept["audit"], new)
          /\ \A w \in WriterTask : w # "audit" => kept'[w] = kept[w]
      BY <1>1, <2>2, <3>2 DEF Next
    <3>4. /\ offered' \in [WriterTask -> Nat] /\ offered'["audit"] = new
          /\ \A w \in WriterTask : w # "audit" => offered'[w] = offered[w]
      BY <1>1, <2>2, <3>1
    <3>5. /\ \A i \in 1 .. new : i \in 1 .. offered["audit"] \/ i = new
          /\ 1 .. offered["audit"] \subseteq 1 .. new
      BY <3>1
    <3> HIDE DEF new
    <3>6. QED
      BY <3>2, <3>3, <3>4, <3>5
  <2>3. QED
    BY <2>1, <2>2 DEF Insert
<1>4. QueueTypes'
  BY <1>1, <1>2, <1>3 DEF QueueInv, QueueTypes
<1>5. Accounted'
  <2>1. \A w \in WriterTask : 1 .. offered[w] \subseteq There(w) \cup Pending(w)
    BY <1>1 DEF QueueInv, Accounted
  <2>2. QED
    BY <1>1, <1>3, <2>1 DEF Accounted, There, Pending
<1>6. Numbered'
  BY <1>1, <1>2, <1>3 DEF QueueInv, Numbered, Pending
<1>7. Drains'
  <2>1. ASSUME NEW w \in WriterTask, chan[w].at = "gone" PROVE Emptied(w)'
    <3>1. Emptied(w)
      BY <2>1 DEF QueueInv, Drains
    <3>2. QED
      BY <1>1, <1>2, <3>1 DEF Emptied, Senders
  <2>2. QED
    BY <1>1, <2>1 DEF QueueInv, Drains, Up
<1>8. Flushes'
  BY <1>1, <1>2, OthersWait
<1>9. LoginsFollowEarlierEvents'
  BY <1>1, <1>2 DEF QueueInv, LoginsFollowEarlierEvents, Pending
<1>10. QED
  BY <1>4, <1>5, <1>6, <1>7, <1>8, <1>9 DEF QueueInv

LEMMA SendFlushKeeps == ASSUME QueueInv, NEW c \in Caller, SendFlush(c) PROVE QueueInv'
<1> DEFINE q == chan["audit"].queue
           more == Append(q, FlushFor(c))
<1>1. /\ runPhase' = runPhase /\ late' = late /\ kept' = kept /\ lost' = lost /\ offered' = offered
      /\ clone' = clone /\ Up /\ Up' /\ caller[c].at = "send" /\ "audit" \in WriterTask
      /\ caller \in [Caller -> Request] /\ chan \in [WriterTask -> Channel]
      /\ q \in Seq(Command) /\ FlushFor(c) \in Command /\ FlushFor(c).kind = "flush" /\ FlushFor(c).by = c
  BY Commands DEF SendFlush, Up, QueueInv, QueueTypes, Channel, WriterTask
<1>2. /\ caller'[c].at = "ack" /\ caller'[c].earlier = caller[c].earlier /\ caller' \in [Caller -> Request]
      /\ \A d \in Caller : d # c => caller'[d] = caller[d]
  BY <1>1 DEF SendFlush, Request
<1>3. /\ chan'["audit"].queue = more /\ more \in Seq(Command)
      /\ chan'["audit"].batch = chan["audit"].batch /\ chan'["audit"].at = chan["audit"].at
      /\ chan'["audit"].ackTo = chan["audit"].ackTo
      /\ \A w \in WriterTask : w # "audit" => chan'[w] = chan[w]
      /\ \A w \in WriterTask : chan'[w].open = chan[w].open
      /\ chan' \in [WriterTask -> Channel]
  <2>1. more \in Seq(Command)
    BY <1>1
  <2>2. chan' = [chan EXCEPT !["audit"].queue = more]
    BY DEF SendFlush, Send
  <2> HIDE DEF more, q
  <2>3. QED
    BY <1>1, <2>1, <2>2 DEF Channel
<1>4. Items(more) = Items(q)
  <2>1. FlushFor(c).kind # "item"
    BY <1>1
  <2>2. QED
    BY <1>1, <2>1, AppendItems
<1>5. \A w \in WriterTask : Items(chan'[w].queue) = Items(chan[w].queue) /\ chan'[w].batch = chan[w].batch
  BY <1>3, <1>4
<1>6. QueueTypes'
  BY <1>1, <1>2, <1>3 DEF QueueInv, QueueTypes
<1>7. Accounted' /\ Numbered'
  BY <1>1, <1>2, <1>5 DEF QueueInv, Accounted, Numbered, There, Pending
<1>8. Drains'
  <2>1. chan["audit"].at # "gone"
    BY <1>1 DEF QueueInv, Drains, Emptied, Senders
  <2>2. ASSUME NEW w \in WriterTask, chan'[w].at = "gone" PROVE Emptied(w)'
    <3>1. w # "audit" /\ chan'[w] = chan[w] /\ chan[w].at = "gone"
      BY <1>3, <2>1, <2>2
    <3>2. Emptied(w)
      BY <3>1 DEF QueueInv, Drains
    <3>3. QED
      BY <1>1, <3>1, <3>2 DEF Emptied, Senders
  <2>3. runPhase' = "audit" => chan'["history"].at = "gone"
    BY <1>1, <1>3 DEF QueueInv, Drains, WriterTask
  <2>4. QED
    BY <1>1, <2>2, <2>3 DEF Drains, Up
<1>9. Flushes'
  <2>1. /\ Len(q) \in Nat /\ DOMAIN q = 1 .. Len(q) /\ DOMAIN more = 1 .. Len(q) + 1
        /\ \A k \in DOMAIN q : more[k] = q[k]
        /\ more[Len(q) + 1] = FlushFor(c)
    BY <1>1
  <2>2. /\ QueuedFlushes("audit") /\ TakenFlushes("audit")
        /\ \A k \in DOMAIN q : q[k].kind = "flush" => q[k].by # c
        /\ c \notin chan["audit"].ackTo
    BY <1>1, Waiting DEF QueueInv, Flushes
  <2> HIDE DEF more, q
  <2>3. \A d \in Caller : d # c => Behind(d, FlushFor(c))
    BY <1>1, Commands DEF Behind
  <2>4. \A d \in Caller : caller'[d].earlier = caller[d].earlier
    BY <1>2
  <2>5. ASSUME NEW k \in DOMAIN more, more[k].kind = "flush"
        PROVE  /\ caller'[more[k].by].at = "ack" /\ more[k].by \in Caller
               /\ \A j \in DOMAIN more : j > k => Behind(more[k].by, more[j])
    <3>1. CASE k \in DOMAIN q
      <4>1. more[k] = q[k] /\ q[k] \in Command /\ q[k].kind # "item"
        BY <1>1, <2>1, <2>5, <3>1
      <4>2. q[k].by \in Caller /\ q[k].by # c
        BY <2>2, <2>5, <4>1, <3>1, Commands
      <4>3. Waits("audit", q[k].by) /\ \A j \in DOMAIN q : j > k => Behind(q[k].by, q[j])
        BY <2>2, <2>5, <3>1, <4>1 DEF QueuedFlushes, q
      <4>4. Behind(q[k].by, FlushFor(c))
        BY <2>3, <4>2
      <4>5. QED
        BY <1>2, <2>1, <4>1, <4>2, <4>3, <4>4 DEF Waits
    <3>2. CASE k = Len(q) + 1
      BY <1>1, <1>2, <2>1, <3>2
    <3>3. QED
      BY <2>1, <3>1, <3>2
  <2>6. ASSUME NEW d \in chan["audit"].ackTo
        PROVE  /\ caller'[d].at = "ack" /\ d \in Caller /\ chan["audit"].at = "writing"
               /\ \A k \in DOMAIN more : Behind(d, more[k])
    <3>1. d \in Caller /\ d # c
      BY <1>1, <2>2 DEF Channel
    <3>2. Waits("audit", d) /\ chan["audit"].at = "writing" /\ \A k \in DOMAIN q : Behind(d, q[k])
      BY <2>2 DEF TakenFlushes, q
    <3>3. Behind(d, FlushFor(c))
      BY <2>3, <3>1
    <3>4. QED
      BY <1>2, <2>1, <3>1, <3>2, <3>3 DEF Waits
  <2>7. QueuedFlushes("audit")' /\ TakenFlushes("audit")'
    BY <1>3, <2>4, <2>5, <2>6 DEF QueuedFlushes, TakenFlushes, Waits, Behind
  <2>8. ASSUME NEW w \in WriterTask, w # "audit" PROVE QueuedFlushes(w)' /\ TakenFlushes(w)'
    BY <1>1, <1>3, <2>8 DEF QueueInv, Flushes, QueuedFlushes, TakenFlushes, Waits
  <2>9. QED
    BY <2>7, <2>8 DEF Flushes
<1>10. LoginsFollowEarlierEvents'
  BY <1>1, <1>2, <1>5 DEF QueueInv, LoginsFollowEarlierEvents, Pending
<1>11. QED
  BY <1>6, <1>7, <1>8, <1>9, <1>10 DEF QueueInv

(* Nothing is pending that was not: requests that were answered stay so.   *)
LEMMA FewerPending ==
  ASSUME QueueInv, offered' = offered, caller' = caller,
         Items(chan'["audit"].queue) \cup ToSet(chan'["audit"].batch) \subseteq Pending("audit")
  PROVE  LoginsFollowEarlierEvents'
BY DEF QueueInv, LoginsFollowEarlierEvents, Pending

(* A caller that is answered goes on to insert its event.                  *)
LEMMA AckedIs ==
  ASSUME caller \in [Caller -> Request], NEW cs \in SUBSET Caller
  PROVE  /\ Acked(caller, cs) \in [Caller -> Request]
         /\ \A d \in Caller : Acked(caller, cs)[d].earlier = caller[d].earlier
         /\ \A d \in Caller : d \in cs => Acked(caller, cs)[d].at = "insert"
         /\ \A d \in Caller : d \notin cs => Acked(caller, cs)[d] = caller[d]
<1>1. ASSUME NEW d \in Caller
      PROVE  /\ Acked(caller, cs)[d] \in Request /\ Acked(caller, cs)[d].earlier = caller[d].earlier
             /\ d \in cs => Acked(caller, cs)[d].at = "insert"
             /\ d \notin cs => Acked(caller, cs)[d] = caller[d]
  BY DEF Acked, Request
<1>2. Acked(caller, cs) = [d \in Caller |-> Acked(caller, cs)[d]]
  BY DEF Acked
<1>3. QED
  BY <1>1, <1>2

(* What the writer takes from its queue goes into the batch; a flush is    *)
(* answered at once when the batch is empty.                               *)
LEMMA TakeCommandKeeps == ASSUME QueueInv, NEW w \in WriterTask, TakeCommand(w) PROVE QueueInv'
<1> DEFINE q == chan[w].queue
           cmd == Head(q)
<1>1. /\ runPhase' = runPhase /\ late' = late /\ kept' = kept /\ lost' = lost /\ offered' = offered
      /\ clone' = clone /\ Up /\ Up' /\ chan[w].at = "up"
      /\ caller \in [Caller -> Request] /\ chan \in [WriterTask -> Channel]
      /\ q \in Seq(Command) /\ q # <<>> /\ chan[w].batch \in Seq(Nat)
  BY DEF TakeCommand, Up, QueueInv, QueueTypes, Channel
<1>2. /\ cmd \in Command /\ Tail(q) \in Seq(Command) /\ cmd = q[1] /\ 1 \in DOMAIN q
      /\ \A k \in DOMAIN Tail(q) : k + 1 \in DOMAIN q /\ Tail(q)[k] = q[k + 1] /\ k \in Nat /\ k >= 1
      /\ Items(q) = Items(Tail(q)) \cup (IF cmd.kind = "item" THEN {cmd.id} ELSE {})
  BY <1>1, HeadItems
<1>3. QueuedFlushes(w) /\ chan[w].ackTo = {}
  BY <1>1 DEF QueueInv, Flushes, TakenFlushes
<1>4. ASSUME NEW k \in DOMAIN Tail(q), Tail(q)[k].kind = "flush"
      PROVE  /\ Waits(w, Tail(q)[k].by) /\ Tail(q)[k].by \in Caller
             /\ \A j \in DOMAIN Tail(q) : j > k => Behind(Tail(q)[k].by, Tail(q)[j])
  <2>1. k + 1 \in DOMAIN q /\ q[k + 1].kind = "flush" /\ Tail(q)[k] = q[k + 1] /\ q[k + 1] \in Command
    BY <1>1, <1>2, <1>4
  <2>2. q[k + 1].by \in Caller
    BY <2>1, Commands
  <2>3. Waits(w, q[k + 1].by) /\ \A j \in DOMAIN q : j > k + 1 => Behind(q[k + 1].by, q[j])
    BY <1>3, <2>1 DEF QueuedFlushes
  <2> HIDE DEF q
  <2>4. ASSUME NEW j \in DOMAIN Tail(q), j > k PROVE Behind(q[k + 1].by, Tail(q)[j])
    <3>1. j + 1 \in DOMAIN q /\ j + 1 > k + 1 /\ Tail(q)[j] = q[j + 1]
      BY <1>2, <1>4, <2>4
    <3>2. QED
      BY <2>3, <3>1
  <2>5. QED
    BY <2>1, <2>2, <2>3, <2>4
<1>5. \A v \in WriterTask : 1 .. offered[v] \subseteq There(v) \cup Pending(v)
  BY <1>1 DEF QueueInv, Accounted
<1> HIDE DEF q, cmd
<1>6. ASSUME /\ \A v \in WriterTask : v # w => chan'[v] = chan[v]
             /\ \A v \in WriterTask : chan'[v].open = chan[v].open
             /\ chan'[w].queue = Tail(q) /\ chan' \in [WriterTask -> Channel] /\ chan'[w].at # "gone"
             /\ Items(Tail(q)) \cup ToSet(chan'[w].batch) = Pending(w)
             /\ \A d \in Caller : caller'[d].earlier = caller[d].earlier
             /\ caller' \in [Caller -> Request]
             /\ \A d \in Caller : caller'[d].at = "send" => caller[d].at = "send"
      PROVE  QueueTypes' /\ Accounted' /\ Numbered' /\ Drains'
  <2>1. QueueTypes'
    BY <1>1, <1>6 DEF QueueInv, QueueTypes
  <2>2. \A v \in WriterTask : Items(chan'[v].queue) \cup ToSet(chan'[v].batch) = Pending(v)
    BY <1>6 DEF Pending
  <2>3. Accounted'
    BY <1>1, <1>5, <2>2 DEF Accounted, There, Pending
  <2>4. Numbered'
    BY <1>1, <1>6, <2>2 DEF QueueInv, Numbered, Pending
  <2>5. ASSUME NEW v \in WriterTask, chan'[v].at = "gone" PROVE Emptied(v)'
    <3>1. v # w /\ chan'[v] = chan[v] /\ chan[v].at = "gone"
      BY <1>6, <2>5
    <3>2. Emptied(v)
      BY <3>1 DEF QueueInv, Drains
    <3>3. QED
      BY <1>1, <1>6, <3>1, <3>2 DEF Emptied, Senders
  <2>6. runPhase' = "audit" => chan'["history"].at = "gone"
    BY <1>1, <1>6 DEF QueueInv, Drains, WriterTask
  <2>7. QED
    BY <1>1, <2>1, <2>3, <2>4, <2>5, <2>6 DEF Drains, Up
<1>7. CASE /\ cmd.kind = "item" /\ UNCHANGED caller
           /\ chan' = [chan EXCEPT ![w] =
                [[chan[w] EXCEPT !.queue = Tail(q)] EXCEPT
                   !.batch = Append(chan[w].batch, cmd.id),
                   !.at = IF Len(Append(chan[w].batch, cmd.id)) >= BatchMax THEN "writing" ELSE "up"]]
  <2>1. cmd.id \in Nat
    BY <1>2, <1>7, Commands
  <2>2. /\ Append(chan[w].batch, cmd.id) \in Seq(Nat)
        /\ ToSet(Append(chan[w].batch, cmd.id)) = ToSet(chan[w].batch) \cup {cmd.id}
    BY <1>1, <2>1, AppendSet
  <2>3. /\ \A v \in WriterTask : v # w => chan'[v] = chan[v]
        /\ \A v \in WriterTask : chan'[v].open = chan[v].open
        /\ chan'[w].queue = Tail(q) /\ chan'[w].batch = Append(chan[w].batch, cmd.id)
        /\ chan'[w].ackTo = chan[w].ackTo /\ chan'[w].at # "gone"
        /\ chan' \in [WriterTask -> Channel]
    <3> DEFINE more == Append(chan[w].batch, cmd.id)
               then == IF Len(more) >= BatchMax THEN "writing" ELSE "up"
    <3>1. then \in {"up", "writing"} /\ more \in Seq(Nat)
      BY <2>2
    <3> HIDE DEF more, then
    <3>2. chan' = [chan EXCEPT ![w] = [[chan[w] EXCEPT !.queue = Tail(q)] EXCEPT !.batch = more, !.at = then]]
      BY <1>7 DEF more, then
    <3> DEFINE new == [[chan[w] EXCEPT !.queue = Tail(q)] EXCEPT !.batch = more, !.at = then]
    <3>3. /\ new \in Channel /\ new.open = chan[w].open /\ new.queue = Tail(q) /\ new.batch = more
          /\ new.ackTo = chan[w].ackTo /\ new.at = then
      BY <1>1, <1>2, <3>1 DEF Channel
    <3> HIDE DEF new
    <3>4. chan' = [chan EXCEPT ![w] = new]
      BY <3>2 DEF new
    <3>5. QED
      BY <1>1, <3>1, <3>3, <3>4 DEF more
  <2>4. Items(Tail(q)) \cup ToSet(chan'[w].batch) = Pending(w)
    BY <1>2, <1>7, <2>2, <2>3 DEF Pending, q
  <2>5. QueueTypes' /\ Accounted' /\ Numbered' /\ Drains'
    BY <1>1, <1>6, <1>7, <2>3, <2>4
  <2>6. Flushes'
    <3>1. ASSUME NEW v \in WriterTask, v # w PROVE QueuedFlushes(v)' /\ TakenFlushes(v)'
      BY <1>1, <1>7, <2>3, <3>1 DEF QueueInv, Flushes, QueuedFlushes, TakenFlushes, Waits, Behind
    <3>2. QueuedFlushes(w)' /\ TakenFlushes(w)'
      BY <1>3, <1>4, <1>7, <2>3 DEF QueuedFlushes, TakenFlushes, Waits, Behind
    <3>3. QED
      BY <3>1, <3>2 DEF Flushes
  <2>7. LoginsFollowEarlierEvents'
    <3>1. Items(chan'["audit"].queue) \cup ToSet(chan'["audit"].batch) \subseteq Pending("audit")
      BY <2>3, <2>4 DEF Pending, WriterTask
    <3>2. QED
      BY <1>1, <1>7, <3>1, FewerPending
  <2>8. QED
    BY <2>5, <2>6, <2>7 DEF QueueInv
<1>8. CASE /\ cmd.kind = "flush" /\ chan[w].batch = <<>>
           /\ chan' = [chan EXCEPT ![w] = [chan[w] EXCEPT !.queue = Tail(q)]]
           /\ caller' = Acked(caller, {cmd.by})
  <2>1. /\ cmd.by \in Caller /\ cmd.kind # "item" /\ Waits(w, cmd.by) /\ w = "audit"
        /\ \A k \in DOMAIN Tail(q) : Behind(cmd.by, Tail(q)[k])
    <3>1. cmd.kind # "item"
      BY <1>8
    <3>2. cmd.by \in Caller
      BY <1>2, <3>1, Commands
    <3>3. Waits(w, cmd.by) /\ \A j \in DOMAIN q : j > 1 => Behind(cmd.by, q[j])
      BY <1>2, <1>3, <1>8 DEF QueuedFlushes, q
    <3>4. ASSUME NEW k \in DOMAIN Tail(q) PROVE Behind(cmd.by, Tail(q)[k])
      <4>1. k + 1 \in DOMAIN q /\ k + 1 > 1 /\ Tail(q)[k] = q[k + 1]
        BY <1>2
      <4>2. QED
        BY <3>3, <4>1
    <3>5. QED
      BY <3>1, <3>2, <3>3, <3>4 DEF Waits
  <2>2. /\ caller' \in [Caller -> Request]
        /\ \A d \in Caller : caller'[d].earlier = caller[d].earlier
        /\ caller'[cmd.by].at = "insert"
        /\ \A d \in Caller : d # cmd.by => caller'[d] = caller[d]
    BY <1>1, <1>8, <2>1, AckedIs
  <2>3. /\ \A v \in WriterTask : v # w => chan'[v] = chan[v]
        /\ \A v \in WriterTask : chan'[v].open = chan[v].open
        /\ chan'[w].queue = Tail(q) /\ chan'[w].batch = <<>>
        /\ chan'[w].ackTo = {} /\ chan'[w].at = "up"
        /\ chan' \in [WriterTask -> Channel]
    BY <1>1, <1>2, <1>3, <1>8 DEF Channel
  <2>4. Items(Tail(q)) \cup ToSet(chan'[w].batch) = Pending(w)
    BY <1>2, <1>8, <2>1, <2>3 DEF Pending, q
  <2>5. \A d \in Caller : caller'[d].at = "send" => caller[d].at = "send"
    BY <2>2
  <2>6. QueueTypes' /\ Accounted' /\ Numbered' /\ Drains'
    BY <1>6, <2>2, <2>3, <2>4, <2>5
  <2>7. Flushes'
    <3>1. ASSUME NEW v \in WriterTask, v # w PROVE QueuedFlushes(v)' /\ TakenFlushes(v)'
      BY <1>1, <2>1, <2>2, <2>3, <3>1 DEF QueueInv, Flushes, QueuedFlushes, TakenFlushes, Waits
    <3>2. ASSUME NEW k \in DOMAIN Tail(q), Tail(q)[k].kind = "flush"
          PROVE  caller'[Tail(q)[k].by].at = "ack"
      <4>1. Tail(q)[k] \in Command /\ Tail(q)[k].kind # "item"
        BY <1>2, <3>2
      <4>2. Tail(q)[k] = FlushFor(Tail(q)[k].by) /\ Tail(q)[k].by \in Caller
        BY <4>1, Commands
      <4>3. Tail(q)[k].by # cmd.by
        BY <2>1, <4>2 DEF Behind
      <4>4. QED
        BY <1>4, <2>2, <3>2, <4>2, <4>3 DEF Waits
    <3>3. QueuedFlushes(w)' /\ TakenFlushes(w)'
      BY <1>4, <2>1, <2>2, <2>3, <3>2 DEF QueuedFlushes, TakenFlushes, Waits, Behind
    <3>4. QED
      BY <3>1, <3>3 DEF Flushes
  <2>8. LoginsFollowEarlierEvents'
    <3>1. Items(chan'["audit"].queue) \cup ToSet(chan'["audit"].batch) = Pending("audit")
      BY <2>1, <2>3, <2>4
    <3>2. caller[cmd.by].earlier \cap Pending("audit") = {}
      <4>1. Pending("audit") = Items(Tail(q))
        <5>1. ToSet(<<>>) = {}
          BY DEF ToSet
        <5>2. QED
          BY <2>1, <2>3, <2>4, <5>1
      <4>2. QED
        BY <2>1, <4>1 DEF Behind, Items
    <3>3. QED
      BY <2>2, <3>1, <3>2 DEF QueueInv, LoginsFollowEarlierEvents, Pending
  <2>9. QED
    BY <2>6, <2>7, <2>8 DEF QueueInv
<1>9. CASE /\ cmd.kind = "flush" /\ UNCHANGED caller
           /\ chan' = [chan EXCEPT ![w] = [[chan[w] EXCEPT !.queue = Tail(q)] EXCEPT
                                            !.at = "writing", !.ackTo = {cmd.by}]]
  <2>1. /\ cmd.by \in Caller /\ cmd.kind # "item" /\ Waits(w, cmd.by)
        /\ \A k \in DOMAIN Tail(q) : Behind(cmd.by, Tail(q)[k])
    <3>1. cmd.kind # "item"
      BY <1>9
    <3>2. cmd.by \in Caller
      BY <1>2, <3>1, Commands
    <3>3. Waits(w, cmd.by) /\ \A j \in DOMAIN q : j > 1 => Behind(cmd.by, q[j])
      BY <1>2, <1>3, <1>9 DEF QueuedFlushes, q
    <3>4. ASSUME NEW k \in DOMAIN Tail(q) PROVE Behind(cmd.by, Tail(q)[k])
      <4>1. k + 1 \in DOMAIN q /\ k + 1 > 1 /\ Tail(q)[k] = q[k + 1]
        BY <1>2
      <4>2. QED
        BY <3>3, <4>1
    <3>5. QED
      BY <3>1, <3>2, <3>3, <3>4
  <2>2. /\ \A v \in WriterTask : v # w => chan'[v] = chan[v]
        /\ \A v \in WriterTask : chan'[v].open = chan[v].open
        /\ chan'[w].queue = Tail(q) /\ chan'[w].batch = chan[w].batch
        /\ chan'[w].ackTo = {cmd.by} /\ chan'[w].at = "writing"
        /\ chan' \in [WriterTask -> Channel]
    BY <1>1, <1>2, <1>9, <2>1 DEF Channel
  <2>3. Items(Tail(q)) \cup ToSet(chan'[w].batch) = Pending(w)
    BY <1>2, <2>1, <2>2 DEF Pending, q
  <2>4. QueueTypes' /\ Accounted' /\ Numbered' /\ Drains'
    BY <1>1, <1>6, <1>9, <2>2, <2>3
  <2>5. Flushes'
    <3>1. ASSUME NEW v \in WriterTask, v # w PROVE QueuedFlushes(v)' /\ TakenFlushes(v)'
      BY <1>1, <1>9, <2>2, <3>1 DEF QueueInv, Flushes, QueuedFlushes, TakenFlushes, Waits, Behind
    <3>2. QueuedFlushes(w)' /\ TakenFlushes(w)'
      BY <1>4, <1>9, <2>1, <2>2 DEF QueuedFlushes, TakenFlushes, Waits, Behind
    <3>3. QED
      BY <3>1, <3>2 DEF Flushes
  <2>6. LoginsFollowEarlierEvents'
    <3>1. Items(chan'["audit"].queue) \cup ToSet(chan'["audit"].batch) \subseteq Pending("audit")
      BY <2>2, <2>3 DEF Pending, WriterTask
    <3>2. QED
      BY <1>1, <1>9, <3>1, FewerPending
  <2>7. QED
    BY <2>4, <2>5, <2>6 DEF QueueInv
<1>10. QED
  BY <1>7, <1>8, <1>9 DEF TakeCommand, MayAck, q, cmd

(* A writer that is waiting goes to write what it has, or ends when it has *)
(* nothing and nobody can send it more.                                    *)
LEMMA StageKeeps ==
  ASSUME QueueInv, NEW w \in WriterTask, NEW next \in {"writing", "gone"}, Up, chan[w].at = "up",
         chan' = [chan EXCEPT ![w].at = next],
         next = "gone" => ~Senders(w) /\ chan[w].queue = <<>> /\ chan[w].batch = <<>>,
         UNCHANGED <<runPhase, late, kept, lost, offered, clone, caller>>
  PROVE  QueueInv'
<1>1. /\ runPhase' = runPhase /\ late' = late /\ kept' = kept /\ lost' = lost /\ offered' = offered
      /\ clone' = clone /\ caller' = caller /\ Up' /\ chan \in [WriterTask -> Channel]
  BY DEF QueueInv, QueueTypes, Up
<1>2. /\ chan' \in [WriterTask -> Channel] /\ chan'[w].at = next
      /\ \A v \in WriterTask : v # w => chan'[v] = chan[v]
      /\ \A v \in WriterTask : /\ chan'[v].open = chan[v].open /\ chan'[v].queue = chan[v].queue
                               /\ chan'[v].batch = chan[v].batch /\ chan'[v].ackTo = chan[v].ackTo
  BY <1>1 DEF Channel
<1>3. QueueTypes' /\ Accounted' /\ Numbered' /\ LoginsFollowEarlierEvents'
  BY <1>1, <1>2
     DEF QueueInv, QueueTypes, Accounted, Numbered, LoginsFollowEarlierEvents, There, Pending, WriterTask
<1>4. Drains'
  <2>1. ASSUME NEW v \in WriterTask, chan'[v].at = "gone" PROVE Emptied(v)'
    <3>1. ~Senders(v) /\ chan[v].queue = <<>> /\ chan[v].batch = <<>>
      <4>1. CASE v = w
        BY <1>2, <2>1, <4>1
      <4>2. CASE v # w
        BY <1>2, <2>1, <4>2 DEF QueueInv, Drains, Emptied
      <4>3. QED
        BY <4>1, <4>2
    <3>2. QED
      BY <1>1, <1>2, <3>1 DEF Emptied, Senders
  <2>2. runPhase' = "audit" => chan'["history"].at = "gone"
    <3>1. runPhase = "audit" => w # "history"
      BY DEF QueueInv, Drains
    <3>2. QED
      BY <1>1, <1>2, <3>1 DEF QueueInv, Drains, WriterTask
  <2>3. QED
    BY <1>1, <2>1, <2>2 DEF Drains, Up
<1>5. Flushes'
  <2>1. chan[w].ackTo = {}
    BY DEF QueueInv, Flushes, TakenFlushes
  <2>2. QED
    BY <1>1, <1>2, <2>1 DEF QueueInv, Flushes, QueuedFlushes, TakenFlushes, Waits, Behind
<1>6. QED
  BY <1>3, <1>4, <1>5 DEF QueueInv

LEMMA FlushTimerKeeps == ASSUME QueueInv, NEW w \in WriterTask, FlushTimer(w) PROVE QueueInv'
BY StageKeeps DEF FlushTimer

LEMMA WriterEndsKeeps == ASSUME QueueInv, NEW w \in WriterTask, WriterEnds(w) PROVE QueueInv'
<1> DEFINE next == IF MayEnd(w) THEN "gone" ELSE "writing"
<1>1. /\ next \in {"writing", "gone"} /\ Up /\ chan[w].at = "up"
      /\ next = "gone" => ~Senders(w) /\ chan[w].queue = <<>> /\ chan[w].batch = <<>>
      /\ UNCHANGED <<runPhase, late, kept, lost, offered, clone, caller>>
  BY DEF WriterEnds, MayEnd
<1>2. chan' = [chan EXCEPT ![w].at = next]
  BY DEF WriterEnds
<1> HIDE DEF next
<1>3. QED
  BY <1>1, <1>2, StageKeeps

(* A writer that has written waits again.                                  *)
LEMMA ChannelWith ==
  ASSUME NEW q \in Channel, NEW none \in Seq(Nat), NEW at \in {"up", "writing", "gone"},
         NEW nobody \in SUBSET Caller
  PROVE  LET new == [[[q EXCEPT !.batch = none] EXCEPT !.at = at] EXCEPT !.ackTo = nobody]
         IN  /\ new \in Channel /\ new.open = q.open /\ new.queue = q.queue
             /\ new.batch = none /\ new.at = at /\ new.ackTo = nobody
BY DEF Channel

(* What was written is in the database, or its loss is counted.            *)
LEMMA WrittenKeeps == ASSUME QueueInv, NEW w \in WriterTask, Written(w) PROVE QueueInv'
<1> DEFINE batch == chan[w].batch
           cs == chan[w].ackTo
<1>1. /\ runPhase' = runPhase /\ late' = late /\ offered' = offered /\ clone' = clone
      /\ Up /\ Up' /\ chan[w].at = "writing" /\ chan \in [WriterTask -> Channel]
      /\ caller \in [Caller -> Request] /\ batch \in Seq(Nat) /\ cs \in SUBSET Caller
      /\ kept \in [WriterTask -> Seq(Nat)] /\ lost \in [WriterTask -> SUBSET Nat]
  BY DEF QueueInv, QueueTypes, Written, Up, Channel
<1>2. /\ chan' \in [WriterTask -> Channel]
      /\ chan'[w].batch = <<>> /\ chan'[w].at = "up" /\ chan'[w].ackTo = {}
      /\ \A v \in WriterTask : v # w => chan'[v] = chan[v]
      /\ \A v \in WriterTask : chan'[v].open = chan[v].open /\ chan'[v].queue = chan[v].queue
  <2> DEFINE new == [[[chan[w] EXCEPT !.batch = <<>>] EXCEPT !.at = "up"] EXCEPT !.ackTo = {}]
  <2>1. /\ new \in Channel /\ new.open = chan[w].open /\ new.queue = chan[w].queue
        /\ new.batch = <<>> /\ new.at = "up" /\ new.ackTo = {}
    <3>1. chan[w] \in Channel /\ <<>> \in Seq(Nat) /\ {} \in SUBSET Caller
      BY <1>1
    <3>2. QED
      BY <3>1, ChannelWith
  <2>2. chan' = [chan EXCEPT ![w] = new]
    <3>1. chan[w] \in Channel
      BY <1>1
    <3>2. chan' = [chan EXCEPT ![w].batch = <<>>, ![w].at = "up", ![w].ackTo = {}]
      BY DEF Written
    <3>3. QED
      BY <1>1, <3>1, <3>2 DEF Channel
  <2> HIDE DEF new
  <2>3. QED
    BY <1>1, <2>1, <2>2
<1>3. /\ caller' \in [Caller -> Request]
      /\ \A d \in Caller : caller'[d].earlier = caller[d].earlier
      /\ \A d \in Caller : d \in cs => caller'[d].at = "insert"
      /\ \A d \in Caller : d \notin cs => caller'[d] = caller[d]
  BY <1>1, AckedIs DEF Written
<1>4. /\ kept' \in [WriterTask -> Seq(Nat)] /\ lost' \in [WriterTask -> SUBSET Nat]
      /\ \A v \in WriterTask : There(v) \subseteq ToSet(kept'[v]) \cup lost'[v]
      /\ ToSet(batch) \subseteq ToSet(kept'[w]) \cup lost'[w]
  <2>1. CASE kept' = [kept EXCEPT ![w] = @ \o batch] /\ UNCHANGED lost
    <3>1. kept[w] \o batch \in Seq(Nat) /\ ToSet(kept[w] \o batch) = ToSet(kept[w]) \cup ToSet(batch)
      BY <1>1, ConcatSet
    <3>2. /\ kept' \in [WriterTask -> Seq(Nat)] /\ kept'[w] = kept[w] \o batch
          /\ \A v \in WriterTask : v # w => kept'[v] = kept[v]
      BY <1>1, <2>1, <3>1
    <3> HIDE DEF batch
    <3>3. QED
      BY <1>1, <2>1, <3>1, <3>2 DEF There
  <2>2. CASE lost' = [lost EXCEPT ![w] = @ \cup ToSet(batch)] /\ UNCHANGED kept
    <3>1. ToSet(batch) \subseteq Nat
      BY <1>1 DEF ToSet
    <3> HIDE DEF batch
    <3>2. /\ lost' \in [WriterTask -> SUBSET Nat] /\ lost'[w] = lost[w] \cup ToSet(batch)
          /\ \A v \in WriterTask : v # w => lost'[v] = lost[v]
      BY <1>1, <2>2, <3>1
    <3>3. QED
      BY <1>1, <2>2, <3>2 DEF There
  <2>3. QED
    BY <2>1, <2>2 DEF Written
<1>5. ToSet(<<>>) = {}
  BY DEF ToSet
<1>6. /\ \A v \in WriterTask : v # w => Items(chan'[v].queue) \cup ToSet(chan'[v].batch) = Pending(v)
      /\ Items(chan'[w].queue) \cup ToSet(chan'[w].batch) = Items(chan[w].queue)
      /\ Pending(w) = Items(chan[w].queue) \cup ToSet(batch)
  BY <1>2, <1>5 DEF Pending
<1> HIDE DEF batch, cs
<1>7. QueueTypes'
  BY <1>1, <1>2, <1>3, <1>4 DEF QueueInv, QueueTypes
<1>8. Accounted'
  <2>1. \A v \in WriterTask : 1 .. offered[v] \subseteq There(v) \cup Pending(v)
    BY <1>1 DEF QueueInv, Accounted
  <2>2. \A v \in WriterTask : 1 .. offered[v] \subseteq
          ToSet(kept'[v]) \cup lost'[v] \cup Items(chan'[v].queue) \cup ToSet(chan'[v].batch)
    BY <1>4, <1>6, <2>1
  <2>3. QED
    BY <1>1, <2>2 DEF Accounted, There, Pending
<1>9. Numbered'
  BY <1>1, <1>3, <1>6 DEF QueueInv, Numbered, Pending
<1>10. Drains'
  <2>1. ASSUME NEW v \in WriterTask, chan'[v].at = "gone" PROVE Emptied(v)'
    <3>1. v # w /\ chan'[v] = chan[v] /\ chan[v].at = "gone"
      BY <1>2, <2>1
    <3>2. Emptied(v)
      BY <3>1 DEF QueueInv, Drains
    <3>3. \A d \in Caller : caller'[d].at = "send" => caller[d].at = "send"
      BY <1>3
    <3>4. QED
      BY <1>1, <1>2, <3>1, <3>2, <3>3 DEF Emptied, Senders
  <2>2. runPhase' = "audit" => chan'["history"].at = "gone"
    BY <1>1, <1>2 DEF QueueInv, Drains, WriterTask
  <2>3. QED
    BY <1>1, <2>1, <2>2 DEF Drains, Up
<1>11. \A d \in cs : w = "audit" /\ d \in Caller /\ \A k \in DOMAIN chan[w].queue : Behind(d, chan[w].queue[k])
  BY <1>1 DEF QueueInv, Flushes, TakenFlushes, Waits, cs
<1>12. Flushes'
  <2>1. ASSUME NEW v \in WriterTask PROVE QueuedFlushes(v)'
    <3> DEFINE q == chan[v].queue
    <3>1. q \in Seq(Command) /\ QueuedFlushes(v)
      BY <1>1 DEF Channel, QueueInv, Flushes
    <3>2. ASSUME NEW k \in DOMAIN q, q[k].kind = "flush"
          PROVE  /\ Waits(v, q[k].by) /\ caller'[q[k].by] = caller[q[k].by] /\ q[k].by \in Caller
                 /\ \A j \in DOMAIN q : j > k => Behind(q[k].by, q[j])
      <4>1. q[k] \in Command /\ q[k].kind # "item"
        BY <3>1, <3>2
      <4>2. q[k] = FlushFor(q[k].by) /\ q[k].by \in Caller
        BY <4>1, Commands
      <4>3. Waits(v, q[k].by) /\ \A j \in DOMAIN q : j > k => Behind(q[k].by, q[j])
        BY <3>1, <3>2 DEF QueuedFlushes
      <4>4. q[k].by \notin cs
        <5>1. v = "audit"
          BY <4>3 DEF Waits
        <5>2. QED
          BY <1>11, <4>2, <5>1 DEF Behind
      <4>5. QED
        BY <1>3, <4>2, <4>3, <4>4
    <3> HIDE DEF q
    <3>3. QED
      BY <1>2, <1>3, <3>2 DEF QueuedFlushes, Waits, Behind, q
  <2>2. ASSUME NEW v \in WriterTask PROVE TakenFlushes(v)'
    <3>1. CASE v = w
      BY <1>2, <3>1 DEF TakenFlushes
    <3>2. CASE v # w
      <4>1. ASSUME NEW d \in chan[v].ackTo
            PROVE  /\ d \in Caller /\ Waits(v, d) /\ caller'[d] = caller[d] /\ chan[v].at = "writing"
                   /\ \A k \in DOMAIN chan[v].queue : Behind(d, chan[v].queue[k])
        <5>1. d \in Caller
          BY <1>1 DEF Channel
        <5>2. Waits(v, d) /\ chan[v].at = "writing" /\ \A k \in DOMAIN chan[v].queue : Behind(d, chan[v].queue[k])
          BY <1>1 DEF QueueInv, Flushes, TakenFlushes
        <5>3. d \notin cs
          BY <1>11, <3>2, <5>2 DEF Waits
        <5>4. QED
          BY <1>3, <5>1, <5>2, <5>3
      <4>2. QED
        BY <1>2, <1>3, <3>2, <4>1 DEF TakenFlushes, Waits, Behind
    <3>3. QED
      BY <3>1, <3>2
  <2>3. QED
    BY <2>1, <2>2 DEF Flushes
<1>13. LoginsFollowEarlierEvents'
  <2>1. Items(chan'["audit"].queue) \cup ToSet(chan'["audit"].batch) \subseteq Pending("audit")
    BY <1>6 DEF WriterTask
  <2>2. ASSUME NEW d \in cs
        PROVE  caller[d].earlier \cap (Items(chan'["audit"].queue) \cup ToSet(chan'["audit"].batch)) = {}
    <3>1. caller[d].earlier \cap Items(chan[w].queue) = {} /\ w = "audit"
      BY <1>11 DEF Behind, Items
    <3>2. QED
      BY <1>6, <3>1
  <2>3. QED
    BY <1>3, <2>1, <2>2 DEF QueueInv, LoginsFollowEarlierEvents, Pending
<1>14. QED
  BY <1>7, <1>8, <1>9, <1>10, <1>12, <1>13 DEF QueueInv

(* A shutdown closes one queue after the other.                            *)
LEMMA CloseKeeps ==
  ASSUME QueueInv, NEW w \in WriterTask, Up, runPhase' \in {"history", "audit"},
         runPhase' = "audit" => chan["history"].at = "gone",
         chan' = [chan EXCEPT ![w].open = FALSE],
         UNCHANGED <<late, kept, lost, offered, clone, caller>>
  PROVE  QueueInv'
<1>1. /\ late' = late /\ kept' = kept /\ lost' = lost /\ offered' = offered
      /\ clone' = clone /\ caller' = caller /\ Up' /\ chan \in [WriterTask -> Channel]
  BY DEF QueueInv, QueueTypes, Up
<1>2. /\ chan' \in [WriterTask -> Channel]
      /\ \A v \in WriterTask : chan'[v].open => chan[v].open
      /\ \A v \in WriterTask : /\ chan'[v].queue = chan[v].queue /\ chan'[v].batch = chan[v].batch
                               /\ chan'[v].at = chan[v].at /\ chan'[v].ackTo = chan[v].ackTo
  <2> DEFINE new == [chan[w] EXCEPT !.open = FALSE]
  <2>1. /\ new \in Channel /\ new.queue = chan[w].queue /\ new.batch = chan[w].batch
        /\ new.at = chan[w].at /\ new.ackTo = chan[w].ackTo
    <3>1. ASSUME NEW b \in BOOLEAN, NEW q \in Channel
          PROVE  LET r == [q EXCEPT !.open = b]
                 IN  /\ r \in Channel /\ r.queue = q.queue /\ r.batch = q.batch
                     /\ r.at = q.at /\ r.ackTo = q.ackTo
      BY DEF Channel
    <3>2. chan[w] \in Channel /\ FALSE \in BOOLEAN
      BY <1>1
    <3>3. QED
      BY <3>1, <3>2, Zenon
  <2>2. ~new.open
    <3>1. ASSUME NEW b, NEW q \in Channel PROVE [q EXCEPT !.open = b].open = b
      BY DEF Channel
    <3>2. chan[w] \in Channel
      BY <1>1
    <3>3. new.open = FALSE
      BY <3>1, <3>2, Zenon
    <3>4. QED
      BY <3>3, Zenon
  <2>3. chan' = [chan EXCEPT ![w] = new]
    OBVIOUS
  <2> HIDE DEF new
  <2>4. chan'[w] = new /\ \A v \in WriterTask : v # w => chan'[v] = chan[v]
    BY <1>1, <2>3
  <2>5. chan' \in [WriterTask -> Channel]
    BY <1>1, <2>1, <2>3
  <2>6. \A v \in WriterTask : chan'[v].open => chan[v].open
    BY <2>2, <2>4, Zenon
  <2>7. QED
    BY <2>1, <2>4, <2>5, <2>6
<1>3. QueueTypes' /\ Numbered' /\ LoginsFollowEarlierEvents'
  BY <1>1, <1>2 DEF QueueInv, QueueTypes, Numbered, LoginsFollowEarlierEvents, Pending, WriterTask
<1>4. Accounted'
  BY <1>1, <1>2 DEF QueueInv, Accounted, There, Pending
<1>5. Drains'
  <2>1. ASSUME NEW v \in WriterTask, chan'[v].at = "gone" PROVE Emptied(v)'
    <3>1. Emptied(v)
      BY <1>2, <2>1 DEF QueueInv, Drains
    <3>2. QED
      BY <1>1, <1>2, <3>1 DEF Emptied, Senders
  <2>2. QED
    BY <1>2, <2>1 DEF Drains, WriterTask
<1>6. Flushes'
  BY <1>1, <1>2 DEF QueueInv, Flushes, QueuedFlushes, TakenFlushes, Waits, Behind
<1>7. QED
  BY <1>3, <1>4, <1>5, <1>6 DEF QueueInv

LEMMA ClosesKeep == ASSUME QueueInv, FinalSnapshot \/ HistoryDrained PROVE QueueInv'
BY CloseKeeps DEF FinalSnapshot, HistoryDrained, Closes, Up, WriterTask

(* The process ends: a batch that was being written may still be kept; an  *)
(* end in time comes when both writers have gone.                          *)
LEMMA EndsKeep ==
  ASSUME QueueInv, NEW l \in BOOLEAN, Up, Ends(l),
         ~l => runPhase = "audit" /\ chan["audit"].at = "gone"
  PROVE  QueueInv'
<1>1. /\ runPhase' = "exited" /\ ~Up' /\ late' = l /\ chan' = chan /\ lost' = lost /\ offered' = offered
      /\ chan \in [WriterTask -> Channel] /\ kept \in [WriterTask -> Seq(Nat)]
      /\ lost \in [WriterTask -> SUBSET Nat] /\ offered \in [WriterTask -> Nat]
  BY DEF QueueInv, QueueTypes, Ends, Up
<1>2. /\ kept' \in [WriterTask -> Seq(Nat)]
      /\ \A w \in WriterTask : ToSet(kept[w]) \subseteq ToSet(kept'[w])
  <2>1. PICK done \in SUBSET WriterTask :
          kept' = [w \in WriterTask |-> IF w \in done THEN kept[w] \o chan[w].batch ELSE kept[w]]
    BY DEF Ends
  <2>2. ASSUME NEW w \in WriterTask
        PROVE  kept'[w] \in Seq(Nat) /\ ToSet(kept[w]) \subseteq ToSet(kept'[w])
    <3>1. kept[w] \in Seq(Nat) /\ chan[w].batch \in Seq(Nat)
      BY <1>1 DEF Channel
    <3>2. /\ kept[w] \o chan[w].batch \in Seq(Nat)
          /\ ToSet(kept[w] \o chan[w].batch) = ToSet(kept[w]) \cup ToSet(chan[w].batch)
      BY <3>1, ConcatSet
    <3>3. kept'[w] = kept[w] \o chan[w].batch \/ kept'[w] = kept[w]
      BY <2>1
    <3>4. QED
      BY <3>1, <3>2, <3>3
  <2>3. QED
    BY <2>1, <2>2
<1>3. /\ clone' \in [Session -> BOOLEAN] /\ \A s \in Session : ~clone'[s]
  BY DEF Ends
<1>4. /\ caller' \in [Caller -> Request]
      /\ \A c \in Caller : caller'[c].at = "none" /\ caller'[c].earlier = {}
  <2>1. NoCall \in Request
    BY DEF NoCall, Request
  <2>2. QED
    BY <2>1 DEF Ends, NoCall
<1>5. QueueTypes'
  BY <1>1, <1>2, <1>3, <1>4 DEF QueueTypes
<1>6. ASSUME ~l, NEW w \in WriterTask PROVE chan[w].at = "gone" /\ Pending(w) = {}
  <2>1. chan[w].at = "gone"
    BY <1>6 DEF QueueInv, Drains, WriterTask
  <2>2. chan[w].queue = <<>> /\ chan[w].batch = <<>>
    BY <2>1 DEF QueueInv, Drains, Emptied
  <2>3. QED
    BY <2>1, <2>2 DEF Pending, Items, ToSet
<1>7. Accounted'
  <2>1. \A w \in WriterTask : 1 .. offered[w] \subseteq There(w) \cup Pending(w)
    BY DEF QueueInv, Accounted
  <2>2. ASSUME ~l, NEW w \in WriterTask PROVE 1 .. offered[w] \subseteq ToSet(kept'[w]) \cup lost[w]
    BY <1>2, <1>6, <2>1, <2>2 DEF There
  <2>3. QED
    BY <1>1, <2>2 DEF Accounted, There
<1>8. Numbered' /\ LoginsFollowEarlierEvents'
  BY <1>1, <1>4 DEF QueueInv, Numbered, LoginsFollowEarlierEvents, Pending
<1>9. Drains'
  <2>1. ASSUME NEW v \in WriterTask, chan[v].at = "gone" PROVE Emptied(v)'
    <3>1. Emptied(v)
      BY <2>1 DEF QueueInv, Drains
    <3>2. QED
      BY <1>1, <1>3, <1>4, <3>1 DEF Emptied, Senders
  <2>2. QED
    BY <1>1, <1>6, <2>1 DEF Drains
<1>10. Flushes'
  BY <1>1 DEF Flushes
<1>11. QED
  BY <1>5, <1>7, <1>8, <1>9, <1>10 DEF QueueInv

LEMMA ExitKeeps == ASSUME QueueInv, AuditDrained \/ PersistenceDeadline \/ Kill PROVE QueueInv'
<1>1. CASE AuditDrained
  <2>1. Up /\ Ends(FALSE) /\ runPhase = "audit" /\ chan["audit"].at = "gone" /\ FALSE \in BOOLEAN
    BY <1>1 DEF AuditDrained, Up
  <2>2. QED
    BY <2>1, EndsKeep
<1>2. CASE PersistenceDeadline \/ Kill
  <2>1. Up /\ Ends(TRUE) /\ TRUE \in BOOLEAN
    BY <1>2 DEF PersistenceDeadline, Kill, Up
  <2>2. QED
    BY <2>1, EndsKeep
<1>3. QED
  BY <1>1, <1>2

(* A start counts what the databases do not have as lost.                  *)
LEMMA RestartKeeps == ASSUME QueueInv, StartAgain PROVE QueueInv'
<1>1. /\ runPhase' = "running" /\ late' = late /\ kept' = kept /\ offered' = offered
      /\ clone' = clone /\ caller' = caller /\ Up'
      /\ lost' = [w \in WriterTask |-> 1 .. offered[w] \ ToSet(kept[w])]
      /\ kept \in [WriterTask -> Seq(Nat)] /\ offered \in [WriterTask -> Nat]
  BY DEF QueueInv, QueueTypes, StartAgain, Up
<1>2. /\ chan' \in [WriterTask -> Channel]
      /\ \A w \in WriterTask : /\ chan'[w].queue = <<>> /\ chan'[w].batch = <<>>
                               /\ chan'[w].at = "up" /\ chan'[w].ackTo = {}
  <2>1. Queue \in Channel
    BY DEF Queue, Channel
  <2>2. QED
    BY <2>1 DEF StartAgain, Queue
<1>3. QueueTypes'
  <2>1. \A w \in WriterTask : 1 .. offered[w] \ ToSet(kept[w]) \in SUBSET Nat
    OBVIOUS
  <2>2. lost' \in [WriterTask -> SUBSET Nat]
    BY <1>1, <2>1
  <2>3. QED
    BY <1>1, <1>2, <2>2 DEF QueueInv, QueueTypes
<1>4. Accounted'
  BY <1>1 DEF Accounted, There
<1>5. Numbered' /\ LoginsFollowEarlierEvents'
  <2>1. \A w \in WriterTask : Items(chan'[w].queue) \cup ToSet(chan'[w].batch) = {}
    BY <1>2 DEF Items, ToSet
  <2>2. QED
    BY <1>1, <2>1 DEF QueueInv, Numbered, LoginsFollowEarlierEvents, Pending, WriterTask
<1>6. Drains'
  BY <1>1, <1>2 DEF Drains
<1>7. Flushes'
  BY <1>2 DEF Flushes, QueuedFlushes, TakenFlushes
<1>8. QED
  BY <1>3, <1>4, <1>5, <1>6, <1>7 DEF QueueInv

LEMMA QueueStep == QueueInv /\ [StopNext]_stopVars => QueueInv'
<1> SUFFICES ASSUME QueueInv, [StopNext]_stopVars PROVE QueueInv'
  OBVIOUS
<1>1. CASE UNCHANGED stopVars
  BY <1>1, QueuesAlone DEF stopVars
<1>2. ASSUME NEW n \in Enrolment, Register(n) \/ Report(n) \/ Revoke(n) \/ Forget(n) \/ Removed(n)
      PROVE  QueueInv'
  BY <1>2, QueuesAlone DEF Register, Report, Revoke, Forget, Removed
<1>3. ASSUME NEW o \in Owner, Lock(o) \/ List(o) \/ Persist(o) PROVE QueueInv'
  BY <1>3, QueuesAlone DEF Lock, List, Persist
<1>4. CASE RaiseIt \/ SnapshotTick \/ Ticked \/ TickerEnds
  BY <1>4, QueuesAlone DEF RaiseIt, SnapshotTick, Ticked, TickerEnds
<1>5. ASSUME NEW s \in Session, TakeSender(s) \/ RecordStatus(s) PROVE QueueInv'
  BY <1>5, TakeSenderKeeps, RecordStatusKeeps
<1>6. CASE RecordEvent
  BY <1>6, RecordEventKeeps
<1>7. ASSUME NEW c \in Caller, Call(c) \/ SendFlush(c) \/ Insert(c) PROVE QueueInv'
  BY <1>7, CallKeeps, SendFlushKeeps, InsertKeeps
<1>8. ASSUME NEW w \in WriterTask, TakeCommand(w) \/ FlushTimer(w) \/ Written(w) \/ WriterEnds(w)
      PROVE  QueueInv'
  BY <1>8, TakeCommandKeeps, FlushTimerKeeps, WrittenKeeps, WriterEndsKeeps
<1>9. CASE Signal \/ HttpEnds \/ Drained
  BY <1>9, QueuesAlone DEF Signal, HttpEnds, Drained, Reached, Up
<1>10. CASE FinalSnapshot \/ HistoryDrained
  BY <1>10, ClosesKeep
<1>11. CASE AuditDrained \/ PersistenceDeadline \/ Kill
  BY <1>11, ExitKeeps
<1>12. CASE StartAgain
  BY <1>12, RestartKeeps
<1>13. QED
  BY <1>1, <1>2, <1>3, <1>4, <1>5, <1>6, <1>7, <1>8, <1>9, <1>10, <1>11, <1>12 DEF StopNext

(* What the queues accepted is in them, in the databases or counted as     *)
(* lost, and after a shutdown in time none of it is left in memory; a      *)
(* login is inserted behind every event that was queued before it          *)
(* (history/writer.rs, audit/writer.rs, startup/shutdown.rs).              *)
THEOREM AcceptedIsAccountedFor == StopSpec => []AcceptedIsKept
<1>1. QueueInv => AcceptedIsKept
  <2> SUFFICES ASSUME QueueInv PROVE AcceptedIsKept
    OBVIOUS
  <2>1. ASSUME NEW w \in WriterTask, runPhase = "exited", ~late PROVE Pending(w) = {}
    <3>1. chan[w].queue = <<>> /\ chan[w].batch = <<>>
      BY <2>1 DEF QueueInv, Drains, Emptied
    <3>2. QED
      BY <3>1 DEF Pending, Items, ToSet
  <2>2. AcceptedIsAccounted
    BY <2>1 DEF QueueInv, Accounted, There, AcceptedIsAccounted
  <2>3. QED
    BY <2>2 DEF QueueInv, AcceptedIsKept
<1>2. QED
  BY QueueInit, QueueStep, <1>1, PTL DEF StopSpec

----------------------------------------------------------------------------
(* The views of browsers.                                                 *)

(* The types of the views: a state of a node, a view of all of them, the  *)
(* rows of a batch, a batch, the shared frame, what a page was sent, the  *)
(* two ends of a stream, a poll, a task that changes nodes, the diff      *)
(* task.                                                                  *)
States == [ver : Nat, here : BOOLEAN]
Views == [ViewNode -> States]
Rows == UNION {[S -> States] : S \in SUBSET ViewNode}
Batches == [rev : Int, rows : Rows, at : Nat]
Frames == [rev : Nat, nodes : Views, age : Nat, at : Nat]
Seens == [at : Nat, missed : SUBSET ViewNode, due : Views]
Viewers ==
  [stage : {"none", "subscribed", "live"}, base : Nat, queue : Seq(Batches), lagged : BOOLEAN]
PollSteps == {"look", "lock", "build", "store", "answer"}
Polls ==
  [step : PollSteps, rev : Nat, aborted : BOOLEAN, body : Views, since : [ViewNode -> Nat]]
Pages ==
  [link : {"idle", "waiting", "connecting", "open"}, shows : Views, poll : Polls \cup {NoPoll}]
WriterStates == [step : {"idle", "changed", "bumped"}, nodes : SUBSET ViewNode]
Tasks ==
  [step : {"wait", "count", "drop", "diff", "read", "publish", "send"}, dirty : BOOLEAN,
   last : Views, batch : Batches]

ViewTypes ==
  /\ truth \in Views /\ revision \in Nat /\ announced \in [ViewNode -> Nat]
  /\ writers \in [Updater -> WriterStates]
  /\ early \in [read : SUBSET ViewNode, compared : SUBSET ViewNode]
  /\ signal \in BOOLEAN /\ task \in Tasks /\ published \in Nat
  /\ slot \in Frames \cup {NoFrame}
  /\ viewer \in [Browser -> Viewers] /\ page \in [Browser -> Pages]
  /\ clock \in Nat /\ began \in Nat /\ seen \in [Browser -> Seens]
  /\ cache \in [rev : Nat, body : Views]

LEMMA FramesAreFrames == \A f \in Frames : f # NoFrame
  BY DEF Frames, NoFrame

LEMMA PollsArePolls == \A p \in Polls : p # NoPoll
<1> SUFFICES ASSUME NEW p \in Polls PROVE p # NoPoll
  OBVIOUS
<1>1. p.step \in PollSteps
  BY DEF Polls
<1>2. NoPoll.step = "none"
  BY DEF NoPoll
<1> QED
  BY <1>1, <1>2 DEF PollSteps

(* The server and the pages begin with nothing.                           *)
LEMMA ViewTypesInit == ViewInit => ViewTypes
<1> SUFFICES ASSUME ViewInit PROVE ViewTypes
  OBVIOUS
<1>1. Absent \in States /\ NoNodes \in Views
  BY DEF Absent, States, NoNodes, Views
<1>2. << >> \in [{} -> States] /\ {} \in SUBSET ViewNode
  OBVIOUS
<1>3. NoBatch \in Batches
  <2>1. << >> \in Rows
    BY <1>2 DEF Rows
  <2> QED
    BY <2>1 DEF NoBatch, Batches
<1>4. task \in Tasks
  BY <1>1, <1>3 DEF ViewInit, Tasks
<1>5. Off \in Viewers
  BY DEF Off, Viewers
<1>6. viewer \in [Browser -> Viewers]
  BY <1>5 DEF ViewInit
<1>7. [link |-> "idle", shows |-> NoNodes, poll |-> NoPoll] \in Pages
  BY <1>1 DEF Pages
<1>8. page \in [Browser -> Pages]
  BY <1>7 DEF ViewInit
<1>9. writers \in [Updater -> WriterStates]
  BY DEF ViewInit, WriterStates
<1>10. seen \in [Browser -> Seens]
  BY <1>1 DEF ViewInit, Unseen, Seens
<1> QED
  BY <1>1, <1>4, <1>6, <1>8, <1>9, <1>10 DEF ViewInit, ViewTypes

(* A page, a stream and a poll have the parts they are made of.           *)
Links == {"idle", "waiting", "connecting", "open"}
Page(l, s, q) == [link |-> l, shows |-> s, poll |-> q]

LEMMA PageParts ==
  /\ \A p \in Pages :
       /\ p.link \in Links /\ p.shows \in Views /\ p.poll \in Polls \cup {NoPoll}
       /\ p = Page(p.link, p.shows, p.poll)
  /\ \A l \in Links, s \in Views, q \in Polls \cup {NoPoll} :
       /\ Page(l, s, q) \in Pages
       /\ Page(l, s, q).link = l /\ Page(l, s, q).shows = s /\ Page(l, s, q).poll = q
  BY DEF Pages, Page, Links

Viewer(g, r, q, d) == [stage |-> g, base |-> r, queue |-> q, lagged |-> d]
LEMMA ViewerParts ==
  /\ \A v \in Viewers :
       /\ v.stage \in {"none", "subscribed", "live"} /\ v.base \in Nat
       /\ v.queue \in Seq(Batches) /\ v.lagged \in BOOLEAN
       /\ v = Viewer(v.stage, v.base, v.queue, v.lagged)
  /\ \A g \in {"none", "subscribed", "live"}, r \in Nat, q \in Seq(Batches), d \in BOOLEAN :
       /\ Viewer(g, r, q, d) \in Viewers
       /\ Viewer(g, r, q, d).stage = g /\ Viewer(g, r, q, d).base = r
       /\ Viewer(g, r, q, d).queue = q /\ Viewer(g, r, q, d).lagged = d
  BY DEF Viewers, Viewer

Poll(t, r, a, y, z) == [step |-> t, rev |-> r, aborted |-> a, body |-> y, since |-> z]
LEMMA PollParts ==
  /\ \A p \in Polls :
       /\ p # NoPoll /\ p.step \in PollSteps /\ p.step # "none"
       /\ p.rev \in Nat /\ p.aborted \in BOOLEAN /\ p.body \in Views /\ p.since \in [ViewNode -> Nat]
       /\ p = Poll(p.step, p.rev, p.aborted, p.body, p.since)
  /\ \A t \in PollSteps, r \in Nat, a \in BOOLEAN, y \in Views, z \in [ViewNode -> Nat] :
       /\ Poll(t, r, a, y, z) \in Polls
       /\ Poll(t, r, a, y, z).step = t /\ Poll(t, r, a, y, z).rev = r
       /\ Poll(t, r, a, y, z).aborted = a /\ Poll(t, r, a, y, z).body = y
       /\ Poll(t, r, a, y, z).since = z
  /\ NoPoll.step = "none"
  BY PollsArePolls DEF Polls, Poll, PollSteps, NoPoll

LEMMA TouchedPoll ==
  ASSUME NEW p \in Polls \cup {NoPoll}
  PROVE  /\ Touched(p) \in Polls \cup {NoPoll}
         /\ p = NoPoll <=> Touched(p) = NoPoll
         /\ p # NoPoll => Touched(p) = Poll(p.step, p.rev, TRUE, p.body, p.since)
<1>1. CASE p = NoPoll
  BY <1>1, PollParts DEF Touched
<1>2. CASE p \in Polls
  <2>1. Touched(p) = [p EXCEPT !.aborted = TRUE]
    BY <1>2, PollParts DEF Touched
  <2>2. PICK u : u = [p EXCEPT !.aborted = TRUE]
    OBVIOUS
  <2>7. u \in Polls
    BY <1>2, <2>2 DEF Polls
  <2>8. u.step = p.step /\ u.rev = p.rev /\ u.aborted /\ u.body = p.body /\ u.since = p.since
    BY <1>2, <2>2 DEF Polls
  <2>9. u.aborted = TRUE
    BY <2>7, <2>8, PollParts
  <2>3. [p EXCEPT !.aborted = TRUE] = Poll(p.step, p.rev, TRUE, p.body, p.since)
    <3>1. u = Poll(u.step, u.rev, u.aborted, u.body, u.since)
      BY <2>7, PollParts
    <3>2. u = Poll(p.step, p.rev, TRUE, p.body, p.since)
      BY <2>8, <2>9, <3>1, Zenon
    <3> QED
      BY <2>2, <3>2, Zenon
  <2>4. p.step \in PollSteps /\ p.rev \in Nat /\ p.body \in Views /\ p.since \in [ViewNode -> Nat]
    BY <1>2, PollParts
  <2>5. Poll(p.step, p.rev, TRUE, p.body, p.since) \in Polls
    BY <2>4, PollParts, Zenon
  <2>6. p # NoPoll /\ Poll(p.step, p.rev, TRUE, p.body, p.since) # NoPoll
    BY <1>2, <2>5, PollsArePolls
  <2> QED
    BY <2>1, <2>3, <2>5, <2>6
<1> QED
  BY <1>1, <1>2

(* Only the page of b changes: the link is l, it shows s, and its poll is *)
(* q.                                                                     *)
PageEdited(f, g, b, l, s, q) ==
  /\ g \in [Browser -> Pages]
  /\ g[b].link = l /\ g[b].shows = s /\ g[b].poll = q
  /\ \A c \in Browser \ {b} : g[c] = f[c]

LEMMA EditShows ==
  ASSUME NEW f \in [Browser -> Pages], NEW b \in Browser, NEW s \in Views, NEW q \in Polls \cup {NoPoll},
         NEW g, g = [f EXCEPT ![b].shows = s, ![b].poll = q]
  PROVE  PageEdited(f, g, b, f[b].link, s, q)
<1>1. g[b] = [f[b] EXCEPT !.shows = s, !.poll = q]
  OBVIOUS
<1>2. \A c \in Browser \ {b} : g[c] = f[c]
  OBVIOUS
<1>3. DOMAIN g = Browser /\ g = [c \in Browser |-> g[c]]
  OBVIOUS
<1>4. PICK p \in Pages : p = f[b]
  OBVIOUS
<1>5. [p EXCEPT !.shows = s, !.poll = q] \in Pages
  BY DEF Pages
<1>6. g[b].link = p.link /\ g[b].shows = s /\ g[b].poll = q
  BY <1>1, <1>4 DEF Pages
<1> QED
  BY <1>1, <1>2, <1>3, <1>4, <1>5, <1>6 DEF PageEdited

LEMMA EditLink ==
  ASSUME NEW f \in [Browser -> Pages], NEW b \in Browser, NEW l \in Links, NEW q \in Polls \cup {NoPoll},
         NEW g, g = [f EXCEPT ![b].link = l, ![b].poll = q]
  PROVE  PageEdited(f, g, b, l, f[b].shows, q)
<1>1. g[b] = [f[b] EXCEPT !.link = l, !.poll = q]
  OBVIOUS
<1>2. \A c \in Browser \ {b} : g[c] = f[c]
  OBVIOUS
<1>3. DOMAIN g = Browser /\ g = [c \in Browser |-> g[c]]
  OBVIOUS
<1>4. PICK p \in Pages : p = f[b]
  OBVIOUS
<1>5. [p EXCEPT !.link = l, !.poll = q] \in Pages
  BY DEF Pages, Links
<1>6. g[b].link = l /\ g[b].shows = p.shows /\ g[b].poll = q
  BY <1>1, <1>4 DEF Pages
<1> QED
  BY <1>1, <1>2, <1>3, <1>4, <1>5, <1>6 DEF PageEdited

LEMMA EditLinkOnly ==
  ASSUME NEW f \in [Browser -> Pages], NEW b \in Browser, NEW l \in Links,
         NEW g, g = [f EXCEPT ![b].link = l]
  PROVE  PageEdited(f, g, b, l, f[b].shows, f[b].poll)
<1>1. g[b] = [f[b] EXCEPT !.link = l]
  OBVIOUS
<1>2. \A c \in Browser \ {b} : g[c] = f[c]
  OBVIOUS
<1>3. DOMAIN g = Browser /\ g = [c \in Browser |-> g[c]]
  OBVIOUS
<1>4. PICK p \in Pages : p = f[b]
  OBVIOUS
<1>5. [p EXCEPT !.link = l] \in Pages
  BY DEF Pages, Links
<1>6. g[b].link = l /\ g[b].shows = p.shows /\ g[b].poll = p.poll
  BY <1>1, <1>4 DEF Pages
<1> QED
  BY <1>1, <1>2, <1>3, <1>4, <1>5, <1>6 DEF PageEdited

LEMMA EditPoll ==
  ASSUME NEW f \in [Browser -> Pages], NEW b \in Browser, NEW q \in Polls \cup {NoPoll},
         NEW g, g = [f EXCEPT ![b].poll = q]
  PROVE  PageEdited(f, g, b, f[b].link, f[b].shows, q)
<1>1. g[b] = [f[b] EXCEPT !.poll = q]
  OBVIOUS
<1>2. \A c \in Browser \ {b} : g[c] = f[c]
  OBVIOUS
<1>3. DOMAIN g = Browser /\ g = [c \in Browser |-> g[c]]
  OBVIOUS
<1>4. PICK p \in Pages : p = f[b]
  OBVIOUS
<1>5. [p EXCEPT !.poll = q] \in Pages
  BY DEF Pages
<1>6. g[b].link = p.link /\ g[b].shows = p.shows /\ g[b].poll = q
  BY <1>1, <1>4 DEF Pages
<1> QED
  BY <1>1, <1>2, <1>3, <1>4, <1>5, <1>6 DEF PageEdited

LEMMA SamePoll ==
  ASSUME NEW u \in Polls, NEW t, NEW r, NEW a, NEW y, NEW z,
         u.step = t, u.rev = r, u.aborted = a, u.body = y, u.since = z
  PROVE  u = Poll(t, r, a, y, z)
<1>1. u = Poll(u.step, u.rev, u.aborted, u.body, u.since)
  BY PollParts
<1> QED
  BY <1>1, Zenon

(* A poll goes on: an answer, a step, a step under the lock.              *)
LEMMA EditAnswer ==
  ASSUME NEW f \in [Browser -> Pages], NEW b \in Browser, NEW t \in PollSteps, NEW y \in Views,
         NEW p \in Polls, f[b].poll = p,
         NEW g, g = [f EXCEPT ![b].poll.step = t, ![b].poll.body = y]
  PROVE  PageEdited(f, g, b, f[b].link, f[b].shows, Poll(t, p.rev, p.aborted, y, p.since))
<1>1. g[b] = [f[b] EXCEPT !.poll.step = t, !.poll.body = y]
  OBVIOUS
<1>2. \A c \in Browser \ {b} : g[c] = f[c]
  OBVIOUS
<1>3. DOMAIN g = Browser /\ g = [c \in Browser |-> g[c]]
  OBVIOUS
<1>4. PICK h \in Pages : h = f[b]
  OBVIOUS
<1>5. g[b].link = h.link /\ g[b].shows = h.shows /\ g[b].poll = [p EXCEPT !.step = t, !.body = y]
  BY <1>1, <1>4 DEF Pages
<1>6. PICK u : u = [p EXCEPT !.step = t, !.body = y]
  OBVIOUS
<1>7. u \in Polls
  BY <1>6 DEF Polls
<1>8. u.step = t /\ u.rev = p.rev /\ u.aborted = p.aborted /\ u.body = y /\ u.since = p.since
  BY <1>6 DEF Polls
<1>9. u = Poll(t, p.rev, p.aborted, y, p.since)
  BY <1>7, <1>8, SamePoll
<1>10. g[b] \in Pages
  <2>1. g[b] = [[h EXCEPT !.poll.step = t] EXCEPT !.poll.body = y]
    BY <1>1, <1>4
  <2>2. g[b] = [h EXCEPT !.poll = u]
    BY <1>1, <1>4, <1>6 DEF Pages
  <2> QED
    BY <1>7, <2>2 DEF Pages
<1> QED
  BY <1>2, <1>3, <1>4, <1>5, <1>6, <1>9, <1>10 DEF PageEdited

LEMMA EditStep ==
  ASSUME NEW f \in [Browser -> Pages], NEW b \in Browser, NEW t \in PollSteps, NEW r \in Nat,
         NEW p \in Polls, f[b].poll = p,
         NEW g, g = [f EXCEPT ![b].poll.step = t, ![b].poll.rev = r]
  PROVE  PageEdited(f, g, b, f[b].link, f[b].shows, Poll(t, r, p.aborted, p.body, p.since))
<1>1. g[b] = [f[b] EXCEPT !.poll.step = t, !.poll.rev = r]
  OBVIOUS
<1>2. \A c \in Browser \ {b} : g[c] = f[c]
  OBVIOUS
<1>3. DOMAIN g = Browser /\ g = [c \in Browser |-> g[c]]
  OBVIOUS
<1>4. PICK h \in Pages : h = f[b]
  OBVIOUS
<1>5. g[b].link = h.link /\ g[b].shows = h.shows /\ g[b].poll = [p EXCEPT !.step = t, !.rev = r]
  BY <1>1, <1>4 DEF Pages
<1>6. PICK u : u = [p EXCEPT !.step = t, !.rev = r]
  OBVIOUS
<1>7. u \in Polls
  BY <1>6 DEF Polls
<1>8. u.step = t /\ u.rev = r /\ u.aborted = p.aborted /\ u.body = p.body /\ u.since = p.since
  BY <1>6 DEF Polls
<1>9. u = Poll(t, r, p.aborted, p.body, p.since)
  BY <1>7, <1>8, SamePoll
<1>10. g[b] \in Pages
  <2>2. g[b] = [h EXCEPT !.poll = u]
    BY <1>1, <1>4, <1>6 DEF Pages
  <2> QED
    BY <1>7, <2>2 DEF Pages
<1> QED
  BY <1>2, <1>3, <1>4, <1>5, <1>6, <1>9, <1>10 DEF PageEdited

LEMMA EditLocking ==
  ASSUME NEW f \in [Browser -> Pages], NEW b \in Browser, NEW t \in PollSteps,
         NEW p \in Polls, f[b].poll = p, NEW g, g = [f EXCEPT ![b].poll.step = t]
  PROVE  PageEdited(f, g, b, f[b].link, f[b].shows, Poll(t, p.rev, p.aborted, p.body, p.since))
<1>1. g[b] = [f[b] EXCEPT !.poll.step = t]
  OBVIOUS
<1>2. \A c \in Browser \ {b} : g[c] = f[c]
  OBVIOUS
<1>3. DOMAIN g = Browser /\ g = [c \in Browser |-> g[c]]
  OBVIOUS
<1>4. PICK h \in Pages : h = f[b]
  OBVIOUS
<1>5. g[b].link = h.link /\ g[b].shows = h.shows /\ g[b].poll = [p EXCEPT !.step = t]
  BY <1>1, <1>4 DEF Pages
<1>6. PICK u : u = [p EXCEPT !.step = t]
  OBVIOUS
<1>7. u \in Polls
  BY <1>6 DEF Polls
<1>8. u.step = t /\ u.rev = p.rev /\ u.aborted = p.aborted /\ u.body = p.body /\ u.since = p.since
  BY <1>6 DEF Polls
<1>9. u = Poll(t, p.rev, p.aborted, p.body, p.since)
  BY <1>7, <1>8, SamePoll
<1>10. g[b] \in Pages
  <2>2. g[b] = [h EXCEPT !.poll = u]
    BY <1>1, <1>4, <1>6 DEF Pages
  <2> QED
    BY <1>7, <2>2 DEF Pages
<1> QED
  BY <1>2, <1>3, <1>4, <1>5, <1>6, <1>9, <1>10 DEF PageEdited

(* Only the stream of b changes.                                          *)
ViewerEdited(f, g, b, stage, base, queue, lagged) ==
  /\ g \in [Browser -> Viewers]
  /\ g[b].stage = stage /\ g[b].base = base /\ g[b].queue = queue /\ g[b].lagged = lagged
  /\ \A c \in Browser \ {b} : g[c] = f[c]

LEMMA EditResync ==
  ASSUME NEW f \in [Browser -> Viewers], NEW b \in Browser, NEW r \in Nat,
         NEW g, g = [f EXCEPT ![b].stage = "live", ![b].base = r, ![b].lagged = FALSE]
  PROVE  ViewerEdited(f, g, b, "live", r, f[b].queue, FALSE)
<1>1. g[b] = [f[b] EXCEPT !.stage = "live", !.base = r, !.lagged = FALSE]
  OBVIOUS
<1>2. \A c \in Browser \ {b} : g[c] = f[c]
  OBVIOUS
<1>3. DOMAIN g = Browser /\ g = [c \in Browser |-> g[c]]
  OBVIOUS
<1>4. PICK v \in Viewers : v = f[b]
  OBVIOUS
<1>5. [v EXCEPT !.stage = "live", !.base = r, !.lagged = FALSE] \in Viewers
  BY DEF Viewers
<1>6. g[b].stage = "live" /\ g[b].base = r /\ g[b].queue = v.queue /\ g[b].lagged = FALSE
  BY <1>1, <1>4 DEF Viewers
<1> QED
  BY <1>1, <1>2, <1>3, <1>4, <1>5, <1>6 DEF ViewerEdited

LEMMA EditQueue ==
  ASSUME NEW f \in [Browser -> Viewers], NEW b \in Browser, f[b].queue # << >>,
         NEW g, g = [f EXCEPT ![b].queue = Tail(@)]
  PROVE  ViewerEdited(f, g, b, f[b].stage, f[b].base, Tail(f[b].queue), f[b].lagged)
<1>1. PICK v \in Viewers : v = f[b]
  OBVIOUS
<1>2. PICK q : q = Tail(v.queue)
  OBVIOUS
<1>3. q \in Seq(Batches)
  BY <1>1, <1>2 DEF Viewers
<1>4. g[b] = [v EXCEPT !.queue = q]
  BY <1>1, <1>2
<1>5. [v EXCEPT !.queue = q] \in Viewers
  BY <1>3 DEF Viewers
<1>6. g[b].stage = v.stage /\ g[b].base = v.base /\ g[b].queue = q /\ g[b].lagged = v.lagged
  BY <1>4 DEF Viewers
<1>7. \A c \in Browser \ {b} : g[c] = f[c]
  OBVIOUS
<1>8. DOMAIN g = Browser /\ g = [c \in Browser |-> g[c]]
  OBVIOUS
<1> QED
  BY <1>1, <1>2, <1>4, <1>5, <1>6, <1>7, <1>8 DEF ViewerEdited

LEMMA EditViewer ==
  ASSUME NEW f \in [Browser -> Viewers], NEW b \in Browser, NEW v \in Viewers,
         NEW g, g = [f EXCEPT ![b] = v]
  PROVE  ViewerEdited(f, g, b, v.stage, v.base, v.queue, v.lagged)
  BY DEF ViewerEdited

(* A stream that has not begun and one that has just begun.               *)
LEMMA Offs ==
  /\ Off \in Viewers /\ Off.stage = "none" /\ Off.queue = << >> /\ Off.base = 0 /\ ~Off.lagged
  /\ LET s == [Off EXCEPT !.stage = "subscribed"] IN
     s \in Viewers /\ s.stage = "subscribed" /\ s.queue = << >> /\ s.base = 0 /\ ~s.lagged
<1>1. << >> \in Seq(Batches)
  OBVIOUS
<1>2. Off \in Viewers /\ Off.stage = "none" /\ Off.queue = << >> /\ Off.base = 0 /\ ~Off.lagged
  BY <1>1 DEF Off, Viewers
<1>3. \A v \in Viewers : LET s == [v EXCEPT !.stage = "subscribed"] IN
        s \in Viewers /\ s.stage = "subscribed" /\ s.queue = v.queue /\ s.base = v.base
        /\ s.lagged = v.lagged
  BY DEF Viewers
<1> QED
  BY <1>2, <1>3, Zenon

(* A batch that is broadcast to a session is the last of its queue; at    *)
(* the capacity of the channel the oldest one goes and the session has    *)
(* lagged.                                                                *)
LEMMA QueuedParts ==
  ASSUME NEW v \in Viewers, NEW B \in Batches, NEW w, w = Queued(v, B)
  PROVE  /\ w \in Viewers /\ w.stage = v.stage /\ w.base = v.base
         /\ v.stage = "none" => w = v
         /\ v.stage # "none" => \E d \in {0, 1} :
              /\ Len(w.queue) = Len(v.queue) - d + 1 /\ w.queue[Len(w.queue)] = B
              /\ \A i \in 1 .. (Len(w.queue) - 1) : i + d \in 1 .. Len(v.queue) /\ w.queue[i] = v.queue[i + d]
              /\ d = 0 => (w.lagged <=> v.lagged)
              /\ d = 1 => w.lagged
              /\ Len(w.queue) \in Nat /\ Len(w.queue) > 0
<1>1. CASE v.stage = "none"
  BY <1>1 DEF Queued
<1>0. v.queue \in Seq(Batches) /\ Len(v.queue) \in Nat
  BY DEF Viewers
<1>2. CASE v.stage # "none" /\ Len(v.queue) < LagCapacity
  <2>1. PICK q : q = Append(v.queue, B)
    OBVIOUS
  <2>2. q \in Seq(Batches) /\ Len(q) = Len(v.queue) + 1 /\ q[Len(q)] = B
    BY <1>0, <2>1
  <2>3. \A i \in 1 .. (Len(q) - 1) : i + 0 \in 1 .. Len(v.queue) /\ q[i] = v.queue[i + 0]
    BY <1>0, <2>1, <2>2
  <2>4. w = [v EXCEPT !.queue = q]
    BY <1>2, <2>1 DEF Queued
  <2>5. w \in Viewers
    BY <2>2, <2>4 DEF Viewers
  <2>6. w.stage = v.stage /\ w.base = v.base /\ w.queue = q /\ w.lagged = v.lagged
    BY <2>4 DEF Viewers
  <2> QED
    BY <1>0, <1>2, <2>2, <2>3, <2>5, <2>6
<1>3. CASE v.stage # "none" /\ ~(Len(v.queue) < LagCapacity)
  <2>0. v.queue # << >> /\ Len(v.queue) > 0
    BY <1>0, <1>3, BrowserAssumption
  <2>1. PICK q : q = Append(Tail(v.queue), B)
    OBVIOUS
  <2>9. PICK u : u = Tail(v.queue)
    OBVIOUS
  <2>7. u \in Seq(Batches) /\ Len(u) = Len(v.queue) - 1 /\ \A i \in 1 .. Len(u) : u[i] = v.queue[i + 1]
    BY <1>0, <2>0, <2>9
  <2>2. q \in Seq(Batches) /\ Len(q) = Len(u) + 1 /\ q[Len(q)] = B
    BY <2>1, <2>7, <2>9
  <2>3. \A i \in 1 .. (Len(q) - 1) : i + 1 \in 1 .. Len(v.queue) /\ q[i] = v.queue[i + 1]
    BY <1>0, <2>1, <2>2, <2>7, <2>9
  <2>4. w = [v EXCEPT !.queue = q, !.lagged = TRUE]
    BY <1>3, <2>1 DEF Queued
  <2>5. w \in Viewers
    BY <2>2, <2>4 DEF Viewers
  <2>6. w.stage = v.stage /\ w.base = v.base /\ w.queue = q /\ w.lagged
    BY <2>4 DEF Viewers
  <2> QED
    BY <1>0, <1>3, <2>2, <2>3, <2>5, <2>6, <2>7
<1> QED
  BY <1>1, <1>2, <1>3

(* The parts of the task, of a batch, of a state and of a frame.          *)
LEMMA TaskParts ==
  ASSUME NEW t \in Tasks
  PROVE  /\ t.step \in {"wait", "count", "drop", "diff", "read", "publish", "send"}
         /\ t.dirty \in BOOLEAN /\ t.last \in Views /\ t.batch \in Batches
  BY DEF Tasks

LEMMA BatchParts ==
  ASSUME NEW B \in Batches
  PROVE  /\ B.rev \in Int /\ B.at \in Nat /\ B.rows \in [DOMAIN B.rows -> States] /\ DOMAIN B.rows \subseteq ViewNode
         /\ \A n \in DOMAIN B.rows : B.rows[n] \in States
<1>1. B.rev \in Int /\ B.at \in Nat /\ B.rows \in Rows
  BY DEF Batches
<1>2. PICK S \in SUBSET ViewNode : B.rows \in [S -> States]
  BY <1>1 DEF Rows
<1>3. DOMAIN B.rows = S
  BY <1>2
<1> QED
  BY <1>1, <1>2, <1>3

LEMMA StateParts ==
  /\ \A s \in States : s.ver \in Nat /\ s.here \in BOOLEAN
  /\ \A k \in Nat, h \in BOOLEAN : LET s == [ver |-> k, here |-> h] IN
       s \in States /\ s.ver = k /\ s.here = h
  BY DEF States

LEMMA FrameParts ==
  /\ \A f \in Frames : f.rev \in Nat /\ f.nodes \in Views /\ f.age \in Nat /\ f.at \in Nat
  /\ \A r, a, k \in Nat, v \in Views : LET f == [rev |-> r, nodes |-> v, age |-> a, at |-> k] IN
       f \in Frames /\ f.rev = r /\ f.nodes = v /\ f.age = a /\ f.at = k
  /\ \A f \in Frames, a \in Nat : LET g == [f EXCEPT !.age = a] IN
       g \in Frames /\ g.rev = f.rev /\ g.nodes = f.nodes
  BY DEF Frames

(* A change of a node.                                                    *)
AlteredTo(w, n, here) ==
  /\ truth' \in Views /\ truth'[n].ver = truth[n].ver + 1 /\ truth'[n].here = here
  /\ \A m \in ViewNode \ {n} : truth'[m] = truth[m]
  /\ writers' \in [Updater -> WriterStates]
  /\ writers'[w].step = "changed" /\ writers'[w].nodes = writers[w].nodes \cup {n}
  /\ \A v \in Updater \ {w} : writers'[v] = writers[v]
  /\ early' \in [read : SUBSET ViewNode, compared : SUBSET ViewNode]
  /\ early'.read = early.read /\ early'.compared = early.compared \ {n}

LEMMA WriterParts ==
  /\ \A v \in WriterStates : v.step \in {"idle", "changed", "bumped"} /\ v.nodes \in SUBSET ViewNode
  /\ \A t \in {"idle", "changed", "bumped"}, S \in SUBSET ViewNode :
       LET v == [step |-> t, nodes |-> S] IN v \in WriterStates /\ v.step = t /\ v.nodes = S
  /\ \A v \in WriterStates : LET u == [v EXCEPT !.step = "bumped"] IN
       u \in WriterStates /\ u.step = "bumped" /\ u.nodes = v.nodes
  BY DEF WriterStates

LEMMA AlteredEffect ==
  ASSUME NEW w \in Updater, NEW n \in ViewNode, NEW here \in BOOLEAN, ViewTypes, Altered(w, n, here)
  PROVE  AlteredTo(w, n, here) /\ ViewTypes'
<1>1. truth \in Views /\ truth[n] \in States /\ truth[n].ver + 1 \in Nat
  BY StateParts DEF ViewTypes, Views
<1>2. PICK s \in States : s = [ver |-> truth[n].ver + 1, here |-> here]
  BY <1>1, StateParts
<1>3. s.ver = truth[n].ver + 1 /\ s.here = here
  BY <1>1, <1>2, StateParts
<1>4. truth' = [truth EXCEPT ![n] = s]
  BY <1>2 DEF Altered
<1>5. truth' \in Views /\ truth'[n] = s /\ \A m \in ViewNode \ {n} : truth'[m] = truth[m]
  BY <1>1, <1>4 DEF Views
<1>6. writers[w] \in WriterStates /\ writers[w].nodes \cup {n} \in SUBSET ViewNode
  BY WriterParts DEF ViewTypes
<1>7. PICK v \in WriterStates : v = [step |-> "changed", nodes |-> writers[w].nodes \cup {n}]
  BY <1>6, WriterParts
<1>8. v.step = "changed" /\ v.nodes = writers[w].nodes \cup {n}
  BY <1>7
<1>9. writers' = [writers EXCEPT ![w] = v]
  BY <1>7 DEF Altered
<1>10. writers' \in [Updater -> WriterStates] /\ writers'[w] = v /\ \A u \in Updater \ {w} : writers'[u] = writers[u]
  BY <1>9 DEF ViewTypes
<1>11. /\ early' \in [read : SUBSET ViewNode, compared : SUBSET ViewNode]
       /\ early'.read = early.read /\ early'.compared = early.compared \ {n}
  BY DEF Altered, ViewTypes
<1>12. AlteredTo(w, n, here)
  BY <1>3, <1>5, <1>8, <1>10, <1>11 DEF AlteredTo
<1> QED
  BY <1>5, <1>10, <1>11, <1>12 DEF ViewTypes, Altered, taskVars, apiVars, stampVars

(* What the steps of the server and of the task do, with the types kept.  *)
LEMMA RaiseEffect ==
  ASSUME NEW w \in Updater, ViewTypes, RaiseRevision(w)
  PROVE  /\ ViewTypes' /\ revision' = revision + 1
         /\ \A n \in ViewNode : announced'[n] = IF n \in writers[w].nodes THEN truth[n].ver ELSE announced[n]
         /\ writers'[w].step = "bumped" /\ writers'[w].nodes = writers[w].nodes
         /\ \A v \in Updater \ {w} : writers'[v] = writers[v]
<1>1. PICK v \in WriterStates : v = [writers[w] EXCEPT !.step = "bumped"]
  BY WriterParts DEF ViewTypes
<1>2. v.step = "bumped" /\ v.nodes = writers[w].nodes
  BY <1>1, WriterParts DEF ViewTypes
<1>3. writers' = [writers EXCEPT ![w] = v]
  BY <1>1 DEF RaiseRevision
<1>4. writers' \in [Updater -> WriterStates] /\ writers'[w] = v /\ \A u \in Updater \ {w} : writers'[u] = writers[u]
  BY <1>3 DEF ViewTypes
<1>5. \A n \in ViewNode : truth[n].ver \in Nat /\ announced[n] \in Nat
  BY StateParts DEF ViewTypes, Views
<1>6. /\ announced' \in [ViewNode -> Nat]
      /\ \A n \in ViewNode : announced'[n] = IF n \in writers[w].nodes THEN truth[n].ver ELSE announced[n]
  BY <1>5 DEF RaiseRevision
<1> QED
  BY <1>2, <1>4, <1>6 DEF ViewTypes, RaiseRevision, taskVars, apiVars, stampVars

LEMMA NotifyEffect ==
  ASSUME NEW w \in Updater, ViewTypes, Notify(w)
  PROVE  /\ ViewTypes' /\ signal' = TRUE
         /\ writers'[w].step = "idle" /\ writers'[w].nodes = {}
         /\ \A v \in Updater \ {w} : writers'[v] = writers[v]
<1>1. PICK v \in WriterStates : v = [step |-> "idle", nodes |-> {}]
  BY WriterParts
<1>2. v.step = "idle" /\ v.nodes = {}
  BY <1>1
<1>3. writers' = [writers EXCEPT ![w] = v]
  BY <1>1 DEF Notify
<1>4. writers' \in [Updater -> WriterStates] /\ writers'[w] = v /\ \A u \in Updater \ {w} : writers'[u] = writers[u]
  BY <1>3 DEF ViewTypes
<1> QED
  BY <1>2, <1>4 DEF ViewTypes, Notify, taskVars, apiVars, stampVars

TaskStep == {"wait", "count", "drop", "diff", "read", "publish", "send"}

(* The task after a step of it.                                           *)
TaskIs(u, step, dirty, last, batch) ==
  u \in Tasks /\ u.step = step /\ u.dirty = dirty /\ u.last = last /\ u.batch = batch

LEMMA StepEdit ==
  ASSUME NEW t \in Tasks, NEW p \in TaskStep, NEW u, u = [t EXCEPT !.step = p]
  PROVE  TaskIs(u, p, t.dirty, t.last, t.batch)
  BY DEF Tasks, TaskStep, TaskIs

LEMMA WakeEdit ==
  ASSUME NEW t \in Tasks, NEW u, u = [t EXCEPT !.dirty = TRUE]
  PROVE  TaskIs(u, t.step, TRUE, t.last, t.batch)
<1>1. u \in Tasks /\ u.step = t.step /\ u.last = t.last /\ u.batch = t.batch
  BY DEF Tasks
<1>2. u.dirty = TRUE
  BY DEF Tasks
<1> QED
  BY <1>1, <1>2 DEF TaskIs

LEMMA DropEdit ==
  ASSUME NEW t \in Tasks, NEW v \in Views, NEW u,
         u = [t EXCEPT !.step = "wait", !.last = v, !.dirty = FALSE]
  PROVE  TaskIs(u, "wait", FALSE, v, t.batch)
<1>1. u \in Tasks /\ u.step = "wait" /\ u.last = v /\ u.batch = t.batch
  BY DEF Tasks
<1>2. u.dirty = FALSE
  BY DEF Tasks
<1> QED
  BY <1>1, <1>2 DEF TaskIs

LEMMA DiffEdit ==
  ASSUME NEW t \in Tasks, NEW v \in Views, NEW B \in Batches, NEW u,
         u = [t EXCEPT !.step = "publish", !.last = v, !.batch = B]
  PROVE  TaskIs(u, "publish", t.dirty, v, B)
<1>1. u \in Tasks /\ u.step = "publish" /\ u.last = v /\ u.batch = B
  BY DEF Tasks
<1>2. u.dirty = t.dirty
  BY DEF Tasks
<1> QED
  BY <1>1, <1>2 DEF TaskIs

LEMMA SendEdit ==
  ASSUME NEW t \in Tasks, NEW B \in Batches, NEW u,
         u = [t EXCEPT !.step = "wait", !.dirty = FALSE, !.batch = B]
  PROVE  TaskIs(u, "wait", FALSE, t.last, B)
<1>1. u \in Tasks /\ u.step = "wait" /\ u.last = t.last /\ u.batch = B
  BY DEF Tasks
<1>2. u.dirty = FALSE
  BY DEF Tasks
<1> QED
  BY <1>1, <1>2 DEF TaskIs

LEMMA NothingYet == Absent \in States /\ ~Absent.here /\ NoNodes \in Views /\ NoBatch \in Batches
                    /\ \A n \in ViewNode : NoNodes[n] = Absent
<1>1. << >> \in [{} -> States] /\ {} \in SUBSET ViewNode
  OBVIOUS
<1> QED
  BY <1>1 DEF Absent, States, NoNodes, Views, NoBatch, Batches, Rows

LEMMA EarlyParts ==
  ASSUME ViewTypes
  PROVE  /\ Unannounced \subseteq ViewNode
         /\ early.read \in SUBSET ViewNode /\ early.compared \in SUBSET ViewNode
         /\ \A n : n \in Unannounced <=> \E w \in Updater : writers[w].step = "changed" /\ n \in writers[w].nodes
<1>1. \A n : n \in Unannounced <=> \E w \in Updater : writers[w].step = "changed" /\ n \in writers[w].nodes
  BY DEF Unannounced
<1>2. \A w \in Updater : writers[w].nodes \in SUBSET ViewNode
  BY WriterParts DEF ViewTypes
<1> QED
  BY <1>1, <1>2 DEF ViewTypes

LEMMA WakeEffect ==
  ASSUME ViewTypes, Wake
  PROVE  /\ ViewTypes' /\ signal' = FALSE
         /\ task'.step = "wait" /\ task'.dirty = TRUE /\ task'.last = task.last /\ task'.batch = task.batch
<1>1. task \in Tasks /\ task' = [task EXCEPT !.dirty = TRUE] /\ task.step = "wait"
  BY DEF Wake, ViewTypes
<1>2. TaskIs(task', "wait", TRUE, task.last, task.batch)
  BY <1>1, WakeEdit
<1> QED
  BY <1>2 DEF Wake, ViewTypes, apiVars, stampVars, TaskIs

LEMMA AdvancesEffect ==
  ASSUME ViewTypes, Advances
  PROVE  /\ ViewTypes' /\ published' \in {published, revision}
         /\ published' >= published /\ published' >= revision
         /\ task'.step = "count" /\ task'.dirty = task.dirty /\ task'.last = task.last /\ task'.batch = task.batch
         /\ slot' = NoFrame <=> slot = NoFrame
         /\ slot # NoFrame => slot'.rev = slot.rev /\ slot'.nodes = slot.nodes
<1>1. /\ published' \in Nat /\ published' \in {published, revision}
      /\ published' >= published /\ published' >= revision
  BY DEF Advances, Later, ViewTypes
<1>2. /\ task' \in Tasks /\ task'.step = "count" /\ task'.dirty = task.dirty
      /\ task'.last = task.last /\ task'.batch = task.batch
  BY StepEdit DEF Advances, ViewTypes, TaskStep, TaskIs
<1>3. CASE slot = NoFrame
  BY <1>1, <1>2, <1>3 DEF Advances, ViewTypes, sourceVars, apiVars, stampVars
<1>4. CASE slot # NoFrame
  <2>1. slot \in Frames
    BY <1>4 DEF ViewTypes
  <2>2. PICK a \in Nat : slot' = [slot EXCEPT !.age = a]
    <3>1. slot' = [slot EXCEPT !.age = IF slot.age = 2 THEN 2 ELSE slot.age + 1]
      BY <1>4, <2>1 DEF Advances
    <3>2. (IF slot.age = 2 THEN 2 ELSE slot.age + 1) \in Nat
      BY <2>1, FrameParts
    <3> QED
      BY <3>1, <3>2
  <2>3. slot' \in Frames /\ slot'.rev = slot.rev /\ slot'.nodes = slot.nodes
    BY <2>1, <2>2, FrameParts
  <2>4. slot' # NoFrame
    BY <2>3, FramesAreFrames
  <2> QED
    BY <1>1, <1>2, <1>4, <2>3, <2>4 DEF Advances, ViewTypes, sourceVars, apiVars, stampVars
<1> QED
  BY <1>3, <1>4

LEMMA CountEffect ==
  ASSUME ViewTypes, Count
  PROVE  /\ ViewTypes' /\ task.step = "count"
         /\ task'.dirty = task.dirty /\ task'.last = task.last /\ task'.batch = task.batch
         /\ \/ task'.step = "drop" /\ \A b \in Browser : viewer[b].stage = "none"
            \/ task'.step = "diff"
            \/ task'.step = "wait" /\ ~task.dirty
<1>1. PICK p \in TaskStep : /\ task' = [task EXCEPT !.step = p]
                            /\ \/ p = "drop" /\ \A b \in Browser : viewer[b].stage = "none"
                               \/ p = "diff"
                               \/ p = "wait" /\ ~task.dirty
  BY DEF Count, TaskStep, Subscribers
<1>3. task \in Tasks
  BY DEF ViewTypes
<1>2. /\ task' \in Tasks /\ task'.step = p /\ task'.dirty = task.dirty
      /\ task'.last = task.last /\ task'.batch = task.batch
  BY <1>1, <1>3, StepEdit DEF TaskIs
<1> QED
  BY <1>1, <1>2 DEF Count, ViewTypes, sourceVars, apiVars, stampVars

LEMMA DropEffect ==
  ASSUME ViewTypes, Drop
  PROVE  /\ ViewTypes' /\ slot' = NoFrame
         /\ task'.step = "wait" /\ task'.dirty = FALSE /\ task'.last = NoNodes /\ task'.batch = task.batch
<1>1. task \in Tasks /\ task' = [task EXCEPT !.step = "wait", !.last = NoNodes, !.dirty = FALSE]
  BY DEF Drop, ViewTypes
<1>2. /\ task' \in Tasks /\ task'.step = "wait" /\ task'.dirty = FALSE
      /\ task'.last = NoNodes /\ task'.batch = task.batch
  <2>1. TaskIs(task', "wait", FALSE, NoNodes, task.batch)
    BY <1>1, DropEdit, NothingYet, Zenon
  <2> QED
    BY <2>1 DEF TaskIs
<1> QED
  BY <1>2 DEF Drop, ViewTypes, sourceVars, apiVars, stampVars

LEMMA StampEffect ==
  ASSUME ViewTypes, Stamp
  PROVE  /\ ViewTypes'
         /\ task'.step = "read" /\ task'.dirty = task.dirty /\ task'.last = task.last /\ task'.batch = task.batch
  BY StepEdit DEF Stamp, ViewTypes, sourceVars, apiVars, TaskStep, TaskIs

LEMMA DiffFailsEffect ==
  ASSUME ViewTypes, DiffFails
  PROVE  /\ ViewTypes'
         /\ task'.step = "wait" /\ task'.dirty = task.dirty /\ task'.last = task.last /\ task'.batch = task.batch
  BY StepEdit DEF DiffFails, ViewTypes, sourceVars, apiVars, stampVars, TaskStep, TaskIs

LEMMA PublishEffect ==
  ASSUME ViewTypes, PublishBatch, task.batch.rev <= revision
  PROVE  /\ ViewTypes' /\ published' >= published /\ published' >= task.batch.rev
         /\ published' \in {published, task.batch.rev}
         /\ task'.step = "send" /\ task'.dirty = task.dirty /\ task'.last = task.last /\ task'.batch = task.batch
<1>1. task.batch.rev \in Int
  BY TaskParts, BatchParts DEF ViewTypes
<1>2. /\ published' \in Nat /\ published' >= published /\ published' >= task.batch.rev
      /\ published' \in {published, task.batch.rev}
  BY <1>1 DEF PublishBatch, Later, ViewTypes
<1>3. /\ task' \in Tasks /\ task'.step = "send" /\ task'.dirty = task.dirty
      /\ task'.last = task.last /\ task'.batch = task.batch
  BY StepEdit DEF PublishBatch, ViewTypes, TaskStep, TaskIs
<1> QED
  BY <1>2, <1>3 DEF PublishBatch, ViewTypes, sourceVars, apiVars, stampVars

LEMMA DiffEffect ==
  ASSUME ViewTypes, Diff
  PROVE  /\ ViewTypes'
         /\ task'.step = "publish" /\ task'.dirty = task.dirty /\ task'.last = truth
         /\ task'.batch.rev = revision
         /\ DOMAIN task'.batch.rows = Differing(task.last, truth)
         /\ \A n \in DOMAIN task'.batch.rows : task'.batch.rows[n] = truth[n]
         /\ early'.read = early.read \cup Unannounced /\ early'.compared = early.compared \cup Unannounced
<1>1. PICK S : S = Differing(task.last, truth)
  OBVIOUS
<1>2. S \subseteq ViewNode
  BY <1>1 DEF Differing
<1>3. PICK f : f = Restrict(truth, S)
  OBVIOUS
<1>4. f \in [S -> States] /\ DOMAIN f = S /\ \A n \in S : f[n] = truth[n]
  BY <1>2, <1>3 DEF Restrict, ViewTypes, Views
<1>5. PICK B : B = [rev |-> revision, at |-> began, rows |-> f]
  OBVIOUS
<1>6. B \in Batches /\ B.rev = revision /\ B.rows = f
  BY <1>2, <1>4, <1>5 DEF Batches, Rows, ViewTypes
<1>7. task' = [task EXCEPT !.step = "publish", !.last = truth, !.batch = B]
  BY <1>1, <1>3, <1>5 DEF Diff
<1>8. /\ task' \in Tasks /\ task'.step = "publish" /\ task'.dirty = task.dirty
      /\ task'.last = truth /\ task'.batch = B
  <2>1. task \in Tasks /\ truth \in Views
    BY DEF ViewTypes
  <2> QED
    <3>1. TaskIs(task', "publish", task.dirty, truth, B)
      BY <1>6, <1>7, <2>1, DiffEdit, Zenon
    <3> QED
      BY <3>1 DEF TaskIs
<1>9. /\ early' \in [read : SUBSET ViewNode, compared : SUBSET ViewNode]
      /\ early'.read = early.read \cup Unannounced /\ early'.compared = early.compared \cup Unannounced
  BY EarlyParts DEF Diff, ReadAndCompared
<1> QED
  BY <1>1, <1>4, <1>6, <1>8, <1>9 DEF Diff, ViewTypes, apiVars, stampVars

LEMMA SendEffect ==
  ASSUME ViewTypes, SendBatch
  PROVE  /\ ViewTypes'
         /\ task'.step = "wait" /\ task'.dirty = FALSE /\ task'.last = task.last
         /\ \A b \in Browser : viewer'[b] = Queued(viewer[b], task.batch)
<1>1. task.batch \in Batches
  BY TaskParts DEF ViewTypes
<1>2. \A b \in Browser : viewer[b] \in Viewers /\ Queued(viewer[b], task.batch) \in Viewers
  BY <1>1, QueuedParts DEF ViewTypes
<1>3. viewer' \in [Browser -> Viewers] /\ \A b \in Browser : viewer'[b] = Queued(viewer[b], task.batch)
  BY <1>2 DEF SendBatch
<1>5. task \in Tasks /\ task' = [task EXCEPT !.step = "wait", !.dirty = FALSE, !.batch = NoBatch]
  BY DEF SendBatch, ViewTypes
<1>4. task' \in Tasks /\ task'.step = "wait" /\ task'.dirty = FALSE /\ task'.last = task.last
  <2>1. TaskIs(task', "wait", FALSE, task.last, NoBatch)
    BY <1>5, SendEdit, NothingYet, Zenon
  <2> QED
    BY <2>1 DEF TaskIs
<1> QED
  BY <1>3, <1>4 DEF SendBatch, ViewTypes, sourceVars, apiVars, stampVars

(* The page and the viewer of one browser after an action.                *)
PageIs(b, l, s, q) == PageEdited(page, page', b, l, s, q)
ViewerIs(b, stage, base, queue, lagged) == ViewerEdited(viewer, viewer', b, stage, base, queue, lagged)
(* Only of the page of b is it known what it was sent, and what it missed. *)
SeenIs(b, missed, due) ==
  /\ seen' \in [Browser -> Seens]
  /\ seen'[b].missed = missed /\ seen'[b].due = due
  /\ \A c \in Browser \ {b} : seen'[c] = seen[c]

LEMMA EditSeen ==
  ASSUME ViewTypes, NEW b \in Browser, NEW k \in Nat, NEW M \in SUBSET ViewNode, NEW v \in Views,
         seen' = [seen EXCEPT ![b] = [at |-> k, missed |-> M, due |-> v]]
  PROVE  SeenIs(b, M, v)
<1>1. PICK u \in Seens : u = [at |-> k, missed |-> M, due |-> v]
  BY DEF Seens
<1>2. u.missed = M /\ u.due = v
  BY <1>1
<1>3. seen' = [seen EXCEPT ![b] = u] /\ seen \in [Browser -> Seens]
  BY <1>1 DEF ViewTypes
<1>4. seen' \in [Browser -> Seens] /\ seen'[b] = u /\ \A c \in Browser \ {b} : seen'[c] = seen[c]
  BY <1>3
<1> QED
  BY <1>2, <1>4 DEF SeenIs

LEMMA BrowserParts ==
  ASSUME ViewTypes, NEW b \in Browser
  PROVE  /\ page[b] \in Pages /\ page[b].link \in Links /\ page[b].shows \in Views
         /\ page[b].poll \in Polls \cup {NoPoll}
         /\ viewer[b] \in Viewers /\ viewer[b].base \in Nat /\ viewer[b].queue \in Seq(Batches)
         /\ viewer[b].lagged \in BOOLEAN
         /\ Touched(page[b].poll) \in Polls \cup {NoPoll}
         /\ seen[b].at \in Nat /\ seen[b].due \in Views /\ seen[b].missed \in SUBSET ViewNode
<1>1. seen[b] \in Seens
  BY DEF ViewTypes
<1>2. seen[b].at \in Nat /\ seen[b].due \in Views /\ seen[b].missed \in SUBSET ViewNode
  BY <1>1 DEF Seens
<1> QED
  BY <1>2, PageParts, ViewerParts, TouchedPoll DEF ViewTypes

LEMMA AttachEffect ==
  ASSUME ViewTypes, NEW b \in Browser, Attach(b)
  PROVE  ViewTypes' /\ PageIs(b, "connecting", page[b].shows, page[b].poll)
<1>1. page' = [page EXCEPT ![b].link = "connecting"] /\ page \in [Browser -> Pages] /\ "connecting" \in Links
  BY DEF Attach, ViewTypes, Links
<1>2. PageIs(b, "connecting", page[b].shows, page[b].poll)
  BY <1>1, EditLinkOnly, Zenon DEF PageIs
<1> QED
  BY <1>2 DEF Attach, ViewTypes, sourceVars, taskVars, apiVars, stampVars, PageIs, PageEdited

LEMMA AdmitEffect ==
  ASSUME ViewTypes, NEW b \in Browser, Admit(b)
  PROVE  /\ ViewTypes' /\ PageIs(b, "open", page[b].shows, page[b].poll)
         /\ ViewerIs(b, "subscribed", 0, << >>, FALSE)
<1>1. page' = [page EXCEPT ![b].link = "open"] /\ page \in [Browser -> Pages] /\ "open" \in Links
  BY DEF Admit, ViewTypes, Links
<1>2. PageIs(b, "open", page[b].shows, page[b].poll)
  BY <1>1, EditLinkOnly, Zenon DEF PageIs
<1>3. PICK v : v = [Off EXCEPT !.stage = "subscribed"]
  OBVIOUS
<1>4. v \in Viewers /\ v.stage = "subscribed" /\ v.queue = << >> /\ v.base = 0 /\ ~v.lagged
  BY <1>3, Offs, Zenon
<1>5. v.lagged = FALSE
  BY <1>4, ViewerParts
<1>6. viewer \in [Browser -> Viewers] /\ viewer' = [viewer EXCEPT ![b] = v]
  BY <1>3, Zenon DEF Admit, ViewTypes
<1>7. ViewerIs(b, v.stage, v.base, v.queue, v.lagged)
  BY <1>4, <1>6, EditViewer, Zenon DEF ViewerIs
<1>8. ViewerIs(b, "subscribed", 0, << >>, FALSE)
  BY <1>4, <1>5, <1>7
<1> QED
  BY <1>2, <1>8 DEF Admit, ViewTypes, sourceVars, taskVars, apiVars, stampVars, PageIs, PageEdited, ViewerIs, ViewerEdited

LEMMA RefuseEffect ==
  ASSUME ViewTypes, NEW b \in Browser, Refuse(b)
  PROVE  ViewTypes' /\ PageIs(b, "waiting", page[b].shows, page[b].poll)
<1>1. page' = [page EXCEPT ![b].link = "waiting"] /\ page \in [Browser -> Pages] /\ "waiting" \in Links
  BY DEF Refuse, ViewTypes, Links
<1>2. PageIs(b, "waiting", page[b].shows, page[b].poll)
  BY <1>1, EditLinkOnly, Zenon DEF PageIs
<1> QED
  BY <1>2 DEF Refuse, ViewTypes, sourceVars, taskVars, apiVars, stampVars, PageIs, PageEdited

LEMMA HideEffect ==
  ASSUME ViewTypes, NEW b \in Browser, Hide(b)
  PROVE  ViewTypes' /\ PageIs(b, "idle", page[b].shows, Touched(page[b].poll))
<1>1. /\ page' = [page EXCEPT ![b].link = "idle", ![b].poll = Touched(page[b].poll)]
      /\ page \in [Browser -> Pages] /\ "idle" \in Links
  BY DEF Hide, ViewTypes, Links
<1>2. PageIs(b, "idle", page[b].shows, Touched(page[b].poll))
  BY <1>1, BrowserParts, EditLink, Zenon DEF PageIs
<1> QED
  BY <1>2 DEF Hide, ViewTypes, sourceVars, taskVars, apiVars, stampVars, PageIs, PageEdited

LEMMA EndEffect ==
  ASSUME ViewTypes, NEW b \in Browser, NEW l \in {"waiting", "idle"}, End(b, l)
  PROVE  /\ ViewTypes' /\ ViewerIs(b, "none", 0, << >>, FALSE)
         /\ PageIs(b, l, page[b].shows, IF l = "idle" THEN Touched(page[b].poll) ELSE page[b].poll)
         /\ SeenIs(b, {}, NoNodes)
<1>0. PICK q \in Polls \cup {NoPoll} : q = IF l = "idle" THEN Touched(page[b].poll) ELSE page[b].poll
  BY BrowserParts
<1>1. page' = [page EXCEPT ![b].link = l, ![b].poll = q] /\ page \in [Browser -> Pages] /\ l \in Links
  BY <1>0 DEF End, ViewTypes, Links
<1>2. PageIs(b, l, page[b].shows, q)
  BY <1>1, EditLink, Zenon DEF PageIs
<1>3. viewer \in [Browser -> Viewers] /\ viewer' = [viewer EXCEPT ![b] = Off] /\ Off \in Viewers
  BY Offs DEF End, ViewTypes
<1>4. ViewerIs(b, Off.stage, Off.base, Off.queue, Off.lagged)
  BY <1>3, EditViewer, Zenon DEF ViewerIs
<1>5. Off.lagged = FALSE
  BY DEF Off
<1>6. ViewerIs(b, "none", 0, << >>, FALSE)
  BY <1>4, <1>5, Offs
<1>7. SeenIs(b, {}, NoNodes)
  BY EditSeen, NothingYet DEF End, Unseen
<1> QED
  BY <1>0, <1>2, <1>6, <1>7 DEF End, ViewTypes, sourceVars, taskVars, apiVars, stampVars, SeenIs, PageIs, PageEdited, ViewerIs, ViewerEdited

LEMMA SendSharedEffect ==
  ASSUME ViewTypes, NEW b \in Browser, SendShared(b)
  PROVE  /\ ViewTypes' /\ slot # NoFrame /\ slot \in Frames /\ slot.rev >= published
         /\ ViewerIs(b, "live", slot.rev, viewer[b].queue, FALSE)
         /\ PageIs(b, page[b].link, slot.nodes, Touched(page[b].poll))
         /\ SeenIs(b, {}, slot.nodes)
<1>1. slot # NoFrame /\ slot \in Frames /\ slot.rev >= published
  BY DEF SendShared, FreshFrame, AnyFrame, ViewTypes
<1>2. slot.rev \in Nat /\ slot.nodes \in Views /\ slot.at \in Nat
  BY <1>1, FrameParts
<1>3. /\ page' = [page EXCEPT ![b].shows = slot.nodes, ![b].poll = Touched(page[b].poll)]
      /\ viewer' = [viewer EXCEPT ![b].stage = "live", ![b].base = slot.rev, ![b].lagged = FALSE]
      /\ page \in [Browser -> Pages] /\ viewer \in [Browser -> Viewers]
  BY DEF SendShared, Resynced, ViewTypes
<1>4. PageIs(b, page[b].link, slot.nodes, Touched(page[b].poll))
  BY <1>2, <1>3, BrowserParts, EditShows, Zenon DEF PageIs
<1>5. ViewerIs(b, "live", slot.rev, viewer[b].queue, FALSE)
  BY <1>2, <1>3, EditResync, Zenon DEF ViewerIs
<1>6. SeenIs(b, {}, slot.nodes)
  BY <1>2, EditSeen DEF SendShared, Resynced
<1> QED
  BY <1>1, <1>4, <1>5, <1>6 DEF SeenIs, SendShared, ViewTypes, sourceVars, taskVars, apiVars, stampVars, PageIs, PageEdited, ViewerIs, ViewerEdited

LEMMA SendBuiltEffect ==
  ASSUME ViewTypes, NEW b \in Browser, SendBuilt(b)
  PROVE  /\ ViewTypes' /\ slot' # NoFrame /\ slot'.rev = revision /\ slot'.nodes = truth
         /\ ViewerIs(b, "live", revision, viewer[b].queue, FALSE)
         /\ PageIs(b, page[b].link, truth, Touched(page[b].poll))
         /\ SeenIs(b, {}, truth)
         /\ early'.read = early.read \cup Unannounced /\ early'.compared = early.compared
<1>1. /\ slot' = [rev |-> revision, nodes |-> truth, age |-> 0, at |-> clock + 1]
      /\ clock' = clock + 1 /\ clock + 1 \in Nat /\ revision \in Nat /\ truth \in Views
  BY DEF SendBuilt, ViewTypes
<1>2. slot' \in Frames /\ slot'.rev = revision /\ slot'.nodes = truth /\ slot'.at \in Nat
  BY <1>1, FrameParts
<1>3. /\ page' = [page EXCEPT ![b].shows = slot'.nodes, ![b].poll = Touched(page[b].poll)]
      /\ viewer' = [viewer EXCEPT ![b].stage = "live", ![b].base = slot'.rev, ![b].lagged = FALSE]
      /\ page \in [Browser -> Pages] /\ viewer \in [Browser -> Viewers]
  BY DEF SendBuilt, Resynced, ViewTypes
<1>4. PageIs(b, page[b].link, truth, Touched(page[b].poll))
  BY <1>1, <1>2, <1>3, BrowserParts, EditShows, Zenon DEF PageIs
<1>5. ViewerIs(b, "live", revision, viewer[b].queue, FALSE)
  BY <1>1, <1>2, <1>3, EditResync, Zenon DEF ViewerIs
<1>6. /\ early' \in [read : SUBSET ViewNode, compared : SUBSET ViewNode]
      /\ early'.read = early.read \cup Unannounced /\ early'.compared = early.compared
  BY EarlyParts DEF SendBuilt, Read, ViewTypes
<1>7. slot' # NoFrame
  BY <1>2, FramesAreFrames
<1>8. SeenIs(b, {}, truth)
  <2>1. seen' = [seen EXCEPT ![b] = [at |-> slot'.at, missed |-> {}, due |-> slot'.nodes]]
    BY DEF SendBuilt, Resynced
  <2> QED
    BY <1>1, <1>2, <2>1, EditSeen
<1> QED
  BY <1>1, <1>2, <1>4, <1>5, <1>6, <1>7, <1>8
     DEF SeenIs, SendBuilt, ViewTypes, taskVars, apiVars, stampVars, PageIs, PageEdited, ViewerIs, ViewerEdited

(* A batch laid over what a page shows.                                   *)
Overlaid(r, shows, base, B) ==
  \A n \in ViewNode : r[n] = IF B.rev > base /\ n \in DOMAIN B.rows THEN B.rows[n] ELSE shows[n]

(* What the page shows of a node is what it was sent of it, or stays: then *)
(* it goes on to miss the row, or there was none.                         *)
Follows(b, s, d) ==
  \A n \in ViewNode :
    \/ s[n] = d[n]
    \/ /\ s[n] = page[b].shows[n]
       /\ n \notin seen'[b].missed => n \notin seen[b].missed /\ d[n] = seen[b].due[n]

LEMMA OverlayShows ==
  ASSUME NEW s \in Views, NEW B \in Batches
  PROVE  Over(B, s) \in Views
  BY BatchParts DEF Views, Over

LEMMA ForwardEffect ==
  ASSUME ViewTypes, NEW b \in Browser, Forward(b)
  PROVE  /\ ViewTypes' /\ viewer[b].stage = "live" /\ viewer[b].lagged = FALSE /\ viewer[b].queue # << >>
         /\ Head(viewer[b].queue) \in Batches
         /\ ViewerIs(b, "live", viewer[b].base, Tail(viewer[b].queue), FALSE)
         /\ \E s, d \in Views, q \in {page[b].poll, Touched(page[b].poll)} :
              /\ PageIs(b, page[b].link, s, q)
              /\ seen'[b].due = d /\ \A c \in Browser \ {b} : seen'[c] = seen[c]
              /\ Overlaid(d, seen[b].due, viewer[b].base, Head(viewer[b].queue))
              /\ Follows(b, s, d)
<1>1. /\ viewer[b].stage = "live" /\ ~viewer[b].lagged /\ viewer[b].queue # << >>
      /\ viewer' = [viewer EXCEPT ![b].queue = Tail(@)] /\ viewer \in [Browser -> Viewers]
  BY DEF Forward, ViewTypes
<1>2. viewer[b].lagged = FALSE
  BY <1>1, BrowserParts
<1>3. ViewerIs(b, viewer[b].stage, viewer[b].base, Tail(viewer[b].queue), viewer[b].lagged)
  BY <1>1, EditQueue, Zenon DEF ViewerIs
<1>4. ViewerIs(b, "live", viewer[b].base, Tail(viewer[b].queue), FALSE)
  BY <1>1, <1>2, <1>3, Zenon
<1>5. Head(viewer[b].queue) \in Batches
  <2>1. viewer[b].queue \in Seq(Batches)
    BY BrowserParts
  <2> QED
    BY <1>1, <2>1
<1>6. PICK B \in Batches : B = Head(viewer[b].queue)
  BY <1>5
<1>7. page[b].shows \in Views /\ page[b].poll \in Polls \cup {NoPoll}
      /\ Touched(page[b].poll) \in Polls \cup {NoPoll} /\ page \in [Browser -> Pages]
  BY BrowserParts DEF ViewTypes
<1>7a. seen[b].at \in Nat /\ seen[b].due \in Views /\ seen[b].missed \in SUBSET ViewNode
       /\ B.at \in Nat /\ DOMAIN B.rows \subseteq ViewNode /\ seen \in [Browser -> Seens]
  BY BrowserParts, BatchParts DEF ViewTypes
<1>8. CASE Forwards(B, viewer[b].base) /\ DOMAIN B.rows # {}
  <2>1. PICK d \in Views : d = Over(B, seen[b].due)
    BY <1>7a, OverlayShows
  <2>2. PICK M \in SUBSET ViewNode : M = IF seen[b].at > B.at THEN seen[b].missed \cup DOMAIN B.rows
                                       ELSE seen[b].missed \ DOMAIN B.rows
    BY <1>7a
  <2>3. PICK k \in Nat : k = Later(seen[b].at, B.at)
    BY <1>7a DEF Later
  <2>4. seen' = [seen EXCEPT ![b] = [at |-> k, missed |-> M, due |-> d]]
    <3>1. seen' = [seen EXCEPT ![b] = [at |-> Later(@.at, B.at), due |-> Over(B, @.due),
                                       missed |-> IF @.at > B.at THEN @.missed \cup DOMAIN B.rows
                                                  ELSE @.missed \ DOMAIN B.rows]]
      BY <1>6, <1>8, Zenon DEF Forward
    <3>2. seen' = [seen EXCEPT ![b] = [at |-> k, due |-> d, missed |-> M]]
      BY <2>1, <2>2, <2>3, <3>1, Zenon
    <3>3. [at |-> k, due |-> d, missed |-> M] = [at |-> k, missed |-> M, due |-> d]
      OBVIOUS
    <3> QED
      BY <3>2, <3>3, Zenon
  <2>5. SeenIs(b, M, d)
    BY <2>4, EditSeen
  <2>6. Overlaid(d, seen[b].due, viewer[b].base, B)
    BY <1>8, <2>1 DEF Overlaid, Forwards, Over
  <2>7. CASE Takes(B, seen[b].at)
    <3>1. PICK s \in Views : s = Over(B, page[b].shows)
      BY <1>7, OverlayShows
    <3>2. page' = [page EXCEPT ![b].shows = s, ![b].poll = Touched(page[b].poll)]
      <4>1. page' = [page EXCEPT ![b].shows = Over(B, @), ![b].poll = Touched(@)]
        BY <1>6, <1>8, <2>7, Zenon DEF Forward
      <4>2. page' = [page EXCEPT ![b].shows = Over(B, page[b].shows), ![b].poll = Touched(page[b].poll)]
        BY <1>7, <4>1
      <4> QED
        BY <3>1, <4>2, Zenon
    <3>3. PageIs(b, page[b].link, s, Touched(page[b].poll))
      BY <1>7, <3>2, EditShows, Zenon DEF PageIs
    <3>4. Follows(b, s, d)
      BY <1>7a, <2>1, <2>2, <2>5, <2>7, <3>1 DEF Follows, SeenIs, Takes, Over
    <3>5. page' \in [Browser -> Pages]
      BY <3>3 DEF PageIs, PageEdited
    <3>6. ViewTypes'
      BY <1>4, <2>5, <3>5 DEF Forward, ViewTypes, sourceVars, taskVars, apiVars, ViewerIs, ViewerEdited, SeenIs
    <3> QED
      BY <1>1, <1>2, <1>4, <1>5, <1>6, <2>5, <2>6, <3>3, <3>4, <3>6 DEF SeenIs
  <2>8. CASE ~Takes(B, seen[b].at)
    <3>1. page' = page
      BY <1>6, <2>8 DEF Forward
    <3>2. PageIs(b, page[b].link, page[b].shows, page[b].poll)
      BY <1>7, <3>1, Zenon DEF PageIs, PageEdited
    <3>3. Follows(b, page[b].shows, d)
      BY <1>7a, <2>1, <2>2, <2>5, <2>8 DEF Follows, SeenIs, Takes, Over
    <3>4. ViewTypes'
      BY <1>4, <2>5, <3>1 DEF Forward, ViewTypes, sourceVars, taskVars, apiVars, ViewerIs, ViewerEdited, SeenIs
    <3> QED
      BY <1>1, <1>2, <1>4, <1>5, <1>6, <1>7, <2>5, <2>6, <3>2, <3>3, <3>4 DEF SeenIs
  <2> QED
    BY <2>7, <2>8
<1>9. CASE ~(Forwards(B, viewer[b].base) /\ DOMAIN B.rows # {})
  <2>1. page' = page /\ seen' = seen
    BY <1>6, <1>9 DEF Forward
  <2>2. PageIs(b, page[b].link, page[b].shows, page[b].poll)
    BY <1>7, <2>1, Zenon DEF PageIs, PageEdited
  <2>3. Overlaid(seen[b].due, seen[b].due, viewer[b].base, B)
    BY <1>9 DEF Overlaid, Forwards
  <2>4. Follows(b, page[b].shows, seen[b].due)
    BY <2>1 DEF Follows
  <2>5. ViewTypes'
    BY <1>4, <2>1 DEF Forward, ViewTypes, sourceVars, taskVars, apiVars, ViewerIs, ViewerEdited
  <2> QED
    BY <1>1, <1>2, <1>4, <1>5, <1>6, <1>7, <1>7a, <2>1, <2>2, <2>3, <2>4, <2>5
<1> QED
  BY <1>8, <1>9

LEMMA AskEffect ==
  ASSUME ViewTypes, NEW b \in Browser, Ask(b)
  PROVE  /\ ViewTypes' /\ viewer[b].stage # "live"
         /\ PageIs(b, page[b].link, page[b].shows, Poll("look", revision, FALSE, NoNodes, announced))
<1>1. PICK q : q = [step |-> "look", rev |-> revision, aborted |-> FALSE, body |-> NoNodes, since |-> announced]
  OBVIOUS
<1>2. q \in Polls /\ q = Poll("look", revision, FALSE, NoNodes, announced)
  <2>1. "look" \in PollSteps /\ revision \in Nat /\ FALSE \in BOOLEAN /\ NoNodes \in Views /\ announced \in [ViewNode -> Nat]
    BY NothingYet DEF ViewTypes, PollSteps
  <2>2. q = Poll("look", revision, FALSE, NoNodes, announced)
    BY <1>1, Zenon DEF Poll
  <2> QED
    BY <2>1, <2>2, PollParts, Zenon
<1>3. page' = [page EXCEPT ![b].poll = q] /\ page \in [Browser -> Pages]
  BY <1>1, Zenon DEF Ask, ViewTypes
<1>4. PageIs(b, page[b].link, page[b].shows, q)
  BY <1>2, <1>3, EditPoll, Zenon DEF PageIs
<1>5. page' \in [Browser -> Pages]
  BY <1>4 DEF PageIs, PageEdited
<1> QED
  BY <1>2, <1>4, <1>5 DEF Ask, ViewTypes, sourceVars, taskVars, stampVars

LEMMA AnswerWithEffect ==
  ASSUME ViewTypes, NEW b \in Browser, NEW y \in Views, page[b].poll \in Polls, AnswerWith(b, y)
  PROVE  LET p == page[b].poll IN
         PageIs(b, page[b].link, page[b].shows, Poll("answer", p.rev, p.aborted, y, p.since))
<1>1. "answer" \in PollSteps /\ page \in [Browser -> Pages]
  BY DEF PollSteps, ViewTypes
<1>2. page' = [page EXCEPT ![b].poll.step = "answer", ![b].poll.body = y]
  BY DEF AnswerWith
<1> QED
  BY <1>1, <1>2, EditAnswer, Zenon DEF PageIs

LEMMA Polling ==
  ASSUME ViewTypes, NEW b \in Browser, NEW t \in PollSteps, page[b].poll.step = t
  PROVE  page[b].poll \in Polls
<1>1. NoPoll.step # t
  BY DEF NoPoll, PollSteps
<1> QED
  BY <1>1, BrowserParts

LEMMA LookEffect ==
  ASSUME ViewTypes, NEW b \in Browser, Look(b)
  PROVE  LET p == page[b].poll IN
         /\ ViewTypes' /\ p \in Polls /\ p.step = "look"
         /\ \/ /\ cache.rev = p.rev
               /\ PageIs(b, page[b].link, page[b].shows, Poll("answer", p.rev, p.aborted, cache.body, p.since))
            \/ PageIs(b, page[b].link, page[b].shows, Poll("lock", p.rev, p.aborted, p.body, p.since))
<1>1. page[b].poll.step = "look" /\ "look" \in PollSteps /\ "lock" \in PollSteps
  BY DEF Look, PollSteps
<1>2. page[b].poll \in Polls
  BY <1>1, Polling
<1>3. CASE cache.rev = page[b].poll.rev
  <2>1. cache.body \in Views /\ AnswerWith(b, cache.body)
    BY <1>3 DEF Look, ViewTypes
  <2>2. LET p == page[b].poll IN
        PageIs(b, page[b].link, page[b].shows, Poll("answer", p.rev, p.aborted, cache.body, p.since))
    BY <1>2, <2>1, AnswerWithEffect, Zenon
  <2>3. page' \in [Browser -> Pages]
    BY <2>2 DEF PageIs, PageEdited
  <2> QED
    BY <1>1, <1>2, <1>3, <2>2, <2>3 DEF Look, ViewTypes, sourceVars, taskVars, apiVars, stampVars
<1>4. CASE cache.rev # page[b].poll.rev
  <2>1. page' = [page EXCEPT ![b].poll.step = "lock"] /\ page \in [Browser -> Pages]
    BY <1>4 DEF Look, ViewTypes
  <2>2. LET p == page[b].poll IN
        PageIs(b, page[b].link, page[b].shows, Poll("lock", p.rev, p.aborted, p.body, p.since))
    BY <1>1, <1>2, <2>1, EditLocking, Zenon DEF PageIs
  <2>3. page' \in [Browser -> Pages]
    BY <2>2 DEF PageIs, PageEdited
  <2> QED
    BY <1>1, <1>2, <2>2, <2>3 DEF Look, ViewTypes, sourceVars, taskVars, apiVars, stampVars
<1> QED
  BY <1>3, <1>4

LEMMA LookAgainEffect ==
  ASSUME ViewTypes, NEW b \in Browser, LookAgain(b)
  PROVE  LET p == page[b].poll IN
         /\ ViewTypes' /\ p \in Polls /\ p.step = "lock"
         /\ \/ /\ cache.rev = revision
               /\ PageIs(b, page[b].link, page[b].shows, Poll("answer", p.rev, p.aborted, cache.body, p.since))
            \/ PageIs(b, page[b].link, page[b].shows, Poll("build", revision, p.aborted, p.body, p.since))
<1>1. page[b].poll.step = "lock" /\ "build" \in PollSteps /\ "lock" \in PollSteps
  BY DEF LookAgain, PollSteps
<1>2. page[b].poll \in Polls
  BY <1>1, Polling
<1>3. CASE cache.rev = revision
  <2>1. cache.body \in Views /\ AnswerWith(b, cache.body)
    BY <1>3 DEF LookAgain, ViewTypes
  <2>2. LET p == page[b].poll IN
        PageIs(b, page[b].link, page[b].shows, Poll("answer", p.rev, p.aborted, cache.body, p.since))
    BY <1>2, <2>1, AnswerWithEffect, Zenon
  <2>3. page' \in [Browser -> Pages]
    BY <2>2 DEF PageIs, PageEdited
  <2> QED
    BY <1>1, <1>2, <1>3, <2>2, <2>3 DEF LookAgain, ViewTypes, sourceVars, taskVars, stampVars
<1>4. CASE cache.rev # revision
  <2>1. page' = [page EXCEPT ![b].poll.step = "build", ![b].poll.rev = revision] /\ page \in [Browser -> Pages]
        /\ revision \in Nat
    BY <1>4 DEF LookAgain, ViewTypes
  <2>2. LET p == page[b].poll IN
        PageIs(b, page[b].link, page[b].shows, Poll("build", revision, p.aborted, p.body, p.since))
    BY <1>1, <1>2, <2>1, EditStep, Zenon DEF PageIs
  <2>3. page' \in [Browser -> Pages]
    BY <2>2 DEF PageIs, PageEdited
  <2> QED
    BY <1>1, <1>2, <2>2, <2>3 DEF LookAgain, ViewTypes, sourceVars, taskVars, stampVars
<1> QED
  BY <1>3, <1>4

LEMMA BuildEffect ==
  ASSUME ViewTypes, NEW b \in Browser, Build(b)
  PROVE  LET p == page[b].poll IN
         /\ ViewTypes' /\ p \in Polls /\ p.step = "build"
         /\ PageIs(b, page[b].link, page[b].shows, Poll("store", p.rev, p.aborted, truth, p.since))
         /\ early'.read = early.read \cup Unannounced /\ early'.compared = early.compared
<1>1. page[b].poll.step = "build" /\ "build" \in PollSteps /\ "store" \in PollSteps /\ truth \in Views
      /\ page' = [page EXCEPT ![b].poll.step = "store", ![b].poll.body = truth] /\ page \in [Browser -> Pages]
  BY DEF Build, PollSteps, ViewTypes
<1>2. page[b].poll \in Polls
  BY <1>1, Polling
<1>3. LET p == page[b].poll IN
      PageIs(b, page[b].link, page[b].shows, Poll("store", p.rev, p.aborted, truth, p.since))
  BY <1>1, <1>2, EditAnswer, Zenon DEF PageIs
<1>4. page' \in [Browser -> Pages]
  BY <1>3 DEF PageIs, PageEdited
<1>5. /\ early' \in [read : SUBSET ViewNode, compared : SUBSET ViewNode]
      /\ early'.read = early.read \cup Unannounced /\ early'.compared = early.compared
  BY EarlyParts DEF Build, Read, ViewTypes
<1> QED
  BY <1>1, <1>2, <1>3, <1>4, <1>5 DEF Build, ViewTypes, taskVars, apiVars, stampVars

LEMMA StoreEffect ==
  ASSUME ViewTypes, NEW b \in Browser, Store(b)
  PROVE  LET p == page[b].poll IN
         /\ ViewTypes' /\ p \in Polls /\ p.step = "store"
         /\ PageIs(b, page[b].link, page[b].shows, Poll("answer", p.rev, p.aborted, p.body, p.since))
         /\ \/ cache' = cache
            \/ p.rev = revision /\ cache'.rev = p.rev /\ cache'.body = p.body
<1>1. page[b].poll.step = "store" /\ "store" \in PollSteps /\ AnswerWith(b, page[b].poll.body)
  BY DEF Store, PollSteps
<1>2. page[b].poll \in Polls
  BY <1>1, Polling
<1>3. page[b].poll.body \in Views /\ page[b].poll.rev \in Nat
  BY <1>2, PollParts
<1>4. LET p == page[b].poll IN
      PageIs(b, page[b].link, page[b].shows, Poll("answer", p.rev, p.aborted, p.body, p.since))
  BY <1>1, <1>2, <1>3, AnswerWithEffect, Zenon
<1>5. page' \in [Browser -> Pages]
  BY <1>4 DEF PageIs, PageEdited
<1>6. /\ cache' \in [rev : Nat, body : Views]
      /\ \/ cache' = cache
         \/ page[b].poll.rev = revision /\ cache'.rev = page[b].poll.rev /\ cache'.body = page[b].poll.body
  BY <1>3 DEF Store, Kept, ViewTypes
<1> QED
  BY <1>1, <1>2, <1>4, <1>5, <1>6 DEF Store, ViewTypes, sourceVars, taskVars, stampVars

LEMMA AnswerEffect ==
  ASSUME ViewTypes, NEW b \in Browser, Answer(b)
  PROVE  LET p == page[b].poll IN
         /\ ViewTypes' /\ p \in Polls
         /\ PageIs(b, page[b].link, IF p.aborted THEN page[b].shows ELSE p.body, NoPoll)
<1>1. page[b].poll.step = "answer" /\ "answer" \in PollSteps
  BY DEF Answer, PollSteps
<1>2. page[b].poll \in Polls
  BY <1>1, Polling
<1>3. PICK s \in Views : s = IF page[b].poll.aborted THEN page[b].shows ELSE page[b].poll.body
  BY <1>2, PollParts, BrowserParts
<1>4. page' = [page EXCEPT ![b].shows = s, ![b].poll = NoPoll] /\ page \in [Browser -> Pages]
  BY <1>3 DEF Answer, ShowsAnswer, ViewTypes
<1>5. PageIs(b, page[b].link, s, NoPoll)
  BY <1>4, EditShows, Zenon DEF PageIs
<1>6. page' \in [Browser -> Pages]
  BY <1>5 DEF PageIs, PageEdited
<1> QED
  BY <1>2, <1>3, <1>5, <1>6 DEF Answer, ViewTypes, sourceVars, taskVars, apiVars, stampVars

(* s is t, or an earlier state of it.                                     *)
Past(s, t) == s.ver <= t.ver /\ (s.ver = t.ver => s = t)
(* The task holds a batch that it has not sent.                           *)
Holding == task.step \in {"publish", "send"}

(* A view taken when the revision was rev: no node in it is ahead of the  *)
(* truth or differs from it at the same version, and if the revision is   *)
(* still the present one it is the truth, but for changes that are not    *)
(* announced.                                                             *)
Stamped(rev, nodes) ==
  /\ rev <= revision
  /\ \A n \in ViewNode : Past(nodes[n], truth[n])
  /\ rev = revision => \A n \in ViewNode \ Unannounced : nodes[n] = truth[n]

(* A batch was taken from the nodes as they were at its revision or       *)
(* before.                                                                *)
GoodBatch(B) ==
  B.rev <= revision /\ \A n \in DOMAIN B.rows : Past(B.rows[n], truth[n])

(* The task will hear of n: a signal waits, or whoever changed n is still *)
(* to send one.                                                           *)
Told(n) == signal \/ \E w \in Updater : writers[w].step # "idle" /\ n \in writers[w].nodes
(* Or it has heard, and is on its way to a comparison.                    *)
Owed(n) == Told(n) \/ (task.dirty /\ task.step \in {"wait", "count", "diff", "read"})

(* What the shared frame has of n is right, or its end is near: a tick    *)
(* will find the revision raised, or the batch that brings n supersedes   *)
(* it.                                                                    *)
FrameKnows(n) ==
  /\ slot.nodes[n] = truth[n] \/ Told(n) \/ (task.dirty /\ task.step = "wait")
  /\ n \notin early.compared /\ task.last[n] = truth[n] =>
       \/ slot.nodes[n] = truth[n]
       \/ /\ Holding /\ n \in DOMAIN task.batch.rows
          /\ task.batch.rows[n] = truth[n] /\ task.batch.rev > slot.rev

(* The frame is the view of its revision; while no later batch has been   *)
(* published, sessions may still be given it.                             *)
FrameInv ==
  slot # NoFrame =>
    /\ Stamped(slot.rev, slot.nodes)
    /\ slot.rev >= published => \A n \in ViewNode : truth[n].here => FrameKnows(n)

(* The baseline of the comparison is the truth or older, and a batch is   *)
(* published before it is sent.                                           *)
TaskInv ==
  /\ \A n \in ViewNode : Past(task.last[n], truth[n]) /\ Past(Absent, truth[n])
  /\ Holding => GoodBatch(task.batch)
  /\ task.step = "send" => task.batch.rev <= published

(* A batch and the frame are in the order of their revisions.             *)
Versus(B) ==
  slot # NoFrame => \A n \in DOMAIN B.rows :
    /\ B.rev > slot.rev => B.rows[n].ver >= slot.nodes[n].ver
    /\ slot.rev >= B.rev /\ n \notin early.read => slot.nodes[n].ver >= B.rows[n].ver

(* No row of B is older than the one of A.                                *)
Newer(A, B) == \A n \in DOMAIN A.rows \cap DOMAIN B.rows : B.rows[n].ver >= A.rows[n].ver

(* A queue holds batches that were published, in the order in which they  *)
(* were made, and before the one the task holds.                          *)
Sent(B) == GoodBatch(B) /\ B.rev <= published /\ Versus(B)
QueueOf(b) ==
  \A i \in 1..Len(viewer[b].queue) :
    /\ Sent(viewer[b].queue[i])
    /\ Holding => Newer(viewer[b].queue[i], task.batch)
    /\ \A j \in 1..Len(viewer[b].queue) : i < j => Newer(viewer[b].queue[i], viewer[b].queue[j])
QueuesInv ==
  /\ Holding => Versus(task.batch)
  /\ \A b \in Browser : QueueOf(b)

(* A batch that the session will forward to the page takes no row back of *)
(* what the page was sent.                                                *)
Advancing(b, B) ==
  B.rev > viewer[b].base => \A n \in DOMAIN B.rows : B.rows[n].ver >= seen[b].due[n].ver
(* The page will be sent the present state of n with B.                   *)
Brings(b, B, n) ==
  B.rev > viewer[b].base /\ n \in DOMAIN B.rows /\ B.rows[n] = truth[n]
(* The page was sent the present state of n, or a batch that waits for it *)
(* or is being made has it.                                               *)
Catches(b, n) ==
  \/ seen[b].due[n] = truth[n]
  \/ \E i \in 1..Len(viewer[b].queue) : Brings(b, viewer[b].queue[i], n)
  \/ Holding /\ Brings(b, task.batch, n)
(* Or the task owes n a comparison, and will find a difference: since it  *)
(* compared last n has changed, so that a batch follows.                  *)
Settles(b, n) == Catches(b, n) \/ (Owed(n) /\ task.last[n] # truth[n])

(* A page with a stream has had its first frame.                          *)
Live(b) == viewer[b].stage = "live"
(* A frame that may yet be given to the page again does not take it back. *)
FrameKeepsUp(b) ==
  slot # NoFrame /\ slot.rev >= published =>
    \A n \in ViewNode \ early.read : slot.nodes[n].ver >= seen[b].due[n].ver
(* The page shows what it was sent, but for rows that it missed: of those *)
(* it shows something older.                                              *)
Shown(b) ==
  \A n \in ViewNode :
    /\ n \notin seen[b].missed => page[b].shows[n] = seen[b].due[n]
    /\ page[b].shows[n].ver <= seen[b].due[n].ver
(* What the page was sent is the view of its base with the batches since: *)
(* the truth or older. Its poll, if it has one, is aborted                *)
(* (stores/nodes.ts).                                                     *)
StreamOf(b) ==
  /\ Stamped(viewer[b].base, seen[b].due)
  /\ FrameKeepsUp(b) /\ Shown(b)
  /\ \A i \in 1..Len(viewer[b].queue) : Advancing(b, viewer[b].queue[i])
  /\ Holding => Advancing(b, task.batch)
  /\ page[b].poll = NoPoll \/ page[b].poll.aborted = TRUE
  /\ ~viewer[b].lagged =>
       \A n \in ViewNode \ early.compared : truth[n].here => Settles(b, n)
StreamInv == \A b \in Browser : Live(b) => StreamOf(b)

(* A body that is cached under the present revision holds every change    *)
(* that revision announced.                                               *)
AnnouncedInv ==
  /\ \A n \in ViewNode : announced[n] <= truth[n].ver
  /\ cache.rev <= revision
  /\ cache.rev = revision => \A n \in ViewNode : cache.body[n].ver >= announced[n]

(* A poll carries the revision it read first; what it was built from or   *)
(* found in the cache is not older than what had been announced when it   *)
(* was asked for.                                                         *)
PollGood(p) ==
  /\ p.rev <= revision
  /\ \A n \in ViewNode : p.since[n] <= announced[n]
  /\ p.step = "look" /\ p.rev = cache.rev => \A n \in ViewNode : cache.body[n].ver >= p.since[n]
  /\ p.step \in {"store", "answer"} => \A n \in ViewNode : p.body[n].ver >= p.since[n]
  /\ p.step = "store" /\ p.rev = revision => \A n \in ViewNode : p.body[n].ver >= announced[n]
PollInv == \A b \in Browser : page[b].poll # NoPoll => PollGood(page[b].poll)

(* The inductive invariant.                                               *)
StreamsInv == FrameInv /\ TaskInv /\ QueuesInv /\ StreamInv
ViewInv == ViewTypes /\ StreamsInv /\ AnnouncedInv /\ PollInv

LEMMA PastFacts ==
  ASSUME NEW s \in States, NEW t \in States
  PROVE  /\ Past(t, t)
         /\ Past(s, t) => s.ver <= t.ver
         /\ Past(s, t) /\ s.ver >= t.ver => s = t
         /\ \A u \in States : Past(s, t) /\ u.ver = t.ver + 1 => Past(s, u) /\ s # u
  BY StateParts DEF Past

LEMMA ViewParts ==
  ASSUME ViewTypes, NEW n \in ViewNode
  PROVE  /\ truth[n] \in States /\ task.last[n] \in States /\ task \in Tasks
         /\ task.batch \in Batches /\ Absent \in States
         /\ slot # NoFrame => slot \in Frames /\ slot.rev \in Nat /\ slot.nodes[n] \in States
         /\ revision \in Nat /\ published \in Nat
  BY TaskParts, FrameParts, NothingYet DEF ViewTypes, Views

(* A change of a node: whoever made it has still to raise the revision    *)
(* and to send the signal, so that every view so far may miss it.         *)
LEMMA AlteredFacts ==
  ASSUME NEW w \in Updater, NEW n \in ViewNode, NEW here \in BOOLEAN, ViewTypes, Altered(w, n, here)
  PROVE  /\ AlteredTo(w, n, here) /\ ViewTypes'
         /\ UNCHANGED <<revision, announced, signal, task, published, slot, viewer, page, seen, cache>>
         /\ \A m \in ViewNode \ {n} : truth'[m] = truth[m]
         /\ n \in Unannounced' /\ \A m \in Unannounced : m \in Unannounced'
         /\ Told(n)' /\ \A m : Told(m) => Told(m)'
         /\ \A m \in ViewNode, s \in States : Past(s, truth[m]) => Past(s, truth'[m])
         /\ \A s \in States : Past(s, truth[n]) => s # truth'[n]
         /\ \A m \in ViewNode : truth'[m].ver >= truth[m].ver
         /\ early'.read = early.read /\ \A m \in ViewNode \ {n} : m \in early'.compared <=> m \in early.compared
         /\ n \notin early'.compared
<1>1. AlteredTo(w, n, here) /\ ViewTypes'
  BY AlteredEffect
<1>2. UNCHANGED <<revision, announced, signal, task, published, slot, viewer, page, seen, cache>>
  BY DEF Altered, taskVars, apiVars, stampVars
<1>3. \A m \in ViewNode \ {n} : truth'[m] = truth[m]
  BY <1>1 DEF AlteredTo
<1>4. /\ n \in Unannounced' /\ \A m \in Unannounced : m \in Unannounced'
      /\ Told(n)' /\ \A m : Told(m) => Told(m)'
  <2>1. \A v \in Updater : writers[v].step = "changed" => writers'[v].step = "changed"
    BY <1>1 DEF AlteredTo
  <2>2. \A v \in Updater : \A m \in writers[v].nodes : m \in writers'[v].nodes
    BY <1>1 DEF AlteredTo
  <2>3. \A v \in Updater : writers[v].step # "idle" => writers'[v].step # "idle"
    BY <1>1 DEF AlteredTo
  <2>4. writers'[w].step = "changed" /\ n \in writers'[w].nodes
    BY <1>1 DEF AlteredTo
  <2>5. \A m : Told(m) => Told(m)'
    BY <1>2, <2>2, <2>3 DEF Told
  <2>6. \A m \in Unannounced : m \in Unannounced'
    BY <2>1, <2>2 DEF Unannounced
  <2> QED
    BY <2>4, <2>5, <2>6 DEF Told, Unannounced
<1>5. \A m \in ViewNode : truth[m] \in States /\ truth'[m] \in States
  BY <1>1 DEF ViewTypes, Views
<1>6. truth'[n].ver = truth[n].ver + 1
  BY <1>1 DEF AlteredTo
<1>7. ASSUME NEW m \in ViewNode, NEW s \in States, Past(s, truth[m]) PROVE Past(s, truth'[m])
  BY <1>3, <1>5, <1>6, <1>7, PastFacts
<1>8. \A s \in States : Past(s, truth[n]) => s # truth'[n]
  BY <1>5, <1>6, PastFacts
<1>9. \A m \in ViewNode : truth'[m].ver >= truth[m].ver
  BY <1>3, <1>5, <1>6, StateParts
<1>10. /\ early'.read = early.read /\ n \notin early'.compared
       /\ \A m \in ViewNode \ {n} : m \in early'.compared <=> m \in early.compared
  BY <1>1 DEF AlteredTo
<1> QED
  BY <1>1, <1>2, <1>3, <1>4, <1>7, <1>8, <1>9, <1>10

LEMMA AlteredStamped ==
  ASSUME NEW w \in Updater, NEW n \in ViewNode, NEW here \in BOOLEAN, ViewTypes, Altered(w, n, here),
         NEW v \in Views, NEW r \in Nat, Stamped(r, v)
  PROVE  Stamped(r, v)'
<1>1. \A m \in ViewNode : v[m] \in States
  BY DEF Views
<1> QED
  BY <1>1, AlteredFacts DEF Stamped

LEMMA AlteredGood ==
  ASSUME NEW w \in Updater, NEW n \in ViewNode, NEW here \in BOOLEAN, ViewTypes, Altered(w, n, here),
         NEW B \in Batches, GoodBatch(B)
  PROVE  GoodBatch(B)'
  BY AlteredFacts, BatchParts DEF GoodBatch

LEMMA AlteredFrame ==
  ASSUME NEW w \in Updater, NEW n \in ViewNode, NEW here \in BOOLEAN, ViewInv, Altered(w, n, here)
  PROVE  FrameInv'
<1>0. ViewTypes /\ FrameInv /\ TaskInv
  BY DEF ViewInv, StreamsInv
<1>1. UNCHANGED <<revision, task, published, slot>>
  BY <1>0, AlteredFacts
<1>2. ASSUME slot # NoFrame PROVE Stamped(slot.rev, slot.nodes)'
  <2>1. slot.rev \in Nat /\ slot.nodes \in Views
    BY <1>0, <1>2, FrameParts DEF ViewTypes
  <2>2. PICK r \in Nat, v \in Views : r = slot.rev /\ v = slot.nodes
    BY <2>1
  <2>3. Stamped(r, v)'
    BY <1>0, <1>2, <2>2, AlteredStamped DEF FrameInv
  <2> QED
    BY <1>1, <2>2, <2>3 DEF Stamped
<1>3. ASSUME slot # NoFrame, slot.rev >= published, NEW m \in ViewNode, truth'[m].here
      PROVE  FrameKnows(m)'
  <2>1. CASE m = n
    <3>1. task.last[n] # truth'[n]
      BY <1>0, ViewParts, AlteredFacts DEF TaskInv
    <3> QED
      BY <1>0, <1>1, <2>1, <3>1, AlteredFacts DEF FrameKnows
  <2>2. CASE m # n
    <3>1. FrameKnows(m)
      BY <1>0, <1>3, <2>2, AlteredFacts DEF FrameInv
    <3>2. Holding' <=> Holding
      BY <1>1 DEF Holding
    <3> QED
      BY <1>0, <1>1, <2>2, <3>1, <3>2, AlteredFacts DEF FrameKnows
  <2> QED
    BY <2>1, <2>2
<1> QED
  BY <1>1, <1>2, <1>3 DEF FrameInv

LEMMA AlteredTask ==
  ASSUME NEW w \in Updater, NEW n \in ViewNode, NEW here \in BOOLEAN, ViewInv, Altered(w, n, here)
  PROVE  TaskInv'
<1>0. ViewTypes /\ TaskInv
  BY DEF ViewInv, StreamsInv
<1>1. UNCHANGED <<revision, task, published>>
  BY <1>0, AlteredFacts
<1>2. \A m \in ViewNode : Past(task.last[m], truth'[m]) /\ Past(Absent, truth'[m])
  BY <1>0, ViewParts, AlteredFacts DEF TaskInv
<1>3. ASSUME Holding PROVE GoodBatch(task.batch)'
  <2>1. PICK B \in Batches : B = task.batch
    BY <1>0, ViewParts, TaskParts DEF ViewTypes
  <2>2. GoodBatch(B)'
    BY <1>0, <1>3, <2>1, AlteredGood DEF TaskInv
  <2> QED
    BY <1>1, <2>1, <2>2 DEF GoodBatch
<1> QED
  BY <1>0, <1>1, <1>2, <1>3 DEF TaskInv, Holding

LEMMA AlteredQueue ==
  ASSUME NEW w \in Updater, NEW n \in ViewNode, NEW here \in BOOLEAN, ViewInv, Altered(w, n, here)
  PROVE  QueuesInv'
<1>0. ViewTypes /\ QueuesInv
  BY DEF ViewInv, StreamsInv
<1>1. UNCHANGED <<revision, task, published, slot, viewer, seen>> /\ early'.read = early.read
  BY <1>0, AlteredFacts
<1>2. \A B : Versus(B) => Versus(B)'
  BY <1>1 DEF Versus
<1>3. \A B \in Batches : Sent(B) => Sent(B)'
  BY <1>0, <1>1, <1>2, AlteredGood DEF Sent
<1>4. Holding' <=> Holding
  BY <1>1 DEF Holding
<1>5. ASSUME NEW b \in Browser PROVE QueueOf(b)'
  <2>1. QueueOf(b) /\ viewer'[b] = viewer[b]
    BY <1>0, <1>1 DEF QueuesInv
  <2>2. \A i \in 1 .. Len(viewer[b].queue) : viewer[b].queue[i] \in Batches
    BY <1>0, BrowserParts
  <2> QED
    BY <1>1, <1>3, <1>4, <2>1, <2>2 DEF QueueOf, Sent, GoodBatch, Versus
<1> QED
  BY <1>0, <1>1, <1>2, <1>4, <1>5 DEF QueuesInv, Versus

LEMMA AlteredStream ==
  ASSUME NEW w \in Updater, NEW n \in ViewNode, NEW here \in BOOLEAN, ViewInv, Altered(w, n, here)
  PROVE  StreamInv'
<1>0. ViewTypes /\ StreamInv /\ TaskInv
  BY DEF ViewInv, StreamsInv
<1>1. UNCHANGED <<revision, task, published, slot, viewer, page, seen>> /\ early'.read = early.read
  BY <1>0, AlteredFacts
<1>2. SUFFICES ASSUME NEW b \in Browser, Live(b) PROVE StreamOf(b)'
  BY <1>1 DEF StreamInv, Live
<1>3. StreamOf(b)
  BY <1>0, <1>2 DEF StreamInv
<1>4. Stamped(viewer[b].base, seen[b].due)'
  <2>1. PICK r \in Nat, v \in Views : r = viewer[b].base /\ v = seen[b].due
    BY <1>0, BrowserParts
  <2>2. Stamped(r, v)'
    BY <1>0, <1>3, <2>1, AlteredStamped DEF StreamOf
  <2> QED
    BY <1>1, <2>1, <2>2 DEF Stamped
<1>5. FrameKeepsUp(b)'
  BY <1>1, <1>3 DEF FrameKeepsUp, StreamOf
<1>6. /\ \A i \in 1..Len(viewer'[b].queue) : Advancing(b, viewer[b].queue[i])'
      /\ Holding' => Advancing(b, task.batch)'
  BY <1>1, <1>3 DEF StreamOf, Advancing, Holding
<1>7. ASSUME ~viewer[b].lagged, NEW m \in ViewNode, m \notin early'.compared, truth'[m].here
      PROVE  Settles(b, m)'
  <2>2. CASE m # n
    <3>1. Settles(b, m)
      BY <1>0, <1>3, <1>7, <2>2, AlteredFacts DEF StreamOf
    <3>2. truth'[m] = truth[m] /\ (Told(m) => Told(m)')
      BY <1>0, <2>2, AlteredFacts
    <3>3. Owed(m) => Owed(m)'
      BY <1>1, <3>2 DEF Owed
    <3>4. Catches(b, m) => Catches(b, m)'
      BY <1>1, <3>2 DEF Catches, Brings, Holding
    <3> QED
      BY <1>1, <3>1, <3>2, <3>3, <3>4 DEF Settles
  <2>3. CASE m = n
    <3>1. task.last[n] # truth'[n] /\ Told(n)'
      BY <1>0, ViewParts, AlteredFacts DEF TaskInv
    <3> QED
      BY <1>1, <2>3, <3>1 DEF Settles, Owed
  <2> QED
    BY <2>2, <2>3
<1> QED
  BY <1>1, <1>3, <1>4, <1>5, <1>6, <1>7 DEF StreamOf, Shown

LEMMA AlteredOthers ==
  ASSUME NEW w \in Updater, NEW n \in ViewNode, NEW here \in BOOLEAN, ViewInv, Altered(w, n, here)
  PROVE  AnnouncedInv' /\ PollInv'
<1>0. ViewTypes /\ AnnouncedInv /\ PollInv
  BY DEF ViewInv
<1>1. UNCHANGED <<revision, announced, page, cache>>
  BY <1>0, AlteredFacts
<1>2. \A m \in ViewNode : announced[m] <= truth'[m].ver
  <2>1. SUFFICES ASSUME NEW m \in ViewNode PROVE announced[m] <= truth'[m].ver
    OBVIOUS
  <2>2. announced[m] \in Nat /\ truth[m].ver \in Nat /\ truth'[m].ver \in Nat
    <3>1. truth \in Views /\ truth' \in Views /\ announced \in [ViewNode -> Nat]
      BY <1>0, AlteredFacts DEF ViewTypes
    <3> QED
      BY <3>1, StateParts DEF Views
  <2>3. announced[m] <= truth[m].ver /\ truth'[m].ver >= truth[m].ver
    BY <1>0, AlteredFacts DEF AnnouncedInv
  <2> QED
    BY <2>2, <2>3
<1> QED
  BY <1>0, <1>1, <1>2 DEF AnnouncedInv, PollInv, PollGood

(* The revision is raised: views of earlier revisions are no longer       *)
(* present.                                                               *)
LEMMA RaiseFacts ==
  ASSUME NEW w \in Updater, ViewTypes, RaiseRevision(w)
  PROVE  /\ ViewTypes' /\ revision' = revision + 1
         /\ UNCHANGED <<truth, early, signal, task, published, slot, viewer, page, seen, cache>>
         /\ \A n \in ViewNode : announced'[n] = IF n \in writers[w].nodes THEN truth[n].ver ELSE announced[n]
         /\ \A n : Told(n)' <=> Told(n)
         /\ \A r \in Nat : \A v : Stamped(r, v) => Stamped(r, v)'
         /\ \A B \in Batches : GoodBatch(B) => GoodBatch(B)'
<1>1. /\ ViewTypes' /\ revision' = revision + 1 /\ writers[w].step = "changed"
      /\ \A n \in ViewNode : announced'[n] = IF n \in writers[w].nodes THEN truth[n].ver ELSE announced[n]
      /\ writers'[w].step = "bumped" /\ writers'[w].nodes = writers[w].nodes
      /\ \A v \in Updater \ {w} : writers'[v] = writers[v]
  BY RaiseEffect DEF RaiseRevision
<1>2. UNCHANGED <<truth, early, signal, task, published, slot, viewer, page, seen, cache>>
  BY DEF RaiseRevision, taskVars, apiVars, stampVars
<1>3. \A n : Told(n)' <=> Told(n)
  <2>1. \A v \in Updater : (writers'[v].step # "idle" <=> writers[v].step # "idle")
                           /\ writers'[v].nodes = writers[v].nodes
    BY <1>1
  <2> QED
    BY <1>2, <2>1 DEF Told
<1>4. revision \in Nat
  BY DEF ViewTypes
<1>5. \A r \in Nat : \A v : Stamped(r, v) => Stamped(r, v)'
  BY <1>1, <1>2, <1>4 DEF Stamped
<1>6. \A B \in Batches : GoodBatch(B) => GoodBatch(B)'
  BY <1>1, <1>2, <1>4, BatchParts DEF GoodBatch
<1> QED
  BY <1>1, <1>2, <1>3, <1>5, <1>6

LEMMA SourceKeeps ==
  ASSUME ViewTypes, StreamsInv, UNCHANGED <<truth, early, task, published, slot, viewer, page, seen>>,
         \A n : Told(n) => Told(n)',
         \A r \in Nat : \A v : Stamped(r, v) => Stamped(r, v)',
         \A B \in Batches : GoodBatch(B) => GoodBatch(B)'
  PROVE  StreamsInv'
<1>0. ViewTypes /\ FrameInv /\ TaskInv /\ QueuesInv /\ StreamInv
  BY DEF StreamsInv
<1>1. UNCHANGED <<truth, early, task, published, slot, viewer, page, seen>>
  OBVIOUS
<1>2. /\ \A n : Told(n) => Told(n)'
      /\ \A r \in Nat : \A v : Stamped(r, v) => Stamped(r, v)'
      /\ \A B \in Batches : GoodBatch(B) => GoodBatch(B)'
  OBVIOUS
<1>3. /\ task.batch \in Batches /\ (Holding' <=> Holding)
      /\ \A b \in Browser : \A i \in 1 .. Len(viewer[b].queue) : viewer[b].queue[i] \in Batches
  BY <1>0, <1>1, ViewParts, BrowserParts, TaskParts DEF Holding, ViewTypes
<1>4. FrameInv'
  <2>1. slot # NoFrame => slot.rev \in Nat
    BY <1>0, FrameParts DEF ViewTypes
  <2>2. \A n \in ViewNode : FrameKnows(n) => FrameKnows(n)'
    BY <1>1, <1>2, <1>3 DEF FrameKnows
  <2>3. slot # NoFrame => Stamped(slot.rev, slot.nodes)'
    <3>1. ASSUME slot # NoFrame PROVE Stamped(slot.rev, slot.nodes)'
      <4>1. PICK r, v : r = slot.rev /\ v = slot.nodes
        OBVIOUS
      <4>2. Stamped(r, v)'
        BY <1>0, <1>2, <2>1, <3>1, <4>1 DEF FrameInv
      <4> QED
        BY <1>1, <4>1, <4>2 DEF Stamped
    <3> QED
      BY <3>1
  <2> QED
    BY <1>0, <1>1, <2>2, <2>3 DEF FrameInv
<1>5. TaskInv'
  <2>1. Holding => GoodBatch(task.batch)'
    <3>1. PICK B \in Batches : B = task.batch
      BY <1>3
    <3>2. Holding => GoodBatch(B)'
      BY <1>0, <1>2, <3>1 DEF TaskInv
    <3> QED
      BY <1>1, <3>1, <3>2 DEF GoodBatch
  <2> QED
    BY <1>0, <1>1, <1>3, <2>1 DEF TaskInv
<1>6. QueuesInv'
  <2>1. \A B : Versus(B) <=> Versus(B)'
    BY <1>1 DEF Versus
  <2>2. \A B \in Batches : Sent(B) => Sent(B)'
    BY <1>1, <1>2, <2>1 DEF Sent
  <2>3. ASSUME NEW b \in Browser PROVE QueueOf(b)'
    BY <1>0, <1>1, <1>3, <2>2 DEF QueuesInv, QueueOf, Sent, GoodBatch, Versus
  <2> QED
    BY <1>0, <1>1, <1>3, <2>1, <2>3 DEF QueuesInv, Versus
<1>7. StreamInv'
  <2>1. SUFFICES ASSUME NEW b \in Browser, Live(b) PROVE StreamOf(b)'
    BY <1>1 DEF StreamInv, Live
  <2>2. StreamOf(b)
    BY <1>0, <2>1 DEF StreamInv
  <2>3. Stamped(viewer[b].base, seen[b].due)'
    <3>1. PICK r \in Nat, v \in Views : r = viewer[b].base /\ v = seen[b].due
      BY <1>0, BrowserParts
    <3>2. Stamped(r, v)'
      BY <1>2, <2>2, <3>1 DEF StreamOf
    <3> QED
      BY <1>1, <3>1, <3>2 DEF Stamped
  <2>4. FrameKeepsUp(b)'
    BY <1>1, <2>2 DEF FrameKeepsUp, StreamOf
  <2>5. \A B : Advancing(b, B) <=> Advancing(b, B)'
    BY <1>1 DEF Advancing
  <2>6. \A n \in ViewNode : Settles(b, n) => Settles(b, n)'
    BY <1>1, <1>2 DEF Settles, Owed, Catches, Brings, Holding
  <2> QED
    BY <1>1, <1>3, <2>2, <2>3, <2>4, <2>5, <2>6 DEF StreamOf, Shown, Advancing
<1> QED
  BY <1>4, <1>5, <1>6, <1>7 DEF StreamsInv

LEMMA RaisePreserves ==
  ASSUME NEW w \in Updater, ViewInv, RaiseRevision(w)
  PROVE  ViewInv'
<1>0. ViewTypes /\ StreamsInv /\ AnnouncedInv /\ PollInv /\ ViewTypes'
  BY RaiseFacts DEF ViewInv
<1>1. StreamsInv'
  <2>1. UNCHANGED <<truth, early, task, published, slot, viewer, page, seen>>
    BY <1>0, RaiseFacts
  <2>2. /\ \A n : Told(n) => Told(n)'
        /\ \A r \in Nat : \A v : Stamped(r, v) => Stamped(r, v)'
        /\ \A B \in Batches : GoodBatch(B) => GoodBatch(B)'
    BY <1>0, RaiseFacts
  <2> QED
    BY <1>0, <2>1, <2>2, SourceKeeps
<1>2. /\ UNCHANGED <<truth, page, cache>> /\ revision' = revision + 1 /\ revision \in Nat
      /\ cache.rev \in Nat
  BY <1>0, RaiseFacts DEF ViewTypes
<1>3. \A n \in ViewNode : /\ announced[n] \in Nat /\ announced'[n] \in Nat /\ truth[n].ver \in Nat
                          /\ announced[n] <= announced'[n] /\ announced'[n] <= truth[n].ver
  <2>1. SUFFICES ASSUME NEW n \in ViewNode
                 PROVE  /\ announced[n] \in Nat /\ announced'[n] \in Nat /\ truth[n].ver \in Nat
                        /\ announced[n] <= announced'[n] /\ announced'[n] <= truth[n].ver
    OBVIOUS
  <2>2. announced[n] \in Nat /\ announced'[n] \in Nat /\ truth[n].ver \in Nat
    BY <1>0, StateParts DEF ViewTypes, Views
  <2>3. announced[n] <= truth[n].ver /\ announced'[n] \in {truth[n].ver, announced[n]}
    BY <1>0, RaiseFacts DEF AnnouncedInv
  <2> QED
    BY <2>2, <2>3
<1>4. AnnouncedInv'
  BY <1>0, <1>2, <1>3 DEF AnnouncedInv
<1>5. PollInv'
  <2>1. SUFFICES ASSUME NEW b \in Browser, page[b].poll # NoPoll PROVE PollGood(page[b].poll)'
    BY <1>2 DEF PollInv
  <2>2. PollGood(page[b].poll)
    BY <1>0, <2>1 DEF PollInv
  <2>3. /\ page[b].poll.rev \in Nat
        /\ \A n \in ViewNode : page[b].poll.since[n] \in Nat
    BY <1>0, <2>1, BrowserParts, PollParts
  <2>4. \A n \in ViewNode : page[b].poll.since[n] <= announced'[n]
    BY <1>3, <2>2, <2>3 DEF PollGood
  <2> QED
    BY <1>2, <2>2, <2>3, <2>4 DEF PollGood
<1> QED
  BY <1>0, <1>1, <1>4, <1>5 DEF ViewInv

LEMMA NotifyPreserves ==
  ASSUME NEW w \in Updater, ViewInv, Notify(w)
  PROVE  ViewInv'
<1>0. ViewTypes /\ StreamsInv /\ AnnouncedInv /\ PollInv /\ ViewTypes'
  BY NotifyEffect DEF ViewInv
<1>1. UNCHANGED <<truth, revision, announced, early, task, published, slot, viewer, page, seen, cache>>
  BY DEF Notify, taskVars, apiVars, stampVars
<1>2. \A n : Told(n)'
  BY <1>0, NotifyEffect DEF Told
<1>3. \A n : n \in Unannounced' <=> n \in Unannounced
  <2>1. /\ writers[w].step = "bumped" /\ writers'[w].step = "idle"
        /\ \A v \in Updater \ {w} : writers'[v] = writers[v]
    BY <1>0, NotifyEffect DEF Notify
  <2> QED
    BY <2>1 DEF Unannounced
<1>4. \A r \in Nat : \A v : Stamped(r, v) => Stamped(r, v)'
  BY <1>1, <1>3 DEF Stamped
<1>5. \A B \in Batches : GoodBatch(B) => GoodBatch(B)'
  BY <1>1 DEF GoodBatch
<1>6. StreamsInv'
  BY <1>0, <1>1, <1>2, <1>4, <1>5, SourceKeeps
<1>7. AnnouncedInv' /\ PollInv'
  BY <1>0, <1>1 DEF AnnouncedInv, PollInv, PollGood
<1> QED
  BY <1>0, <1>6, <1>7 DEF ViewInv

LEMMA AlteredPreserves ==
  ASSUME NEW w \in Updater, NEW n \in ViewNode, NEW here \in BOOLEAN, ViewInv, Altered(w, n, here)
  PROVE  ViewInv'
<1>1. ViewTypes'
  BY AlteredFacts DEF ViewInv
<1> QED
  BY <1>1, AlteredFrame, AlteredTask, AlteredQueue, AlteredStream, AlteredOthers DEF ViewInv, StreamsInv

LEMMA SameSource ==
  ASSUME UNCHANGED <<truth, revision, writers, signal>>
  PROVE  /\ \A n : (Told(n)' <=> Told(n)) /\ (n \in Unannounced' <=> n \in Unannounced)
         /\ \A r, v : Stamped(r, v)' <=> Stamped(r, v)
         /\ \A B : GoodBatch(B)' <=> GoodBatch(B)
<1>1. \A n : n \in Unannounced' <=> n \in Unannounced
  BY DEF Unannounced
<1> QED
  BY <1>1 DEF Told, Stamped, GoodBatch

LEMMA SamePolls ==
  ASSUME AnnouncedInv, PollInv, UNCHANGED <<truth, revision, announced, cache, page>>
  PROVE  AnnouncedInv' /\ PollInv'
  BY DEF AnnouncedInv, PollInv, PollGood

(* Steps of the task that hold no batch before or after.                  *)
Idling == ~Holding /\ ~Holding'

LEMMA IdleTask ==
  ASSUME ViewTypes, TaskInv, QueuesInv, Idling, UNCHANGED <<truth, revision, early, writers, signal, viewer>>,
         published' >= published, published \in Nat, published' \in Nat,
         slot' = NoFrame \/ (slot # NoFrame /\ slot'.rev = slot.rev /\ slot'.nodes = slot.nodes),
         \A n \in ViewNode : Past(task'.last[n], truth[n])
  PROVE  TaskInv' /\ QueuesInv'
<1>1. TaskInv'
  BY DEF TaskInv, Idling, Holding
<1>2. \A B : Versus(B) => Versus(B)'
  BY DEF Versus
<1>3. \A B \in Batches : Sent(B) => Sent(B)'
  BY <1>2, SameSource, BatchParts DEF Sent
<1>4. ASSUME NEW b \in Browser PROVE QueueOf(b)'
  <2>1. QueueOf(b) /\ viewer'[b] = viewer[b]
    BY DEF QueuesInv
  <2>2. ASSUME NEW i \in 1 .. Len(viewer[b].queue) PROVE Sent(viewer[b].queue[i])'
    <3>1. PICK B \in Batches : B = viewer[b].queue[i]
      BY BrowserParts
    <3>2. Sent(B)'
      BY <1>3, <2>1, <3>1 DEF QueueOf
    <3> QED
      BY <2>1, <3>1, <3>2 DEF Sent, GoodBatch, Versus
  <2> QED
    BY <2>1, <2>2 DEF QueueOf, Idling
<1> QED
  BY <1>1, <1>4 DEF QueuesInv, Idling

LEMMA IdleStream ==
  ASSUME ViewTypes, StreamInv, Idling, UNCHANGED <<truth, revision, early, writers, signal, viewer, page, seen>>,
         published' >= published, published \in Nat, published' \in Nat,
         slot' = NoFrame \/ (slot # NoFrame /\ slot'.rev = slot.rev /\ slot'.nodes = slot.nodes),
         slot' # NoFrame => slot'.rev \in Nat,
         NEW b \in Browser, Live(b),
         \A n \in ViewNode : truth[n].here /\ Owed(n) /\ task.last[n] # truth[n] =>
             (Owed(n)' /\ task'.last[n] # truth[n])
  PROVE  StreamOf(b)'
<1>1. StreamOf(b)
  BY DEF StreamInv
<1>2. Stamped(viewer[b].base, seen[b].due)'
  <2>1. PICK r, v : r = viewer[b].base /\ v = seen[b].due
    OBVIOUS
  <2>2. Stamped(r, v)'
    BY <1>1, <2>1, SameSource DEF StreamOf
  <2> QED
    BY <2>1, <2>2 DEF Stamped
<1>3. FrameKeepsUp(b)'
  BY <1>1 DEF StreamOf, FrameKeepsUp
<1>4. \A n \in ViewNode : truth[n].here /\ Settles(b, n) => Settles(b, n)'
  BY DEF Settles, Catches, Brings, Idling
<1> QED
  BY <1>1, <1>2, <1>3, <1>4 DEF StreamOf, Shown, Advancing, Idling

LEMMA WakePreserves ==
  ASSUME ViewInv, Wake
  PROVE  ViewInv'
<1>0. /\ ViewTypes /\ FrameInv /\ TaskInv /\ QueuesInv /\ StreamInv /\ AnnouncedInv /\ PollInv
      /\ ViewTypes' /\ signal' = FALSE /\ task.step = "wait"
      /\ task'.step = "wait" /\ task'.dirty = TRUE /\ task'.last = task.last /\ task'.batch = task.batch
  BY WakeEffect DEF ViewInv, StreamsInv, Wake
<1>1. UNCHANGED <<truth, revision, announced, writers, early, published, slot, viewer, page, seen, cache>>
  BY DEF Wake, apiVars, stampVars
<1>2. Idling
  BY <1>0 DEF Idling, Holding
<1>3. /\ \A r, v : Stamped(r, v)' <=> Stamped(r, v)
      /\ \A B : GoodBatch(B)' <=> GoodBatch(B)
  <2>1. \A n : n \in Unannounced' <=> n \in Unannounced
    BY <1>1 DEF Unannounced
  <2> QED
    BY <1>1, <2>1 DEF Stamped, GoodBatch
<1>4. \A n : Owed(n)'
  BY <1>0 DEF Owed
<1>5. FrameInv'
  BY <1>0, <1>1, <1>2, <1>3 DEF FrameInv, FrameKnows, Idling, Stamped
<1>6. TaskInv'
  BY <1>0, <1>1, <1>2 DEF TaskInv, Idling
<1>7. QueuesInv'
  BY <1>0, <1>1, <1>2 DEF QueuesInv, QueueOf, Sent, GoodBatch, Versus, Idling
<1>8. StreamInv'
  <2>1. SUFFICES ASSUME NEW b \in Browser, Live(b) PROVE StreamOf(b)'
    BY <1>1 DEF StreamInv, Live
  <2>2. StreamOf(b)
    BY <1>0, <2>1 DEF StreamInv
  <2>3. Stamped(viewer[b].base, seen[b].due)'
    <3>1. PICK r, v : r = viewer[b].base /\ v = seen[b].due
      OBVIOUS
    <3>2. Stamped(r, v)'
      BY <1>3, <2>2, <3>1 DEF StreamOf
    <3> QED
      BY <1>1, <3>1, <3>2 DEF Stamped
  <2>4. \A n \in ViewNode : Settles(b, n) => Settles(b, n)'
    BY <1>0, <1>1, <1>2, <1>4 DEF Settles, Catches, Brings, Idling
  <2> QED
    BY <1>1, <1>2, <2>2, <2>3, <2>4 DEF StreamOf, Shown, FrameKeepsUp, Advancing, Idling
<1> QED
  BY <1>0, <1>1, <1>5, <1>6, <1>7, <1>8, SamePolls DEF ViewInv, StreamsInv

LEMMA AdvancesPreserves ==
  ASSUME ViewInv, Advances
  PROVE  ViewInv'
<1>0. /\ ViewTypes /\ FrameInv /\ TaskInv /\ QueuesInv /\ StreamInv /\ AnnouncedInv /\ PollInv
      /\ ViewTypes' /\ task.step = "wait"
      /\ published' >= published /\ published' >= revision
      /\ task'.step = "count" /\ task'.dirty = task.dirty /\ task'.last = task.last /\ task'.batch = task.batch
      /\ slot' = NoFrame <=> slot = NoFrame
      /\ slot # NoFrame => slot'.rev = slot.rev /\ slot'.nodes = slot.nodes
  BY AdvancesEffect DEF ViewInv, StreamsInv, Advances
<1>1. UNCHANGED <<truth, revision, announced, writers, early, signal, viewer, page, seen, cache>>
  BY DEF Advances, sourceVars, apiVars, stampVars
<1>2. Idling
  BY <1>0 DEF Idling, Holding
<1>3. /\ published \in Nat /\ published' \in Nat /\ revision \in Nat
      /\ slot # NoFrame => slot.rev \in Nat
  BY <1>0, FrameParts DEF ViewTypes
<1>4. FrameInv'
  <2>1. ASSUME slot # NoFrame PROVE Stamped(slot.rev, slot.nodes)'
    <3>1. PICK r, v : r = slot.rev /\ v = slot.nodes
      OBVIOUS
    <3>2. Stamped(r, v)'
      BY <1>0, <1>1, <2>1, <3>1, SameSource DEF FrameInv
    <3>3. slot'.rev = r /\ slot'.nodes = v
      BY <1>0, <2>1, <3>1
    <3> QED
      BY <3>2, <3>3 DEF Stamped
  <2>2. ASSUME slot # NoFrame, slot.rev >= published', NEW n \in ViewNode, truth[n].here
        PROVE  FrameKnows(n)'
    <3>1. FrameKnows(n)
      BY <1>0, <1>3, <2>2 DEF FrameInv
    <3>2. slot.rev = revision
      BY <1>0, <1>3, <2>2 DEF FrameInv, Stamped
    <3>3. slot.nodes[n] = truth[n] \/ Told(n)
      <4>1. CASE n \in Unannounced
        BY <4>1 DEF Unannounced, Told
      <4>2. CASE n \notin Unannounced
        BY <1>0, <2>2, <3>2, <4>2 DEF FrameInv, Stamped
      <4> QED
        BY <4>1, <4>2
    <3>4. Told(n) <=> Told(n)'
      BY <1>1 DEF Told
    <3> QED
      BY <1>0, <1>1, <1>2, <2>2, <3>1, <3>3, <3>4 DEF FrameKnows, Idling
  <2>3. ASSUME slot' # NoFrame PROVE slot # NoFrame /\ slot'.rev = slot.rev
    BY <1>0, <2>3
  <2> QED
    BY <1>1, <2>1, <2>2, <2>3, <1>0 DEF FrameInv, Stamped
<1>5. TaskInv' /\ QueuesInv'
  BY <1>0, <1>1, <1>2, <1>3, IdleTask DEF TaskInv
<1>6. StreamInv'
  <2>1. SUFFICES ASSUME NEW b \in Browser, Live(b) PROVE StreamOf(b)'
    BY <1>1 DEF StreamInv, Live
  <2>2. \A n \in ViewNode : Owed(n) => Owed(n)'
    BY <1>0, <1>1 DEF Owed, Told
  <2> QED
    BY <1>0, <1>1, <1>2, <1>3, <2>1, <2>2, IdleStream
<1> QED
  BY <1>0, <1>1, <1>4, <1>5, <1>6, SamePolls DEF ViewInv, StreamsInv

LEMMA SameFrame ==
  ASSUME FrameInv, UNCHANGED <<truth, revision, writers, signal, slot>>,
         slot # NoFrame => slot.rev \in Nat,
         published' >= published, published \in Nat, published' \in Nat,
         \A n \in ViewNode : slot # NoFrame /\ slot.rev >= published' /\ truth[n].here /\ FrameKnows(n)
                               => FrameKnows(n)'
  PROVE  FrameInv'
<1>1. ASSUME slot # NoFrame PROVE Stamped(slot.rev, slot.nodes)'
  <2>1. PICK r, v : r = slot.rev /\ v = slot.nodes
    OBVIOUS
  <2>2. Stamped(r, v)'
    BY <1>1, <2>1, SameSource DEF FrameInv
  <2> QED
    BY <2>1, <2>2 DEF Stamped
<1> QED
  BY <1>1 DEF FrameInv

LEMMA CountPreserves ==
  ASSUME ViewInv, Count
  PROVE  ViewInv'
<1>0. /\ ViewTypes /\ FrameInv /\ TaskInv /\ QueuesInv /\ StreamInv /\ AnnouncedInv /\ PollInv
      /\ ViewTypes' /\ task.step = "count"
      /\ task'.dirty = task.dirty /\ task'.last = task.last /\ task'.batch = task.batch
      /\ \/ task'.step = "drop" /\ \A b \in Browser : viewer[b].stage = "none"
         \/ task'.step = "diff"
         \/ task'.step = "wait" /\ ~task.dirty
  BY CountEffect DEF ViewInv, StreamsInv
<1>1. UNCHANGED <<truth, revision, announced, writers, early, signal, published, slot, viewer, page, seen, cache>>
  BY DEF Count, sourceVars, apiVars, stampVars
<1>2. Idling
  BY <1>0 DEF Idling, Holding
<1>3. /\ published \in Nat /\ published' >= published
      /\ slot # NoFrame => slot.rev \in Nat
  BY <1>0, <1>1, FrameParts DEF ViewTypes
<1>4. FrameInv'
  <2>1. \A n \in ViewNode : FrameKnows(n) => FrameKnows(n)'
    BY <1>0, <1>1, <1>2 DEF FrameKnows, Idling, Told
  <2> QED
    BY <1>0, <1>1, <1>3, <2>1, SameFrame
<1>5. slot' = NoFrame \/ (slot # NoFrame /\ slot'.rev = slot.rev /\ slot'.nodes = slot.nodes)
  BY <1>1
<1>6. TaskInv' /\ QueuesInv'
  BY <1>0, <1>1, <1>2, <1>3, <1>5, IdleTask DEF TaskInv
<1>7. StreamInv'
  <2>1. SUFFICES ASSUME NEW b \in Browser, Live(b) PROVE StreamOf(b)'
    BY <1>1 DEF StreamInv, Live
  <2>2. \A n \in ViewNode : Owed(n) => Owed(n)'
    BY <1>0, <1>1, <2>1 DEF Owed, Told, Live
  <2> QED
    BY <1>0, <1>1, <1>2, <1>3, <1>5, <2>1, <2>2, IdleStream
<1> QED
  BY <1>0, <1>1, <1>4, <1>6, <1>7, SamePolls DEF ViewInv, StreamsInv

LEMMA StampPreserves ==
  ASSUME ViewInv, Stamp
  PROVE  ViewInv'
<1>0. /\ ViewTypes /\ FrameInv /\ TaskInv /\ QueuesInv /\ StreamInv /\ AnnouncedInv /\ PollInv
      /\ ViewTypes' /\ task.step = "diff" /\ task'.step = "read"
      /\ task'.dirty = task.dirty /\ task'.last = task.last /\ task'.batch = task.batch
  BY StampEffect DEF ViewInv, StreamsInv, Stamp
<1>1. UNCHANGED <<truth, revision, announced, writers, early, signal, published, slot, viewer, page, seen, cache>>
  BY DEF Stamp, sourceVars, apiVars, stampVars
<1>2. Idling
  BY <1>0 DEF Idling, Holding
<1>3. /\ published \in Nat /\ published' >= published
      /\ slot # NoFrame => slot.rev \in Nat
  BY <1>0, <1>1, FrameParts DEF ViewTypes
<1>4. FrameInv'
  <2>1. \A n \in ViewNode : FrameKnows(n) => FrameKnows(n)'
    BY <1>0, <1>1, <1>2 DEF FrameKnows, Idling, Told
  <2> QED
    BY <1>0, <1>1, <1>3, <2>1, SameFrame
<1>5. slot' = NoFrame \/ (slot # NoFrame /\ slot'.rev = slot.rev /\ slot'.nodes = slot.nodes)
  BY <1>1
<1>6. TaskInv' /\ QueuesInv'
  BY <1>0, <1>1, <1>2, <1>3, <1>5, IdleTask DEF TaskInv
<1>7. StreamInv'
  <2>1. SUFFICES ASSUME NEW b \in Browser, Live(b) PROVE StreamOf(b)'
    BY <1>1 DEF StreamInv, Live
  <2>2. \A n \in ViewNode : Owed(n) => Owed(n)'
    BY <1>0, <1>1 DEF Owed, Told
  <2> QED
    BY <1>0, <1>1, <1>2, <1>3, <1>5, <2>1, <2>2, IdleStream
<1> QED
  BY <1>0, <1>1, <1>4, <1>6, <1>7, SamePolls DEF ViewInv, StreamsInv

LEMMA DiffFailsPreserves ==
  ASSUME ViewInv, DiffFails
  PROVE  ViewInv'
<1>0. /\ ViewTypes /\ FrameInv /\ TaskInv /\ QueuesInv /\ StreamInv /\ AnnouncedInv /\ PollInv
      /\ ViewTypes' /\ task.step = "read" /\ task'.step = "wait"
      /\ task'.dirty = task.dirty /\ task'.last = task.last /\ task'.batch = task.batch
  BY DiffFailsEffect DEF ViewInv, StreamsInv, DiffFails
<1>1. UNCHANGED <<truth, revision, announced, writers, early, signal, published, slot, viewer, page, seen, cache>>
  BY DEF DiffFails, sourceVars, apiVars, stampVars
<1>2. Idling
  BY <1>0 DEF Idling, Holding
<1>3. /\ published \in Nat /\ published' >= published
      /\ slot # NoFrame => slot.rev \in Nat
  BY <1>0, <1>1, FrameParts DEF ViewTypes
<1>4. FrameInv'
  <2>1. \A n \in ViewNode : FrameKnows(n) => FrameKnows(n)'
    BY <1>0, <1>1, <1>2 DEF FrameKnows, Idling, Told
  <2> QED
    BY <1>0, <1>1, <1>3, <2>1, SameFrame
<1>5. slot' = NoFrame \/ (slot # NoFrame /\ slot'.rev = slot.rev /\ slot'.nodes = slot.nodes)
  BY <1>1
<1>6. TaskInv' /\ QueuesInv'
  BY <1>0, <1>1, <1>2, <1>3, <1>5, IdleTask DEF TaskInv
<1>7. StreamInv'
  <2>1. SUFFICES ASSUME NEW b \in Browser, Live(b) PROVE StreamOf(b)'
    BY <1>1 DEF StreamInv, Live
  <2>2. \A n \in ViewNode : Owed(n) => Owed(n)'
    BY <1>0, <1>1 DEF Owed, Told
  <2> QED
    BY <1>0, <1>1, <1>2, <1>3, <1>5, <2>1, <2>2, IdleStream
<1> QED
  BY <1>0, <1>1, <1>4, <1>6, <1>7, SamePolls DEF ViewInv, StreamsInv

LEMMA DropPreserves ==
  ASSUME ViewInv, Drop
  PROVE  ViewInv'
<1>0. /\ ViewTypes /\ FrameInv /\ TaskInv /\ QueuesInv /\ StreamInv /\ AnnouncedInv /\ PollInv
      /\ ViewTypes' /\ task.step = "drop" /\ task'.step = "wait" /\ slot' = NoFrame
      /\ task'.dirty = FALSE /\ task'.last = NoNodes /\ task'.batch = task.batch
  BY DropEffect DEF ViewInv, StreamsInv, Drop
<1>1. UNCHANGED <<truth, revision, announced, writers, early, signal, published, viewer, page, seen, cache>>
  BY DEF Drop, sourceVars, apiVars, stampVars
<1>2. Idling
  BY <1>0 DEF Idling, Holding
<1>3. published \in Nat /\ published' >= published
  BY <1>0, <1>1 DEF ViewTypes
<1>4. FrameInv'
  BY <1>0 DEF FrameInv
<1>5. slot' = NoFrame \/ (slot # NoFrame /\ slot'.rev = slot.rev /\ slot'.nodes = slot.nodes)
  BY <1>0
<1>6. TaskInv' /\ QueuesInv'
  <2>1. \A n \in ViewNode : Past(task'.last[n], truth[n])
    BY <1>0, NothingYet DEF TaskInv
  <2> QED
    BY <1>0, <1>1, <1>2, <1>3, <1>5, <2>1, IdleTask
<1>7. StreamInv'
  <2>1. SUFFICES ASSUME NEW b \in Browser, Live(b) PROVE StreamOf(b)'
    BY <1>1 DEF StreamInv, Live
  <2>2. \A n \in ViewNode : Owed(n) => Owed(n)'
    BY <1>0, <1>1 DEF Owed, Told
  <2>3. \A n \in ViewNode : truth[n].here => task'.last[n] # truth[n]
    BY <1>0, NothingYet
  <2>4. slot' # NoFrame => slot'.rev \in Nat
    BY <1>0
  <2> QED
    BY <1>0, <1>1, <1>2, <1>3, <1>5, <2>1, <2>2, <2>3, <2>4, IdleStream
<1> QED
  BY <1>0, <1>1, <1>4, <1>6, <1>7, SamePolls DEF ViewInv, StreamsInv

LEMMA PublishPreserves ==
  ASSUME ViewInv, PublishBatch
  PROVE  ViewInv'
<1>0. /\ ViewTypes /\ FrameInv /\ TaskInv /\ QueuesInv /\ StreamInv /\ AnnouncedInv /\ PollInv
      /\ task.step = "publish"
  BY DEF ViewInv, StreamsInv, PublishBatch
<1>2. Holding
  BY <1>0 DEF Holding
<1>3. /\ ViewTypes' /\ published' >= published /\ published' >= task.batch.rev
      /\ task'.step = "send" /\ task'.dirty = task.dirty /\ task'.last = task.last /\ task'.batch = task.batch
  BY <1>0, <1>2, PublishEffect DEF TaskInv, GoodBatch
<1>1. UNCHANGED <<truth, revision, announced, writers, early, signal, slot, viewer, page, seen, cache>>
  BY DEF PublishBatch, sourceVars, apiVars, stampVars
<1>4. /\ published \in Nat /\ published' \in Nat /\ Holding'
      /\ slot # NoFrame => slot.rev \in Nat
      /\ task.batch.rev \in Int
  BY <1>0, <1>3, FrameParts, TaskParts, BatchParts DEF ViewTypes, Holding
<1>5. FrameInv'
  <2>1. \A n \in ViewNode : FrameKnows(n) => FrameKnows(n)'
    BY <1>0, <1>1, <1>2, <1>3, <1>4 DEF FrameKnows, Told
  <2> QED
    BY <1>0, <1>1, <1>3, <1>4, <2>1, SameFrame
<1>6. TaskInv'
  <2>1. PICK B : B = task.batch
    OBVIOUS
  <2>2. GoodBatch(B)'
    BY <1>0, <1>1, <1>2, <2>1, SameSource DEF TaskInv
  <2>3. GoodBatch(task.batch)'
    BY <1>3, <2>1, <2>2 DEF GoodBatch
  <2> QED
    BY <1>0, <1>1, <1>3, <2>3 DEF TaskInv
<1>7. QueuesInv'
  <2>1. \A B : Versus(B) <=> Versus(B)'
    BY <1>1 DEF Versus
  <2>2. \A B \in Batches : Sent(B) => Sent(B)'
    BY <1>1, <1>3, <1>4, <2>1, SameSource, BatchParts DEF Sent
  <2>3. ASSUME NEW b \in Browser PROVE QueueOf(b)'
    <3>1. QueueOf(b) /\ viewer'[b] = viewer[b]
      BY <1>0, <1>1 DEF QueuesInv
    <3>2. ASSUME NEW i \in 1 .. Len(viewer[b].queue) PROVE Sent(viewer[b].queue[i])'
      <4>1. PICK B \in Batches : B = viewer[b].queue[i]
        BY <1>0, BrowserParts
      <4>2. Sent(B)'
        BY <2>2, <3>1, <4>1 DEF QueueOf
      <4> QED
        BY <3>1, <4>1, <4>2 DEF Sent, GoodBatch, Versus
    <3> QED
      BY <1>2, <1>3, <3>1, <3>2 DEF QueueOf
  <2> QED
    BY <1>0, <1>2, <1>3, <2>1, <2>3 DEF QueuesInv, Versus
<1>8. StreamInv'
  <2>1. SUFFICES ASSUME NEW b \in Browser, Live(b) PROVE StreamOf(b)'
    BY <1>1 DEF StreamInv, Live
  <2>2. StreamOf(b)
    BY <1>0, <2>1 DEF StreamInv
  <2>3. Stamped(viewer[b].base, seen[b].due)'
    <3>1. PICK r, v : r = viewer[b].base /\ v = seen[b].due
      OBVIOUS
    <3>2. Stamped(r, v)'
      BY <1>1, <2>2, <3>1, SameSource DEF StreamOf
    <3> QED
      BY <1>1, <3>1, <3>2 DEF Stamped
  <2>4. \A n \in ViewNode : Settles(b, n) => Settles(b, n)'
    BY <1>0, <1>1, <1>2, <1>3, <1>4 DEF Settles, Catches, Brings, Owed, Told
  <2>5. FrameKeepsUp(b)'
    BY <1>1, <1>3, <1>4, <2>2 DEF FrameKeepsUp, StreamOf
  <2> QED
    BY <1>1, <1>2, <1>3, <1>4, <2>2, <2>3, <2>4, <2>5 DEF StreamOf, Shown, Advancing
<1> QED
  BY <1>0, <1>1, <1>3, <1>5, <1>6, <1>7, <1>8, SamePolls DEF ViewInv, StreamsInv

(* The comparison: the batch holds each node that differs from the        *)
(* baseline, under the revision read before the nodes.                    *)
LEMMA DiffPreserves ==
  ASSUME ViewInv, Diff
  PROVE  ViewInv'
<1>0. /\ ViewTypes /\ FrameInv /\ TaskInv /\ QueuesInv /\ StreamInv /\ AnnouncedInv /\ PollInv
      /\ ViewTypes' /\ task.step = "read"
      /\ task'.step = "publish" /\ task'.dirty = task.dirty /\ task'.last = truth
      /\ task'.batch.rev = revision
      /\ DOMAIN task'.batch.rows = Differing(task.last, truth)
      /\ \A n \in DOMAIN task'.batch.rows : task'.batch.rows[n] = truth[n]
      /\ early'.read = early.read \cup Unannounced /\ early'.compared = early.compared \cup Unannounced
  BY DiffEffect DEF ViewInv, StreamsInv, Diff
<1>1. UNCHANGED <<truth, revision, announced, writers, signal, published, slot, viewer, page, seen, cache>>
  BY DEF Diff, apiVars, stampVars
<1>2. ~Holding /\ Holding'
  BY <1>0 DEF Holding
<1>3. /\ published \in Nat /\ published' >= published /\ revision \in Nat
      /\ slot # NoFrame => slot.rev \in Nat
      /\ \A n \in ViewNode : truth[n] \in States /\ truth[n].ver \in Nat /\ task.last[n] \in States
                             /\ (slot # NoFrame => slot.nodes[n] \in States)
  BY <1>0, <1>1, FrameParts, ViewParts, StateParts DEF ViewTypes
<1>4. \A n \in ViewNode : truth[n].here /\ task.last[n] # truth[n] =>
         n \in DOMAIN task'.batch.rows /\ task'.batch.rows[n] = truth[n]
  BY <1>0 DEF Differing
<1>5. \A n \in DOMAIN task'.batch.rows : n \in ViewNode
  BY <1>0 DEF Differing
<1>6. FrameInv'
  <2>1. ASSUME NEW n \in ViewNode, slot # NoFrame, slot.rev >= published, truth[n].here
        PROVE  FrameKnows(n)'
    <3>1. FrameKnows(n) /\ Stamped(slot.rev, slot.nodes)
      BY <1>0, <2>1 DEF FrameInv
    <3>2. slot.nodes[n] = truth[n] \/ Told(n)'
      BY <1>0, <1>1, <3>1 DEF FrameKnows, Told
    <3>3. ASSUME n \notin early'.compared, slot.nodes[n] # truth[n]
          PROVE  /\ n \in DOMAIN task'.batch.rows
                 /\ task'.batch.rows[n] = truth[n] /\ task'.batch.rev > slot.rev
      <4>1. n \notin early.compared /\ n \notin Unannounced
        BY <1>0, <3>3
      <4>2. task.last[n] # truth[n]
        BY <1>2, <3>1, <3>3, <4>1 DEF FrameKnows
      <4>3. slot.rev # revision /\ slot.rev <= revision
        BY <3>1, <3>3, <4>1 DEF Stamped
      <4> QED
        BY <1>0, <1>3, <1>4, <2>1, <4>2, <4>3
    <3> QED
      BY <1>1, <1>2, <3>2, <3>3 DEF FrameKnows
  <2> QED
    BY <1>0, <1>1, <1>3, <2>1, SameFrame
<1>7. TaskInv'
  <2>1. \A n \in ViewNode : Past(truth[n], truth[n])
    BY <1>3, PastFacts
  <2>2. GoodBatch(task.batch)'
    BY <1>0, <1>1, <1>3, <1>5, <2>1 DEF GoodBatch
  <2> QED
    BY <1>0, <1>1, <2>1, <2>2 DEF TaskInv
<1>8. QueuesInv'
  <2>1. \A B : Versus(B) => Versus(B)'
    BY <1>0, <1>1 DEF Versus
  <2>2. Versus(task.batch)'
    <3>1. SUFFICES ASSUME slot # NoFrame, NEW n \in DOMAIN task'.batch.rows
                   PROVE  /\ truth[n].ver >= slot.nodes[n].ver
                          /\ slot.rev >= revision /\ n \notin early'.read => slot.nodes[n] = truth[n]
      BY <1>0, <1>1, <1>3, <1>5 DEF Versus
    <3>2. n \in ViewNode /\ Stamped(slot.rev, slot.nodes)
      BY <1>0, <1>5, <3>1 DEF FrameInv
    <3>3. truth[n].ver >= slot.nodes[n].ver
      BY <1>3, <3>1, <3>2, StateParts DEF Stamped, Past
    <3>4. ASSUME slot.rev >= revision, n \notin early'.read PROVE slot.nodes[n] = truth[n]
      <4>1. slot.rev = revision /\ n \notin Unannounced
        BY <1>0, <1>3, <3>1, <3>2, <3>4 DEF Stamped
      <4> QED
        BY <3>2, <4>1 DEF Stamped
    <3> QED
      BY <3>3, <3>4
  <2>3. \A B \in Batches : Sent(B) => Sent(B)'
    BY <1>1, <2>1, SameSource DEF Sent
  <2>4. ASSUME NEW b \in Browser PROVE QueueOf(b)'
    <3>1. QueueOf(b) /\ viewer'[b] = viewer[b]
      BY <1>0, <1>1 DEF QueuesInv
    <3>2. ASSUME NEW i \in 1 .. Len(viewer[b].queue)
          PROVE  Sent(viewer[b].queue[i])' /\ Newer(viewer[b].queue[i], task'.batch)
      <4>1. PICK B \in Batches : B = viewer[b].queue[i]
        BY <1>0, BrowserParts
      <4>2. Sent(B)' /\ GoodBatch(B)
        BY <2>3, <3>1, <4>1 DEF QueueOf, Sent
      <4>3. Newer(B, task'.batch)
        BY <1>0, <1>3, <1>5, <4>2, BatchParts, StateParts DEF Newer, GoodBatch, Past
      <4> QED
        BY <3>1, <4>1, <4>2, <4>3 DEF Sent, GoodBatch, Versus
    <3> QED
      BY <3>1, <3>2 DEF QueueOf, Newer
  <2> QED
    BY <2>2, <2>4 DEF QueuesInv
<1>9. StreamInv'
  <2>1. SUFFICES ASSUME NEW b \in Browser, Live(b) PROVE StreamOf(b)'
    BY <1>1 DEF StreamInv, Live
  <2>2. StreamOf(b) /\ viewer[b].base \in Nat /\ \A n \in ViewNode : seen[b].due[n] \in States
    BY <1>0, <2>1, BrowserParts DEF StreamInv, Views
  <2>3. Stamped(viewer[b].base, seen[b].due)'
    <3>1. PICK r, v : r = viewer[b].base /\ v = seen[b].due
      OBVIOUS
    <3>2. Stamped(r, v)'
      BY <1>1, <2>2, <3>1, SameSource DEF StreamOf
    <3> QED
      BY <1>1, <3>1, <3>2 DEF Stamped
  <2>4. FrameKeepsUp(b)'
    BY <1>0, <1>1, <2>2 DEF FrameKeepsUp, StreamOf
  <2>5. Advancing(b, task.batch)'
    <3>1. \A n \in ViewNode : truth[n].ver >= seen[b].due[n].ver
      BY <1>3, <2>2, StateParts DEF StreamOf, Stamped, Past
    <3> QED
      BY <1>0, <1>1, <1>5, <3>1 DEF Advancing
  <2>6. ASSUME ~viewer[b].lagged, NEW n \in ViewNode, n \notin early'.compared, truth[n].here
        PROVE  Settles(b, n)'
    <3>1. n \notin early.compared /\ n \notin Unannounced
      BY <1>0, <2>6
    <3>2. Settles(b, n)
      BY <2>2, <2>6, <3>1 DEF StreamOf
    <3>3. CASE Catches(b, n)
      BY <1>1, <1>2, <3>3 DEF Settles, Catches, Brings
    <3>4. CASE task.last[n] # truth[n]
      <4>1. n \in DOMAIN task'.batch.rows /\ task'.batch.rows[n] = truth[n]
        BY <1>4, <2>6, <3>4
      <4>2. CASE viewer[b].base = revision
        <5>1. seen[b].due[n] = truth[n]
          BY <2>2, <2>6, <3>1, <4>2 DEF StreamOf, Stamped
        <5> QED
          BY <1>1, <5>1 DEF Settles, Catches
      <4>3. CASE viewer[b].base # revision
        <5>1. revision > viewer[b].base
          BY <1>3, <2>2, <4>3 DEF StreamOf, Stamped
        <5> QED
          BY <1>0, <1>1, <1>2, <4>1, <5>1 DEF Settles, Catches, Brings
      <4> QED
        BY <4>2, <4>3
    <3> QED
      BY <3>2, <3>3, <3>4 DEF Settles
  <2> QED
    BY <1>1, <1>2, <2>2, <2>3, <2>4, <2>5, <2>6 DEF StreamOf, Shown, Advancing
<1> QED
  BY <1>0, <1>1, <1>6, <1>7, <1>8, <1>9, SamePolls DEF ViewInv, StreamsInv

(* r is q, perhaps without its first element, with B at its end.          *)
Appended(q, r, B, d) ==
  /\ Len(r) \in Nat /\ Len(q) \in Nat /\ Len(r) = Len(q) - d + 1
  /\ \A i \in 1 .. Len(r) : r[i] = B \/ (i + d \in 1 .. Len(q) /\ r[i] = q[i + d])
  /\ \A i, j \in 1 .. Len(r) : i < j => (i + d \in 1 .. Len(q) /\ r[i] = q[i + d])
  /\ Len(r) \in 1 .. Len(r) /\ r[Len(r)] = B
  /\ d = 0 => \A i \in 1 .. Len(q) : i \in 1 .. Len(r) /\ r[i] = q[i]

LEMMA AppendedParts ==
  ASSUME NEW q \in Seq(Batches), NEW r \in Seq(Batches), NEW B, NEW d \in {0, 1},
         Len(r) = Len(q) - d + 1, Len(r) > 0, r[Len(r)] = B,
         \A i \in 1 .. (Len(r) - 1) : i + d \in 1 .. Len(q) /\ r[i] = q[i + d]
  PROVE  Appended(q, r, B, d)
<1>0. Len(q) \in Nat /\ Len(r) \in Nat
  OBVIOUS
<1>1. PICK k \in Nat, m \in Nat : k = Len(q) /\ m = Len(r)
  BY <1>0
<1>2. m \in 1 .. m /\ k = m + d - 1
  BY <1>1
<1>3. \A i \in 1 .. m : i = m \/ i \in 1 .. (m - 1)
  OBVIOUS
<1>4. \A i, j \in 1 .. m : i < j => i \in 1 .. (m - 1)
  OBVIOUS
<1>5. d = 0 => \A i \in 1 .. k : i \in 1 .. (m - 1) /\ i \in 1 .. m /\ i + d = i
  BY <1>2
<1> QED
  BY <1>1, <1>2, <1>3, <1>4, <1>5 DEF Appended

(* The stream of a session before and after a batch was broadcast to it.  *)
Extended(v, w, B) ==
  \/ v.stage = "none" /\ w = v
  \/ /\ v.stage # "none" /\ w.stage = v.stage /\ w.base = v.base
     /\ \E d \in {0, 1} : /\ Appended(v.queue, w.queue, B, d)
                          /\ ~w.lagged => d = 0 /\ ~v.lagged

LEMMA QueuedExtends ==
  ASSUME NEW v \in Viewers, NEW B \in Batches, NEW w, w = Queued(v, B)
  PROVE  Extended(v, w, B)
<1>1. CASE v.stage = "none"
  <2>1. w = v
    BY <1>1, QueuedParts
  <2> QED
    BY <1>1, <2>1, Zenon DEF Extended
<1>2. CASE v.stage # "none"
  <2>1. w \in Viewers /\ w.stage = v.stage /\ w.base = v.base
    BY QueuedParts
  <2>2. PICK d \in {0, 1} :
              /\ Len(w.queue) = Len(v.queue) - d + 1 /\ w.queue[Len(w.queue)] = B
              /\ \A i \in 1 .. (Len(w.queue) - 1) : i + d \in 1 .. Len(v.queue) /\ w.queue[i] = v.queue[i + d]
              /\ d = 0 => (w.lagged <=> v.lagged)
              /\ d = 1 => w.lagged
              /\ Len(w.queue) > 0
    BY <1>2, QueuedParts
  <2>3. v.queue \in Seq(Batches) /\ w.queue \in Seq(Batches)
    BY <2>1, ViewerParts
  <2>4. Appended(v.queue, w.queue, B, d)
    BY <2>2, <2>3, AppendedParts
  <2> QED
    <3>1. ~w.lagged => d = 0 /\ ~v.lagged
      BY <2>2
    <3> QED
      BY <1>2, <2>1, <2>4, <3>1, Zenon DEF Extended
<1> QED
  BY <1>1, <1>2

(* The batch goes to every session; a session that lags asks for a frame. *)
LEMMA SendPreserves ==
  ASSUME ViewInv, SendBatch
  PROVE  ViewInv'
<1>0. /\ ViewTypes /\ FrameInv /\ TaskInv /\ QueuesInv /\ StreamInv /\ AnnouncedInv /\ PollInv
      /\ ViewTypes' /\ task.step = "send" /\ task'.step = "wait" /\ task'.dirty = FALSE
      /\ task'.last = task.last
      /\ \A b \in Browser : viewer'[b] = Queued(viewer[b], task.batch)
  BY SendEffect DEF ViewInv, StreamsInv, SendBatch
<1>1. UNCHANGED <<truth, revision, announced, writers, early, signal, published, slot, page, seen, cache>>
  BY DEF SendBatch, sourceVars, apiVars, stampVars
<1>2. Holding /\ ~Holding'
  BY <1>0 DEF Holding
<1>3. PICK B \in Batches : B = task.batch
  BY <1>0, TaskParts DEF ViewTypes
<1>4. /\ published \in Nat /\ published' >= published
      /\ slot # NoFrame => slot.rev \in Nat
      /\ B.rev \in Int
  BY <1>0, <1>1, FrameParts, BatchParts DEF ViewTypes
<1>5. Sent(B) /\ B.rev <= published
  BY <1>0, <1>2, <1>3 DEF Sent, TaskInv, QueuesInv
<1>6. \A C : Sent(C) => Sent(C)'
  <2>1. \A C : Versus(C) => Versus(C)'
    BY <1>1 DEF Versus
  <2> QED
    BY <1>1, <2>1, SameSource DEF Sent
<1>7. FrameInv'
  <2>1. ASSUME NEW n \in ViewNode, slot # NoFrame, slot.rev >= published, FrameKnows(n)
        PROVE  FrameKnows(n)'
    <3>1. ~(B.rev > slot.rev)
      BY <1>4, <1>5, <2>1
    <3> QED
      BY <1>0, <1>1, <1>3, <2>1, <3>1 DEF FrameKnows, Told
  <2> QED
    BY <1>0, <1>1, <1>4, <2>1, SameFrame
<1>8. TaskInv'
  BY <1>0, <1>1, <1>2 DEF TaskInv
<1>9. \A b \in Browser : Extended(viewer[b], viewer'[b], B)
  <2>1. \A b \in Browser : viewer[b] \in Viewers /\ viewer'[b] = Queued(viewer[b], B)
    BY <1>0, <1>3 DEF ViewTypes
  <2> QED
    BY <2>1, QueuedExtends, Zenon
<1>10. QueuesInv'
  <2>1. ASSUME NEW b \in Browser PROVE QueueOf(b)'
    <3>1. QueueOf(b)
      BY <1>0 DEF QueuesInv
    <3>2. CASE viewer'[b] = viewer[b]
      BY <1>2, <1>6, <3>1, <3>2 DEF QueueOf, Sent, GoodBatch, Versus
    <3>3. CASE viewer'[b] # viewer[b]
      <4>1. PICK d \in {0, 1} : Appended(viewer[b].queue, viewer'[b].queue, B, d)
        BY <1>9, <3>3 DEF Extended
      <4>2. ASSUME NEW i \in 1 .. Len(viewer'[b].queue) PROVE Sent(viewer[b].queue[i])'
        <5>1. PICK C : C = viewer'[b].queue[i]
          OBVIOUS
        <5>2. C = B \/ (i + d \in 1 .. Len(viewer[b].queue) /\ C = viewer[b].queue[i + d])
          BY <4>1, <5>1 DEF Appended
        <5>3. Sent(C)
          BY <1>5, <3>1, <5>2 DEF QueueOf
        <5>4. Sent(C)'
          BY <1>6, <5>3
        <5> QED
          BY <5>1, <5>4 DEF Sent, GoodBatch, Versus
      <4>3. ASSUME NEW i \in 1 .. Len(viewer'[b].queue), NEW j \in 1 .. Len(viewer'[b].queue), i < j
            PROVE  Newer(viewer'[b].queue[i], viewer'[b].queue[j])
        <5>1. i + d \in 1 .. Len(viewer[b].queue) /\ viewer'[b].queue[i] = viewer[b].queue[i + d]
          BY <4>1, <4>3 DEF Appended
        <5>2. \/ viewer'[b].queue[j] = B
              \/ j + d \in 1 .. Len(viewer[b].queue) /\ viewer'[b].queue[j] = viewer[b].queue[j + d]
          BY <4>1 DEF Appended
        <5>3. i + d < j + d
          BY <4>1, <4>3 DEF Appended
        <5> QED
          BY <1>2, <1>3, <3>1, <5>1, <5>2, <5>3 DEF QueueOf
      <4> QED
        BY <1>2, <4>2, <4>3 DEF QueueOf, Newer
    <3> QED
      BY <3>2, <3>3
  <2> QED
    BY <1>2, <2>1 DEF QueuesInv
<1>11. StreamInv'
  <2>1. SUFFICES ASSUME NEW b \in Browser, Live(b) PROVE StreamOf(b)'
    <3>1. \A b \in Browser : viewer'[b].stage = viewer[b].stage
      BY <1>9 DEF Extended
    <3> QED
      BY <2>1, <3>1 DEF StreamInv, Live
  <2>2. StreamOf(b)
    BY <1>0, <2>1 DEF StreamInv
  <2>3. PICK d \in {0, 1} :
          /\ Appended(viewer[b].queue, viewer'[b].queue, B, d)
          /\ ~viewer'[b].lagged => d = 0 /\ ~viewer[b].lagged
    BY <1>9, <2>1 DEF Live, Extended
  <2>9. Appended(viewer[b].queue, viewer'[b].queue, B, d)
    BY <2>3
  <2>4. viewer'[b].base = viewer[b].base
    BY <1>9, <2>1 DEF Live, Extended
  <2>5. Stamped(viewer[b].base, seen[b].due)'
    <3>1. PICK r, v : r = viewer[b].base /\ v = seen[b].due
      OBVIOUS
    <3>2. Stamped(r, v)'
      BY <1>1, <2>2, <3>1, SameSource DEF StreamOf
    <3> QED
      BY <1>1, <2>4, <3>1, <3>2 DEF Stamped
  <2>6. FrameKeepsUp(b)'
    BY <1>1, <2>2 DEF FrameKeepsUp, StreamOf
  <2>7. ASSUME NEW i \in 1 .. Len(viewer'[b].queue) PROVE Advancing(b, viewer[b].queue[i])'
    <3>1. PICK C : C = viewer'[b].queue[i]
      OBVIOUS
    <3>2. C = B \/ (i + d \in 1 .. Len(viewer[b].queue) /\ C = viewer[b].queue[i + d])
      BY <2>9, <3>1 DEF Appended
    <3>3. Advancing(b, C)
      BY <1>2, <1>3, <2>2, <3>2 DEF StreamOf
    <3> QED
      BY <1>1, <2>4, <3>1, <3>3 DEF Advancing
  <2>8. ASSUME ~viewer'[b].lagged, NEW n \in ViewNode, n \notin early.compared, truth[n].here
        PROVE  Settles(b, n)'
    <3>1. d = 0 /\ ~viewer[b].lagged
      BY <2>3, <2>8
    <3>2. Settles(b, n)
      BY <2>2, <2>8, <3>1 DEF StreamOf
    <3>3. CASE seen[b].due[n] = truth[n]
      BY <1>1, <3>3 DEF Settles, Catches
    <3>4. CASE \E i \in 1..Len(viewer[b].queue) : Brings(b, viewer[b].queue[i], n)
      <4>1. PICK i \in 1..Len(viewer[b].queue) : Brings(b, viewer[b].queue[i], n)
        BY <3>4
      <4>2. i \in 1 .. Len(viewer'[b].queue) /\ viewer'[b].queue[i] = viewer[b].queue[i]
        BY <2>9, <3>1 DEF Appended
      <4> QED
        BY <1>1, <2>4, <4>1, <4>2 DEF Settles, Catches, Brings
    <3>5. CASE Brings(b, B, n)
      <4>1. PICK k \in 1 .. Len(viewer'[b].queue) : viewer'[b].queue[k] = B
        BY <2>9 DEF Appended
      <4> QED
        BY <1>1, <2>4, <3>5, <4>1 DEF Settles, Catches, Brings
    <3>6. CASE Owed(n) /\ task.last[n] # truth[n]
      BY <1>0, <1>1, <3>6 DEF Settles, Owed, Told
    <3> QED
      BY <1>3, <3>2, <3>3, <3>4, <3>5, <3>6 DEF Settles, Catches
  <2> QED
    BY <1>1, <1>2, <2>2, <2>4, <2>5, <2>6, <2>7, <2>8 DEF StreamOf, Shown
<1> QED
  BY <1>0, <1>1, <1>7, <1>8, <1>10, <1>11, SamePolls DEF ViewInv, StreamsInv

(* Steps of browsers leave the nodes and the task alone; only reading marks nodes early. *)
Aside ==
  /\ UNCHANGED <<truth, revision, announced, writers, signal, task, published>>
  /\ early'.compared = early.compared /\ \A n \in early.read : n \in early'.read

LEMMA AsideFrame ==
  ASSUME ViewTypes, FrameInv, Aside, slot' = slot
  PROVE  FrameInv'
<1>1. /\ published \in Nat /\ published' \in Nat /\ published' >= published
      /\ slot # NoFrame => slot.rev \in Nat
  BY FrameParts DEF ViewTypes, Aside
<1>2. \A n \in ViewNode : FrameKnows(n) => FrameKnows(n)'
  BY DEF Aside, FrameKnows, Told, Holding
<1> QED
  BY <1>1, <1>2, SameFrame DEF Aside

LEMMA AsideTask ==
  ASSUME TaskInv, Aside
  PROVE  TaskInv'
<1>1. Holding' <=> Holding
  BY DEF Aside, Holding
<1>2. PICK B : B = task.batch
  OBVIOUS
<1>3. Holding => GoodBatch(B)'
  BY <1>2, SameSource DEF Aside, TaskInv
<1>4. Holding' => GoodBatch(task.batch)'
  BY <1>1, <1>2, <1>3 DEF Aside, GoodBatch
<1> QED
  BY <1>4 DEF Aside, TaskInv

LEMMA AsideQueue ==
  ASSUME ViewTypes, TaskInv, QueuesInv, Aside, \A B \in Batches : GoodBatch(B) /\ Versus(B) => Versus(B)',
         NEW b \in Browser,
         \/ viewer'[b].queue = viewer[b].queue
         \/ viewer'[b].queue = << >>
         \/ viewer[b].queue # << >> /\ viewer'[b].queue = Tail(viewer[b].queue)
  PROVE  QueueOf(b)'
<1>1. \A B \in Batches : Sent(B) => Sent(B)'
  BY SameSource DEF Sent, Aside
<1>2. QueueOf(b) /\ viewer[b].queue \in Seq(Batches) /\ \A i \in 1 .. Len(viewer[b].queue) : viewer[b].queue[i] \in Batches
  BY BrowserParts DEF QueuesInv
<1>3. (Holding' <=> Holding) /\ task' = task
  BY DEF Holding, Aside
<1>4. PICK q, r : q = viewer[b].queue /\ r = viewer'[b].queue
  OBVIOUS
<1>5. PICK d \in {0, 1} : \A i \in 1 .. Len(r) : i + d \in 1 .. Len(q) /\ r[i] = q[i + d]
  <2>1. CASE r = q
    BY <2>1
  <2>2. CASE r = << >>
    BY <2>2
  <2>3. CASE q # << >> /\ r = Tail(q)
    <3>1. q \in Seq(Batches) /\ Len(q) \in Nat /\ Len(q) > 0
      BY <1>2, <1>4, <2>3
    <3>2. Len(r) = Len(q) - 1 /\ \A i \in 1 .. Len(r) : r[i] = q[i + 1]
      BY <2>3, <3>1
    <3>3. \A i \in 1 .. Len(r) : i + 1 \in 1 .. Len(q)
      BY <3>1, <3>2
    <3> QED
      BY <3>2, <3>3
  <2> QED
    BY <1>4, <2>1, <2>2, <2>3
<1>6. ASSUME NEW i \in 1 .. Len(r)
      PROVE  Sent(r[i])' /\ (Holding => Newer(r[i], task.batch))
  <2>1. PICK C \in Batches : C = r[i]
    BY <1>2, <1>4, <1>5
  <2>2. Sent(C)
    BY <1>2, <1>4, <1>5, <2>1 DEF QueueOf
  <2>3. Sent(C)'
    BY <1>1, <2>2
  <2>4. Holding => Newer(C, task.batch)
    BY <1>2, <1>4, <1>5, <2>1 DEF QueueOf
  <2> QED
    BY <2>1, <2>3, <2>4
<1>7. ASSUME NEW i \in 1 .. Len(r), NEW j \in 1 .. Len(r), i < j
      PROVE  Newer(r[i], r[j])
  <2>1. i + d < j + d
    BY <1>7
  <2> QED
    BY <1>2, <1>4, <1>5, <2>1 DEF QueueOf
<1> QED
  BY <1>3, <1>4, <1>6, <1>7 DEF QueueOf, Newer, Sent, GoodBatch, Versus

LEMMA AsideStream ==
  ASSUME ViewTypes, StreamInv, Aside, slot' = slot, NEW c \in Browser, viewer'[c] = viewer[c],
         seen'[c] = seen[c], page'[c].shows = page[c].shows, Live(c),
         \/ page'[c].poll = page[c].poll
         \/ page'[c].poll = NoPoll
         \/ page'[c].poll.aborted = TRUE
  PROVE  StreamOf(c)'
<1>1. StreamOf(c)
  BY DEF StreamInv
<1>2. Stamped(viewer[c].base, seen[c].due)'
  <2>1. PICK r, v : r = viewer[c].base /\ v = seen[c].due
    OBVIOUS
  <2>2. Stamped(r, v)'
    BY <1>1, <2>1, SameSource DEF StreamOf, Aside
  <2> QED
    BY <2>1, <2>2 DEF Stamped
<1>3. FrameKeepsUp(c)'
  BY <1>1 DEF Aside, FrameKeepsUp, StreamOf
<1>4. \A n \in ViewNode : Settles(c, n) => Settles(c, n)'
  BY DEF Aside, Settles, Owed, Told, Catches, Brings, Holding
<1>5. page'[c].poll = NoPoll \/ page'[c].poll.aborted = TRUE
  BY <1>1 DEF StreamOf
<1>6. \A B : Advancing(c, B) => Advancing(c, B)'
  BY DEF Advancing
<1> QED
  BY <1>1, <1>2, <1>3, <1>4, <1>5, <1>6 DEF StreamOf, Shown, Aside, Holding, Advancing

LEMMA AsidePolls ==
  ASSUME ViewTypes, AnnouncedInv, PollInv, Aside, cache' = cache,
         \A b \in Browser : page'[b].poll \in {NoPoll, page[b].poll, Touched(page[b].poll)}
  PROVE  AnnouncedInv' /\ PollInv'
<1>1. AnnouncedInv'
  BY DEF Aside, AnnouncedInv
<1>2. ASSUME NEW b \in Browser, page'[b].poll # NoPoll PROVE PollGood(page[b].poll)'
  <2>1. PICK p \in Polls \cup {NoPoll}, q \in Polls \cup {NoPoll} : p = page[b].poll /\ q = page'[b].poll
    BY BrowserParts
  <2>2. p \in Polls /\ q \in {p, Touched(p)}
    BY <1>2, <2>1, TouchedPoll
  <2>3. PollGood(p)
    BY <2>1, <2>2, PollParts DEF PollInv
  <2>4. Touched(p) = Poll(p.step, p.rev, TRUE, p.body, p.since)
    BY <2>2, TouchedPoll, PollParts
  <2>5. q.step = p.step /\ q.rev = p.rev /\ q.body = p.body /\ q.since = p.since
    <3>1. CASE q = p
      BY <3>1
    <3>2. CASE q = Poll(p.step, p.rev, TRUE, p.body, p.since)
      BY <3>2 DEF Poll
    <3> QED
      BY <2>2, <2>4, <3>1, <3>2
  <2> QED
    BY <2>1, <2>3, <2>5 DEF PollGood, Aside
<1> QED
  BY <1>1, <1>2 DEF PollInv

LEMMA BrowserStep ==
  ASSUME ViewTypes, StreamsInv, Aside, slot' = slot, NEW b \in Browser,
         \A c \in Browser \ {b} : viewer'[c] = viewer[c] /\ page'[c] = page[c] /\ seen'[c] = seen[c],
         \/ viewer'[b].queue = viewer[b].queue
         \/ viewer'[b].queue = << >>
         \/ viewer[b].queue # << >> /\ viewer'[b].queue = Tail(viewer[b].queue),
         Live(b)' => StreamOf(b)'
  PROVE  StreamsInv'
<1>1. FrameInv /\ TaskInv /\ QueuesInv /\ StreamInv
  BY DEF StreamsInv
<1>2. \A B : Versus(B) => Versus(B)'
  BY DEF Versus, Aside
<1>3. \A c \in Browser : QueueOf(c)'
  BY <1>1, <1>2, AsideQueue
<1>4. QueuesInv'
  <2>1. Holding' => Versus(task.batch)'
    BY <1>1, <1>2 DEF QueuesInv, Holding, Aside, Versus
  <2> QED
    BY <1>3, <2>1 DEF QueuesInv
<1>5. ASSUME NEW c \in Browser, c # b, Live(c)' PROVE StreamOf(c)'
  <2>1. Live(c) /\ viewer'[c] = viewer[c] /\ page'[c] = page[c] /\ seen'[c] = seen[c]
    BY <1>5 DEF Live
  <2> QED
    BY <1>1, <2>1, AsideStream
<1>6. StreamInv'
  BY <1>5 DEF StreamInv
<1> QED
  BY <1>1, <1>4, <1>6, AsideFrame, AsideTask DEF StreamsInv

LEMMA TouchedOrNot ==
  ASSUME NEW p \in Polls \cup {NoPoll}
  PROVE  Touched(p) = NoPoll \/ Touched(p).aborted = TRUE
<1>1. CASE p = NoPoll
  BY <1>1, TouchedPoll
<1>2. CASE p # NoPoll
  <2>1. Touched(p) = Poll(p.step, p.rev, TRUE, p.body, p.since)
    BY <1>2, TouchedPoll
  <2> QED
    BY <2>1 DEF Poll
<1> QED
  BY <1>1, <1>2

(* A page's link changes, and its poll may be aborted.                    *)
LEMMA LinkPreserves ==
  ASSUME ViewInv, ViewTypes', UNCHANGED <<truth, revision, announced, writers, signal, early, task, published, slot,
                                         viewer, seen, cache>>,
         NEW b \in Browser, NEW l, NEW q, PageIs(b, l, page[b].shows, q), q \in {page[b].poll, Touched(page[b].poll)}
  PROVE  ViewInv'
<1>0. ViewTypes /\ StreamsInv /\ StreamInv /\ AnnouncedInv /\ PollInv /\ Aside
  BY DEF ViewInv, StreamsInv, Aside
<1>1. page'[b].shows = page[b].shows /\ page'[b].poll = q /\ \A c \in Browser \ {b} : page'[c] = page[c]
  BY DEF PageIs, PageEdited
<1>2. \/ page'[b].poll = page[b].poll
      \/ page'[b].poll = NoPoll
      \/ page'[b].poll.aborted = TRUE
  BY <1>0, <1>1, BrowserParts, TouchedOrNot
<1>3. Live(b)' => StreamOf(b)'
  BY <1>0, <1>1, <1>2, AsideStream DEF Live
<1>4. StreamsInv'
  BY <1>0, <1>1, <1>3, BrowserStep
<1>5. AnnouncedInv' /\ PollInv'
  BY <1>0, <1>1, AsidePolls
<1> QED
  BY <1>4, <1>5 DEF ViewInv

LEMMA AttachPreserves ==
  ASSUME ViewInv, NEW b \in Browser, Attach(b) \/ Refuse(b) \/ Hide(b)
  PROVE  ViewInv'
<1>0. ViewTypes
  BY DEF ViewInv
<1>1. UNCHANGED <<truth, revision, announced, writers, signal, early, task, published, slot, viewer, seen, cache>>
  BY DEF Attach, Refuse, Hide, sourceVars, taskVars, apiVars, stampVars
<1>2. CASE Attach(b)
  BY <1>0, <1>1, <1>2, AttachEffect, LinkPreserves
<1>3. CASE Refuse(b)
  BY <1>0, <1>1, <1>3, RefuseEffect, LinkPreserves
<1>4. CASE Hide(b)
  BY <1>0, <1>1, <1>4, HideEffect, LinkPreserves
<1> QED
  BY <1>2, <1>3, <1>4

(* A stream begins or ends: nothing is live.                              *)
LEMMA OfflinePreserves ==
  ASSUME ViewInv, ViewTypes', UNCHANGED <<truth, revision, announced, writers, signal, early, task, published, slot,
                                         cache>>,
         NEW b \in Browser, NEW l, NEW q, PageIs(b, l, page[b].shows, q), q \in {page[b].poll, Touched(page[b].poll)},
         NEW g, g # "live", ViewerIs(b, g, 0, << >>, FALSE),
         \A c \in Browser \ {b} : seen'[c] = seen[c]
  PROVE  ViewInv'
<1>0. ViewTypes /\ StreamsInv /\ AnnouncedInv /\ PollInv /\ Aside
  BY DEF ViewInv, Aside
<1>1. /\ page'[b].poll = q
      /\ \A c \in Browser \ {b} : page'[c] = page[c] /\ viewer'[c] = viewer[c] /\ seen'[c] = seen[c]
  BY DEF PageIs, PageEdited, ViewerIs, ViewerEdited
<1>2. ~Live(b)' /\ viewer'[b].queue = << >>
  BY DEF ViewerIs, ViewerEdited, Live
<1>3. StreamsInv'
  BY <1>0, <1>1, <1>2, BrowserStep
<1>4. AnnouncedInv' /\ PollInv'
  BY <1>0, <1>1, AsidePolls
<1> QED
  BY <1>3, <1>4 DEF ViewInv

LEMMA AdmitPreserves ==
  ASSUME ViewInv, NEW b \in Browser, Admit(b)
  PROVE  ViewInv'
<1>0. ViewTypes
  BY DEF ViewInv
<1>1. UNCHANGED <<truth, revision, announced, writers, signal, early, task, published, slot, seen, cache>>
  BY DEF Admit, sourceVars, taskVars, apiVars, stampVars
<1>2. ViewTypes' /\ PageIs(b, "open", page[b].shows, page[b].poll) /\ ViewerIs(b, "subscribed", 0, << >>, FALSE)
  BY <1>0, AdmitEffect
<1> QED
  BY <1>1, <1>2, OfflinePreserves

LEMMA EndPreserves ==
  ASSUME ViewInv, NEW b \in Browser, NEW l \in {"waiting", "idle"}, End(b, l)
  PROVE  ViewInv'
<1>0. ViewTypes
  BY DEF ViewInv
<1>1. UNCHANGED <<truth, revision, announced, writers, signal, early, task, published, slot, cache>>
  BY DEF End, sourceVars, taskVars, apiVars, stampVars
<1>2. PICK q \in {page[b].poll, Touched(page[b].poll)} :
        q = IF l = "idle" THEN Touched(page[b].poll) ELSE page[b].poll
  OBVIOUS
<1>3. /\ ViewTypes' /\ PageIs(b, l, page[b].shows, q) /\ ViewerIs(b, "none", 0, << >>, FALSE)
      /\ \A c \in Browser \ {b} : seen'[c] = seen[c]
  BY <1>0, <1>2, EndEffect DEF SeenIs
<1> QED
  BY <1>1, <1>2, <1>3, OfflinePreserves

(* A session is given the shared frame, or one that it builds.            *)
LEMMA SendSharedPreserves ==
  ASSUME ViewInv, NEW b \in Browser, SendShared(b)
  PROVE  ViewInv'
<1>0. /\ ViewTypes /\ StreamsInv /\ AnnouncedInv /\ PollInv
      /\ FrameInv /\ TaskInv /\ QueuesInv /\ StreamInv
  BY DEF ViewInv, StreamsInv
<1>1. UNCHANGED <<truth, revision, announced, writers, signal, early, task, published, slot, cache>>
  BY DEF SendShared, sourceVars, taskVars, apiVars, stampVars
<1>2. /\ ViewTypes' /\ slot # NoFrame /\ slot \in Frames /\ slot.rev >= published
      /\ ViewerIs(b, "live", slot.rev, viewer[b].queue, FALSE)
      /\ PageIs(b, page[b].link, slot.nodes, Touched(page[b].poll))
      /\ SeenIs(b, {}, slot.nodes)
  BY <1>0, SendSharedEffect
<1>3. /\ viewer'[b].stage = "live" /\ viewer'[b].base = slot.rev /\ viewer'[b].queue = viewer[b].queue
      /\ page'[b].shows = slot.nodes /\ page'[b].poll = Touched(page[b].poll)
      /\ seen'[b].due = slot.nodes
      /\ \A c \in Browser \ {b} : page'[c] = page[c] /\ viewer'[c] = viewer[c] /\ seen'[c] = seen[c]
  BY <1>2 DEF SeenIs, PageIs, PageEdited, ViewerIs, ViewerEdited
<1>4. Aside
  BY <1>1 DEF Aside
<1>5. StreamOf(b)'
  <2>0. \A n \in ViewNode : slot.nodes[n].ver >= slot.nodes[n].ver /\ slot.nodes[n].ver <= slot.nodes[n].ver
    <3>1. \A n \in ViewNode : slot.nodes[n].ver \in Nat
      BY <1>0, <1>2, ViewParts, StateParts
    <3> QED
      BY <3>1
  <2>1. Stamped(viewer[b].base, seen[b].due)'
    <3>1. PICK r, v : r = slot.rev /\ v = slot.nodes
      OBVIOUS
    <3>2. Stamped(r, v)'
      BY <1>0, <1>1, <1>2, <3>1, SameSource DEF FrameInv
    <3> QED
      BY <1>3, <3>1, <3>2 DEF Stamped
  <2>2. FrameKeepsUp(b)'
    BY <1>1, <1>3, <2>0 DEF FrameKeepsUp
  <2>8. Shown(b)'
    BY <1>3, <2>0 DEF Shown
  <2>3. \A B : Versus(B) => Advancing(b, B)'
    BY <1>2, <1>3 DEF Versus, Advancing
  <2>4. ASSUME NEW i \in 1..Len(viewer'[b].queue) PROVE Advancing(b, viewer[b].queue[i])'
    <3>1. PICK B : B = viewer[b].queue[i]
      OBVIOUS
    <3>2. Versus(B)
      BY <1>0, <1>3, <2>4, <3>1 DEF QueuesInv, QueueOf, Sent
    <3>3. Advancing(b, B)'
      BY <2>3, <3>2
    <3> QED
      BY <1>3, <3>1, <3>3 DEF Advancing
  <2>5. Holding' => Advancing(b, task.batch)'
    <3>1. PICK B : B = task.batch
      OBVIOUS
    <3>2. Holding => Advancing(b, B)'
      BY <1>0, <2>3, <3>1 DEF QueuesInv
    <3> QED
      BY <1>1, <3>1, <3>2 DEF Advancing, Holding
  <2>6. page'[b].poll = NoPoll \/ page'[b].poll.aborted = TRUE
    BY <1>0, <1>3, BrowserParts, TouchedOrNot
  <2>7. ASSUME NEW n \in ViewNode, n \notin early.compared, truth[n].here PROVE Settles(b, n)'
    <3>1. FrameKnows(n)
      BY <1>0, <1>2, <2>7 DEF FrameInv
    <3>2. CASE slot.nodes[n] = truth[n]
      BY <1>1, <1>3, <3>2 DEF Settles, Catches
    <3>3. CASE Holding /\ n \in DOMAIN task.batch.rows /\ task.batch.rows[n] = truth[n] /\ task.batch.rev > slot.rev
      BY <1>1, <1>3, <3>3 DEF Settles, Catches, Brings, Holding
    <3>4. CASE task.last[n] # truth[n] /\ slot.nodes[n] # truth[n]
      BY <1>1, <3>1, <3>4 DEF FrameKnows, Settles, Owed, Told
    <3> QED
      BY <2>7, <3>1, <3>2, <3>3, <3>4 DEF FrameKnows
  <2> QED
    BY <1>1, <2>1, <2>2, <2>4, <2>5, <2>6, <2>7, <2>8 DEF StreamOf
<1>6. StreamsInv'
  BY <1>0, <1>1, <1>3, <1>4, <1>5, BrowserStep
<1>7. AnnouncedInv' /\ PollInv'
  BY <1>0, <1>1, <1>3, <1>4, AsidePolls
<1> QED
  BY <1>2, <1>6, <1>7 DEF ViewInv

LEMMA SendBuiltPreserves ==
  ASSUME ViewInv, NEW b \in Browser, SendBuilt(b)
  PROVE  ViewInv'
<1>0. /\ ViewTypes /\ StreamsInv /\ AnnouncedInv /\ PollInv
      /\ FrameInv /\ TaskInv /\ QueuesInv /\ StreamInv
  BY DEF ViewInv, StreamsInv
<1>1. UNCHANGED <<truth, revision, announced, writers, signal, task, published, cache>>
  BY DEF SendBuilt, taskVars, apiVars, stampVars
<1>2. /\ ViewTypes' /\ slot' # NoFrame /\ slot'.rev = revision /\ slot'.nodes = truth
      /\ ViewerIs(b, "live", revision, viewer[b].queue, FALSE)
      /\ PageIs(b, page[b].link, truth, Touched(page[b].poll))
      /\ SeenIs(b, {}, truth)
      /\ early'.read = early.read \cup Unannounced /\ early'.compared = early.compared
  BY <1>0, SendBuiltEffect
<1>3. /\ viewer'[b].stage = "live" /\ viewer'[b].base = revision /\ viewer'[b].queue = viewer[b].queue
      /\ page'[b].shows = truth /\ page'[b].poll = Touched(page[b].poll)
      /\ seen'[b].due = truth
      /\ \A c \in Browser \ {b} : page'[c] = page[c] /\ viewer'[c] = viewer[c] /\ seen'[c] = seen[c]
  BY <1>2 DEF SeenIs, PageIs, PageEdited, ViewerIs, ViewerEdited
<1>4. Aside
  BY <1>1, <1>2 DEF Aside
<1>5. /\ revision \in Nat
      /\ \A n \in ViewNode : truth[n] \in States /\ truth[n].ver \in Nat /\ Past(truth[n], truth[n])
  <2>1. revision \in Nat /\ \A n \in ViewNode : truth[n] \in States
    BY <1>0 DEF ViewTypes, Views
  <2> QED
    BY <2>1, StateParts, PastFacts
<1>6. FrameInv'
  <2>1. Stamped(slot.rev, slot.nodes)'
    BY <1>1, <1>2, <1>5 DEF Stamped
  <2>2. \A n \in ViewNode : FrameKnows(n)'
    BY <1>1, <1>2 DEF FrameKnows
  <2> QED
    BY <2>1, <2>2 DEF FrameInv
<1>7. \A B \in Batches : GoodBatch(B) => Versus(B)'
  <2>1. SUFFICES ASSUME NEW B \in Batches, GoodBatch(B) PROVE Versus(B)'
    OBVIOUS
  <2>2. ASSUME NEW n \in DOMAIN B.rows PROVE truth[n].ver >= B.rows[n].ver
    <3>1. n \in ViewNode /\ B.rows[n] \in States /\ Past(B.rows[n], truth[n])
      BY <2>1, <2>2, BatchParts DEF GoodBatch
    <3>2. B.rows[n].ver <= truth[n].ver /\ B.rows[n].ver \in Nat /\ truth[n].ver \in Nat
      BY <1>5, <3>1, StateParts, PastFacts
    <3> QED
      BY <3>2
  <2>3. ~(B.rev > revision)
    BY <1>5, <2>1, BatchParts DEF GoodBatch
  <2> QED
    BY <1>2, <2>2, <2>3 DEF Versus
<1>8. QueuesInv'
  <2>1. \A c \in Browser : QueueOf(c)'
    BY <1>0, <1>3, <1>4, <1>7, AsideQueue
  <2>2. Holding' => Versus(task.batch)'
    <3>1. PICK B \in Batches : B = task.batch
      BY <1>0, TaskParts DEF ViewTypes
    <3>2. Holding => Versus(B)'
      BY <1>0, <1>7, <3>1 DEF TaskInv
    <3> QED
      BY <1>1, <3>1, <3>2 DEF Versus, Holding
  <2> QED
    BY <2>1, <2>2 DEF QueuesInv
<1>9. ASSUME NEW c \in Browser, Live(c)' PROVE StreamOf(c)'
  <2>1. CASE c = b
    <3>1. Stamped(viewer[b].base, seen[b].due)'
      BY <1>1, <1>3, <1>5 DEF Stamped
    <3>2. FrameKeepsUp(b)'
      BY <1>2, <1>3, <1>5 DEF FrameKeepsUp
    <3>3. \A B \in Batches : GoodBatch(B) => Advancing(b, B)'
      BY <1>3, <1>5, BatchParts DEF GoodBatch, Advancing
    <3>4. ASSUME NEW i \in 1..Len(viewer'[b].queue) PROVE Advancing(b, viewer[b].queue[i])'
      <4>1. PICK B \in Batches : B = viewer[b].queue[i]
        BY <1>0, <1>3, <3>4, BrowserParts
      <4>2. GoodBatch(B)
        BY <1>0, <1>3, <3>4, <4>1 DEF QueuesInv, QueueOf, Sent
      <4>3. Advancing(b, B)'
        BY <3>3, <4>2
      <4> QED
        BY <1>3, <4>1, <4>3 DEF Advancing
    <3>5. Holding' => Advancing(b, task.batch)'
      <4>1. PICK B \in Batches : B = task.batch
        BY <1>0, TaskParts DEF ViewTypes
      <4>2. Holding => Advancing(b, B)'
        BY <1>0, <3>3, <4>1 DEF TaskInv
      <4> QED
        BY <1>1, <4>1, <4>2 DEF Advancing, Holding
    <3>6. page'[b].poll = NoPoll \/ page'[b].poll.aborted = TRUE
      BY <1>0, <1>3, BrowserParts, TouchedOrNot
    <3>7. \A n \in ViewNode : Settles(b, n)'
      BY <1>1, <1>3 DEF Settles, Catches
    <3>8. Shown(b)'
      BY <1>3, <1>5 DEF Shown
    <3> QED
      BY <2>1, <3>1, <3>2, <3>4, <3>5, <3>6, <3>7, <3>8 DEF StreamOf
  <2>2. CASE c # b
    <3>1. StreamOf(c) /\ viewer'[c] = viewer[c] /\ page'[c] = page[c] /\ seen'[c] = seen[c]
      BY <1>0, <1>3, <1>9, <2>2 DEF StreamInv, Live
    <3>2. Stamped(viewer[c].base, seen[c].due)'
      <4>1. PICK r, v : r = viewer[c].base /\ v = seen[c].due
        OBVIOUS
      <4>2. Stamped(r, v)'
        BY <1>1, <3>1, <4>1, SameSource DEF StreamOf
      <4> QED
        BY <3>1, <4>1, <4>2 DEF Stamped
    <3>3. FrameKeepsUp(c)'
      <4>1. ASSUME NEW n \in ViewNode PROVE truth[n].ver >= seen[c].due[n].ver
        <5>1. seen[c].due[n] \in States
          BY <1>0, BrowserParts DEF Views
        <5>2. seen[c].due[n].ver <= truth[n].ver /\ seen[c].due[n].ver \in Nat
          BY <1>5, <3>1, <5>1, PastFacts, StateParts DEF StreamOf, Stamped
        <5> QED
          BY <1>5, <5>2
      <4> QED
        BY <1>2, <3>1, <4>1 DEF FrameKeepsUp
    <3>4. \A n \in ViewNode : Settles(c, n) => Settles(c, n)'
      BY <1>1, <3>1 DEF Settles, Owed, Told, Catches, Brings, Holding
    <3>5. \A B : Advancing(c, B) => Advancing(c, B)'
      BY <3>1 DEF Advancing
    <3> QED
      BY <1>1, <1>2, <3>1, <3>2, <3>3, <3>4, <3>5 DEF StreamOf, Shown, Holding, Advancing
  <2> QED
    BY <2>1, <2>2
<1>10. StreamsInv'
  BY <1>0, <1>4, <1>6, <1>8, <1>9, AsideTask DEF StreamsInv, StreamInv
<1>11. AnnouncedInv' /\ PollInv'
  BY <1>0, <1>1, <1>3, <1>4, AsidePolls
<1> QED
  BY <1>2, <1>10, <1>11 DEF ViewInv

(* A session forwards a batch, or skips it as older than its base.        *)
LEMMA ForwardPreserves ==
  ASSUME ViewInv, NEW b \in Browser, Forward(b)
  PROVE  ViewInv' /\ (Live(b) => \A n \in ViewNode : page'[b].shows[n].ver >= page[b].shows[n].ver)
<1>0. /\ ViewTypes /\ StreamsInv /\ AnnouncedInv /\ PollInv
      /\ FrameInv /\ TaskInv /\ QueuesInv /\ StreamInv
  BY DEF ViewInv, StreamsInv
<1>1. UNCHANGED <<truth, revision, announced, writers, signal, early, task, published, slot, cache>>
  BY DEF Forward, sourceVars, taskVars, apiVars, stampVars
<1>2. /\ ViewTypes' /\ viewer[b].stage = "live" /\ viewer[b].lagged = FALSE /\ viewer[b].queue # << >>
      /\ Head(viewer[b].queue) \in Batches
      /\ ViewerIs(b, "live", viewer[b].base, Tail(viewer[b].queue), FALSE)
  BY <1>0, ForwardEffect
<1>3. PICK v, s \in Views, q \in {page[b].poll, Touched(page[b].poll)} :
        /\ PageIs(b, page[b].link, v, q)
        /\ seen'[b].due = s /\ \A c \in Browser \ {b} : seen'[c] = seen[c]
        /\ Overlaid(s, seen[b].due, viewer[b].base, Head(viewer[b].queue))
        /\ Follows(b, v, s)
  BY <1>0, ForwardEffect
<1>4. /\ viewer'[b].stage = "live" /\ viewer'[b].base = viewer[b].base
      /\ viewer'[b].queue = Tail(viewer[b].queue) /\ viewer'[b].lagged = FALSE
      /\ page'[b].shows = v /\ page'[b].poll = q /\ seen'[b].due = s
      /\ \A c \in Browser \ {b} : page'[c] = page[c] /\ viewer'[c] = viewer[c] /\ seen'[c] = seen[c]
  BY <1>2, <1>3 DEF PageIs, PageEdited, ViewerIs, ViewerEdited
<1>5. Aside
  BY <1>1 DEF Aside
<1>6. StreamOf(b) /\ QueueOf(b)
  BY <1>0, <1>2 DEF StreamInv, Live, QueuesInv
<1>7. PICK A \in Batches : A = Head(viewer[b].queue)
  BY <1>2
<1>8. /\ viewer[b].queue \in Seq(Batches) /\ Len(viewer[b].queue) \in Nat
      /\ 1 \in 1 .. Len(viewer[b].queue) /\ viewer[b].queue[1] = A
      /\ Len(viewer'[b].queue) = Len(viewer[b].queue) - 1
      /\ \A i \in 1 .. Len(viewer'[b].queue) : /\ i + 1 \in 1 .. Len(viewer[b].queue)
                                               /\ viewer'[b].queue[i] = viewer[b].queue[i + 1]
  <2>1. PICK f \in Seq(Batches) : f = viewer[b].queue
    BY <1>0, BrowserParts
  <2>2. Len(f) \in Nat /\ Len(f) > 0 /\ f[1] = A
    BY <1>2, <1>7, <2>1
  <2>3. Len(Tail(f)) = Len(f) - 1 /\ \A i \in 1 .. Len(Tail(f)) : i + 1 \in 1 .. Len(f) /\ Tail(f)[i] = f[i + 1]
    BY <2>2
  <2> QED
    BY <1>4, <2>1, <2>2, <2>3
<1>9. Sent(A) /\ Advancing(b, A)
  BY <1>6, <1>8 DEF QueueOf, StreamOf
<1>10. ASSUME NEW n \in ViewNode
       PROVE  /\ seen[b].due[n] \in States /\ s[n] \in States /\ truth[n] \in States
              /\ seen[b].due[n].ver \in Nat /\ s[n].ver \in Nat /\ truth[n].ver \in Nat
              /\ page[b].shows[n].ver \in Nat /\ v[n].ver \in Nat
              /\ slot # NoFrame => slot.nodes[n].ver \in Nat
  BY <1>0, BrowserParts, ViewParts, StateParts DEF Views
<1>11. /\ A.rev \in Int /\ viewer[b].base \in Nat /\ published \in Nat /\ revision \in Nat
       /\ slot # NoFrame => slot.rev \in Nat
  BY <1>0, BatchParts, BrowserParts, FrameParts DEF ViewTypes
<1>12. ASSUME NEW n \in ViewNode
       PROVE  \/ s[n] = seen[b].due[n]
              \/ A.rev > viewer[b].base /\ n \in DOMAIN A.rows /\ s[n] = A.rows[n]
  BY <1>3, <1>7 DEF Overlaid
<1>13. ASSUME NEW n \in ViewNode PROVE s[n].ver >= seen[b].due[n].ver
  BY <1>9, <1>10, <1>12 DEF Advancing
<1>13a. ASSUME NEW n \in ViewNode
        PROVE  /\ v[n].ver >= page[b].shows[n].ver /\ v[n].ver <= s[n].ver
               /\ n \notin seen'[b].missed => v[n] = s[n]
  <2>1. /\ n \notin seen[b].missed => page[b].shows[n] = seen[b].due[n]
        /\ page[b].shows[n].ver <= seen[b].due[n].ver
    BY <1>6 DEF StreamOf, Shown
  <2>2. /\ seen[b].due[n].ver \in Nat /\ s[n].ver \in Nat /\ page[b].shows[n].ver \in Nat /\ v[n].ver \in Nat
        /\ s[n].ver >= seen[b].due[n].ver
    BY <1>10, <1>13
  <2>3. CASE v[n] = s[n]
    BY <2>1, <2>2, <2>3
  <2>4. CASE v[n] # s[n]
    <3>1. /\ v[n] = page[b].shows[n]
          /\ n \notin seen'[b].missed => n \notin seen[b].missed /\ s[n] = seen[b].due[n]
      BY <1>3, <2>4 DEF Follows
    <3> QED
      BY <2>1, <2>2, <3>1
  <2> QED
    BY <2>3, <2>4
<1>14. StreamOf(b)'
  <2>1. Stamped(viewer[b].base, seen[b].due)'
    <3>1. \A n \in ViewNode : Past(s[n], truth[n])
      BY <1>6, <1>9, <1>12 DEF StreamOf, Stamped, Sent, GoodBatch
    <3>2. ASSUME viewer[b].base = revision, NEW n \in ViewNode PROVE s[n] = seen[b].due[n]
      <4>1. ~(A.rev > viewer[b].base)
        BY <1>9, <1>11, <3>2 DEF Sent, GoodBatch
      <4> QED
        BY <1>12, <4>1
    <3>3. \A n : n \in Unannounced' <=> n \in Unannounced
      BY <1>1 DEF Unannounced
    <3> QED
      BY <1>1, <1>4, <1>6, <3>1, <3>2, <3>3 DEF StreamOf, Stamped
  <2>2. FrameKeepsUp(b)'
    <3>1. SUFFICES ASSUME slot # NoFrame, slot.rev >= published, NEW n \in ViewNode, n \notin early.read
                   PROVE  slot.nodes[n].ver >= s[n].ver
      BY <1>1, <1>4 DEF FrameKeepsUp
    <3>2. CASE s[n] = seen[b].due[n]
      BY <1>6, <3>1, <3>2 DEF StreamOf, FrameKeepsUp
    <3>3. CASE n \in DOMAIN A.rows /\ s[n] = A.rows[n]
      <4>1. slot.rev >= A.rev
        BY <1>9, <1>11, <3>1 DEF Sent
      <4> QED
        BY <1>9, <3>1, <3>3, <4>1 DEF Sent, Versus
    <3> QED
      BY <1>12, <3>2, <3>3
  <2>3. ASSUME NEW B \in Batches, Advancing(b, B), Newer(A, B) PROVE Advancing(b, B)'
    <3>1. SUFFICES ASSUME B.rev > viewer[b].base, NEW n \in DOMAIN B.rows PROVE B.rows[n].ver >= s[n].ver
      BY <1>4 DEF Advancing
    <3>2. n \in ViewNode
      BY BatchParts
    <3> QED
      BY <1>12, <2>3, <3>1, <3>2 DEF Advancing, Newer
  <2>4. ASSUME NEW i \in 1..Len(viewer'[b].queue) PROVE Advancing(b, viewer[b].queue[i])'
    <3>1. i + 1 \in 1 .. Len(viewer[b].queue) /\ viewer'[b].queue[i] = viewer[b].queue[i + 1] /\ 1 < i + 1
      BY <1>8, <2>4
    <3>2. PICK B \in Batches : B = viewer[b].queue[i + 1]
      BY <1>8, <3>1
    <3>3. Advancing(b, B) /\ Newer(A, B)
      BY <1>6, <1>8, <3>1, <3>2 DEF StreamOf, QueueOf
    <3>4. Advancing(b, B)'
      BY <2>3, <3>3
    <3> QED
      BY <3>1, <3>2, <3>4 DEF Advancing
  <2>5. Holding' => Advancing(b, task.batch)'
    <3>1. PICK B \in Batches : B = task.batch
      BY <1>0, TaskParts DEF ViewTypes
    <3>2. Holding => Advancing(b, B) /\ Newer(A, B)
      BY <1>6, <1>8, <3>1 DEF StreamOf, QueueOf
    <3>3. Holding => Advancing(b, B)'
      BY <2>3, <3>2
    <3> QED
      BY <1>1, <3>1, <3>3 DEF Advancing, Holding
  <2>6. page'[b].poll = NoPoll \/ page'[b].poll.aborted = TRUE
    BY <1>0, <1>4, <1>6, BrowserParts, TouchedOrNot DEF StreamOf
  <2>8. Shown(b)'
    BY <1>4, <1>13a DEF Shown
  <2>7. ASSUME NEW n \in ViewNode, n \notin early.compared, truth[n].here PROVE Settles(b, n)'
    <3>1. Settles(b, n)
      BY <1>2, <1>6, <2>7 DEF StreamOf
    <3>2. CASE seen[b].due[n] = truth[n]
      <4>1. s[n] = truth[n]
        <5>1. CASE s[n] = seen[b].due[n]
          BY <3>2, <5>1
        <5>2. CASE n \in DOMAIN A.rows /\ s[n] = A.rows[n]
          <6>1. Past(s[n], truth[n])
            BY <1>9, <5>2 DEF Sent, GoodBatch
          <6>2. s[n].ver >= truth[n].ver
            BY <1>13, <3>2
          <6> QED
            BY <1>10, <6>1, <6>2, PastFacts
        <5> QED
          BY <1>12, <5>1, <5>2
      <4> QED
        BY <1>1, <1>4, <4>1 DEF Settles, Catches
    <3>3. CASE \E i \in 1..Len(viewer[b].queue) : Brings(b, viewer[b].queue[i], n)
      <4>1. PICK i \in 1..Len(viewer[b].queue) : Brings(b, viewer[b].queue[i], n)
        BY <3>3
      <4>2. CASE i = 1
        <5>1. s[n] = truth[n]
          BY <1>3, <1>7, <1>8, <4>1, <4>2 DEF Brings, Overlaid
        <5> QED
          BY <1>1, <1>4, <5>1 DEF Settles, Catches
      <4>3. CASE i # 1
        <5>1. i - 1 \in 1 .. Len(viewer'[b].queue) /\ (i - 1) + 1 = i
          BY <1>8, <4>1, <4>3
        <5>2. viewer'[b].queue[i - 1] = viewer[b].queue[i]
          BY <1>8, <5>1
        <5> QED
          BY <1>1, <1>4, <4>1, <5>1, <5>2 DEF Settles, Catches, Brings
      <4> QED
        BY <4>2, <4>3
    <3>4. CASE Holding /\ Brings(b, task.batch, n)
      BY <1>1, <1>4, <3>4 DEF Settles, Catches, Brings, Holding
    <3>5. CASE Owed(n) /\ task.last[n] # truth[n]
      BY <1>1, <3>5 DEF Settles, Owed, Told
    <3> QED
      BY <3>1, <3>2, <3>3, <3>4, <3>5 DEF Settles, Catches
  <2> QED
    BY <1>1, <2>1, <2>2, <2>4, <2>5, <2>6, <2>7, <2>8 DEF StreamOf
<1>15. StreamsInv'
  BY <1>0, <1>1, <1>2, <1>4, <1>5, <1>14, BrowserStep
<1>16. AnnouncedInv' /\ PollInv'
  BY <1>0, <1>1, <1>4, <1>5, AsidePolls
<1> QED
  BY <1>2, <1>4, <1>13a, <1>15, <1>16 DEF ViewInv

(* Polls of /api/nodes.                                                   *)
LEMMA PollPreserves ==
  ASSUME ViewInv, ViewTypes', Aside, slot' = slot, viewer' = viewer, seen' = seen, NEW b \in Browser, NEW s, NEW q,
         PageIs(b, page[b].link, s, q), Live(b) => s = page[b].shows /\ (q = NoPoll \/ q.aborted = TRUE),
         q # NoPoll => PollGood(q)', AnnouncedInv',
         \A c \in Browser \ {b} : page[c].poll # NoPoll => PollGood(page[c].poll)'
  PROVE  ViewInv'
<1>0. ViewTypes /\ StreamsInv /\ StreamInv
  BY DEF ViewInv, StreamsInv
<1>1. /\ page'[b].shows = s /\ page'[b].poll = q
      /\ \A c \in Browser \ {b} : page'[c] = page[c]
  BY DEF PageIs, PageEdited
<1>2. Live(b)' => StreamOf(b)'
  BY <1>0, <1>1, AsideStream DEF Live
<1>3. StreamsInv'
  BY <1>0, <1>1, <1>2, BrowserStep
<1>4. PollInv'
  <2>1. ASSUME NEW c \in Browser, c # b, page'[c].poll # NoPoll PROVE PollGood(page[c].poll)'
    <3>1. page[c].poll # NoPoll /\ page'[c] = page[c]
      BY <1>1, <2>1
    <3> QED
      BY <2>1, <3>1
  <2>2. ASSUME q # NoPoll PROVE PollGood(page[b].poll)'
    BY <1>1, <2>2 DEF PollGood
  <2> QED
    BY <1>1, <2>1, <2>2 DEF PollInv
<1> QED
  BY <1>3, <1>4 DEF ViewInv

LEMMA SamePollGood ==
  ASSUME UNCHANGED <<truth, revision, announced, cache>>
  PROVE  \A p : PollGood(p)' <=> PollGood(p)
  BY DEF PollGood

LEMMA OtherPolls ==
  ASSUME PollInv, UNCHANGED <<truth, revision, announced, cache>>, NEW b \in Browser,
         \A c \in Browser \ {b} : page'[c] = page[c]
  PROVE  \A c \in Browser \ {b} : page[c].poll # NoPoll => PollGood(page[c].poll)'
<1>1. SUFFICES ASSUME NEW c \in Browser \ {b}, page[c].poll # NoPoll PROVE PollGood(page[c].poll)'
  OBVIOUS
<1>2. PICK p : p = page[c].poll
  OBVIOUS
<1>3. PollGood(p)'
  BY <1>1, <1>2, SamePollGood DEF PollInv
<1> QED
  BY <1>1, <1>2, <1>3 DEF PollGood

LEMMA FieldsOfPoll ==
  ASSUME NEW t, NEW r, NEW a, NEW y, NEW z
  PROVE  /\ Poll(t, r, a, y, z).step = t /\ Poll(t, r, a, y, z).rev = r /\ Poll(t, r, a, y, z).aborted = a
         /\ Poll(t, r, a, y, z).body = y /\ Poll(t, r, a, y, z).since = z
  BY DEF Poll

LEMMA AnnouncedFacts ==
  ASSUME ViewTypes, AnnouncedInv, NEW n \in ViewNode
  PROVE  /\ announced[n] \in Nat /\ truth[n].ver \in Nat /\ truth[n].ver >= announced[n]
         /\ cache.body[n].ver \in Nat /\ (cache.rev = revision => cache.body[n].ver >= announced[n])
<1>1. announced[n] \in Nat /\ truth[n] \in States /\ cache.body[n] \in States
  BY DEF ViewTypes, Views
<1> QED
  BY <1>1, StateParts DEF AnnouncedInv

LEMMA AskPreserves ==
  ASSUME ViewInv, NEW b \in Browser, Ask(b)
  PROVE  ViewInv'
<1>0. ViewTypes /\ AnnouncedInv /\ PollInv
  BY DEF ViewInv
<1>1. UNCHANGED <<truth, revision, announced, writers, signal, early, task, published, slot, viewer, seen, cache>>
  BY DEF Ask, sourceVars, taskVars, stampVars
<1>2. /\ ViewTypes' /\ viewer[b].stage # "live"
      /\ PageIs(b, page[b].link, page[b].shows, Poll("look", revision, FALSE, NoNodes, announced))
  BY <1>0, AskEffect
<1>3. PICK q, s : q = Poll("look", revision, FALSE, NoNodes, announced) /\ s = page[b].shows
  OBVIOUS
<1>4. q.step = "look" /\ q.rev = revision /\ q.since = announced
  BY <1>3 DEF Poll
<1>5. PollGood(q)
  BY <1>0, <1>4, AnnouncedFacts DEF PollGood, ViewTypes
<1>6. PollGood(q)' /\ AnnouncedInv' /\ Aside
  BY <1>0, <1>1, <1>5, SamePollGood DEF AnnouncedInv, Aside
<1>7. PageIs(b, page[b].link, s, q) /\ ~Live(b)
  BY <1>2, <1>3 DEF Live
<1>8. \A c \in Browser \ {b} : page[c].poll # NoPoll => PollGood(page[c].poll)'
  BY <1>0, <1>1, <1>7, OtherPolls DEF PageIs, PageEdited
<1> QED
  BY <1>1, <1>2, <1>6, <1>7, <1>8, PollPreserves

(* A poll goes on to its next step, aborted or not as it was.             *)
LEMMA StepPreserves ==
  ASSUME ViewInv, ViewTypes', Aside, slot' = slot, viewer' = viewer, seen' = seen, NEW b \in Browser, page[b].poll \in Polls,
         NEW t, NEW r, NEW y, NEW z,
         PageIs(b, page[b].link, page[b].shows, Poll(t, r, page[b].poll.aborted, y, z)),
         \A p : p.step = t /\ p.rev = r /\ p.body = y /\ p.since = z => PollGood(p)',
         AnnouncedInv',
         \A c \in Browser \ {b} : page[c].poll # NoPoll => PollGood(page[c].poll)'
  PROVE  ViewInv'
<1>1. PICK q, s : q = Poll(t, r, page[b].poll.aborted, y, z) /\ s = page[b].shows
  OBVIOUS
<1>2. q.step = t /\ q.rev = r /\ q.body = y /\ q.since = z /\ q.aborted = page[b].poll.aborted
  BY <1>1, FieldsOfPoll
<1>3. PollGood(q)'
  BY <1>2
<1>4. Live(b) => q.aborted = TRUE
  BY <1>2, PollParts DEF ViewInv, StreamsInv, StreamInv, StreamOf
<1> QED
  BY <1>1, <1>3, <1>4, PollPreserves

LEMMA LookPreserves ==
  ASSUME ViewInv, NEW b \in Browser, Look(b)
  PROVE  ViewInv'
<1>0. ViewTypes /\ AnnouncedInv /\ PollInv
  BY DEF ViewInv
<1>1. UNCHANGED <<truth, revision, announced, writers, signal, early, task, published, slot, viewer, seen, cache>>
  BY DEF Look, sourceVars, taskVars, apiVars, stampVars
<1>2. LET p == page[b].poll IN
      /\ ViewTypes' /\ p \in Polls /\ p.step = "look"
      /\ \/ /\ cache.rev = p.rev
            /\ PageIs(b, page[b].link, page[b].shows, Poll("answer", p.rev, p.aborted, cache.body, p.since))
         \/ PageIs(b, page[b].link, page[b].shows, Poll("lock", p.rev, p.aborted, p.body, p.since))
  BY <1>0, LookEffect
<1>3. PICK p \in Polls : p = page[b].poll
  BY <1>2
<1>4. PollGood(p)
  BY <1>0, <1>3, PollParts DEF PollInv
<1>5. AnnouncedInv' /\ Aside
  BY <1>0, <1>1 DEF AnnouncedInv, Aside
<1>6. \A c \in Browser \ {b} : page[c].poll # NoPoll => PollGood(page[c].poll)'
  BY <1>0, <1>1, <1>2, OtherPolls DEF PageIs, PageEdited
<1>7. CASE /\ cache.rev = p.rev
           /\ PageIs(b, page[b].link, page[b].shows, Poll("answer", p.rev, p.aborted, cache.body, p.since))
  <2>1. \A h : h.step = "answer" /\ h.rev = p.rev /\ h.body = cache.body /\ h.since = p.since => PollGood(h)'
    BY <1>1, <1>2, <1>3, <1>4, <1>7 DEF PollGood
  <2> QED
    BY <1>1, <1>2, <1>3, <1>5, <1>6, <1>7, <2>1, StepPreserves
<1>8. CASE PageIs(b, page[b].link, page[b].shows, Poll("lock", p.rev, p.aborted, p.body, p.since))
  <2>1. \A h : h.step = "lock" /\ h.rev = p.rev /\ h.body = p.body /\ h.since = p.since => PollGood(h)'
    BY <1>1, <1>4 DEF PollGood
  <2> QED
    BY <1>1, <1>2, <1>3, <1>5, <1>6, <1>8, <2>1, StepPreserves
<1> QED
  BY <1>2, <1>3, <1>7, <1>8

LEMMA LookAgainPreserves ==
  ASSUME ViewInv, NEW b \in Browser, LookAgain(b)
  PROVE  ViewInv'
<1>0. ViewTypes /\ AnnouncedInv /\ PollInv
  BY DEF ViewInv
<1>1. UNCHANGED <<truth, revision, announced, writers, signal, early, task, published, slot, viewer, seen, cache>>
  BY DEF LookAgain, sourceVars, taskVars, stampVars
<1>2. LET p == page[b].poll IN
      /\ ViewTypes' /\ p \in Polls /\ p.step = "lock"
      /\ \/ /\ cache.rev = revision
            /\ PageIs(b, page[b].link, page[b].shows, Poll("answer", p.rev, p.aborted, cache.body, p.since))
         \/ PageIs(b, page[b].link, page[b].shows, Poll("build", revision, p.aborted, p.body, p.since))
  BY <1>0, LookAgainEffect
<1>3. PICK p \in Polls : p = page[b].poll
  BY <1>2
<1>4. PollGood(p)
  BY <1>0, <1>3, PollParts DEF PollInv
<1>5. AnnouncedInv' /\ Aside
  BY <1>0, <1>1 DEF AnnouncedInv, Aside
<1>6. \A c \in Browser \ {b} : page[c].poll # NoPoll => PollGood(page[c].poll)'
  BY <1>0, <1>1, <1>2, OtherPolls DEF PageIs, PageEdited
<1>7. CASE /\ cache.rev = revision
           /\ PageIs(b, page[b].link, page[b].shows, Poll("answer", p.rev, p.aborted, cache.body, p.since))
  <2>1. ASSUME NEW n \in ViewNode PROVE cache.body[n].ver >= p.since[n]
    <3>1. p.since[n] \in Nat /\ p.since[n] <= announced[n]
      BY <1>4, PollParts DEF PollGood
    <3>2. cache.body[n].ver >= announced[n] /\ cache.body[n].ver \in Nat /\ announced[n] \in Nat
      BY <1>0, <1>7, AnnouncedFacts
    <3> QED
      BY <3>1, <3>2
  <2>2. \A h : h.step = "answer" /\ h.rev = p.rev /\ h.body = cache.body /\ h.since = p.since => PollGood(h)'
    BY <1>1, <1>4, <2>1 DEF PollGood
  <2> QED
    BY <1>1, <1>2, <1>3, <1>5, <1>6, <1>7, <2>2, StepPreserves
<1>8. CASE PageIs(b, page[b].link, page[b].shows, Poll("build", revision, p.aborted, p.body, p.since))
  <2>1. \A h : h.step = "build" /\ h.rev = revision /\ h.body = p.body /\ h.since = p.since => PollGood(h)'
    <3>1. revision \in Nat
      BY <1>0 DEF ViewTypes
    <3> QED
      BY <1>1, <1>4, <3>1 DEF PollGood
  <2> QED
    BY <1>1, <1>2, <1>3, <1>5, <1>6, <1>8, <2>1, StepPreserves
<1> QED
  BY <1>2, <1>3, <1>7, <1>8

LEMMA BuildPreserves ==
  ASSUME ViewInv, NEW b \in Browser, Build(b)
  PROVE  ViewInv'
<1>0. ViewTypes /\ AnnouncedInv /\ PollInv
  BY DEF ViewInv
<1>1. UNCHANGED <<truth, revision, announced, writers, signal, task, published, slot, viewer, seen, cache>>
  BY DEF Build, taskVars, apiVars, stampVars
<1>2. LET p == page[b].poll IN
      /\ ViewTypes' /\ p \in Polls /\ p.step = "build"
      /\ PageIs(b, page[b].link, page[b].shows, Poll("store", p.rev, p.aborted, truth, p.since))
      /\ early'.read = early.read \cup Unannounced /\ early'.compared = early.compared
  BY <1>0, BuildEffect
<1>3. PICK p \in Polls : p = page[b].poll
  BY <1>2
<1>4. PollGood(p)
  BY <1>0, <1>3, PollParts DEF PollInv
<1>5. AnnouncedInv' /\ Aside
  BY <1>0, <1>1, <1>2 DEF AnnouncedInv, Aside
<1>6. \A c \in Browser \ {b} : page[c].poll # NoPoll => PollGood(page[c].poll)'
  BY <1>0, <1>1, <1>2, OtherPolls DEF PageIs, PageEdited
<1>7. ASSUME NEW n \in ViewNode PROVE truth[n].ver >= p.since[n] /\ truth[n].ver >= announced[n]
  <2>1. p.since[n] \in Nat /\ p.since[n] <= announced[n]
    BY <1>4, PollParts DEF PollGood
  <2>2. truth[n].ver >= announced[n] /\ truth[n].ver \in Nat /\ announced[n] \in Nat
    BY <1>0, AnnouncedFacts
  <2> QED
    BY <2>1, <2>2
<1>8. \A h : h.step = "store" /\ h.rev = p.rev /\ h.body = truth /\ h.since = p.since => PollGood(h)'
  BY <1>1, <1>4, <1>7 DEF PollGood
<1> QED
  BY <1>1, <1>2, <1>3, <1>5, <1>6, <1>8, StepPreserves

LEMMA StorePreserves ==
  ASSUME ViewInv, NEW b \in Browser, Store(b)
  PROVE  ViewInv'
<1>0. ViewTypes /\ AnnouncedInv /\ PollInv
  BY DEF ViewInv
<1>1. UNCHANGED <<truth, revision, announced, writers, signal, early, task, published, slot, viewer, seen>>
  BY DEF Store, sourceVars, taskVars, stampVars
<1>2. LET p == page[b].poll IN
      /\ ViewTypes' /\ p \in Polls /\ p.step = "store"
      /\ PageIs(b, page[b].link, page[b].shows, Poll("answer", p.rev, p.aborted, p.body, p.since))
      /\ \/ cache' = cache
         \/ p.rev = revision /\ cache'.rev = p.rev /\ cache'.body = p.body
  BY <1>0, StoreEffect
<1>3. PICK p \in Polls : p = page[b].poll
  BY <1>2
<1>4. PollGood(p)
  BY <1>0, <1>3, PollParts DEF PollInv
<1>5. /\ revision \in Nat
      /\ \/ cache' = cache
         \/ cache'.rev = revision /\ \A n \in ViewNode : cache'.body[n].ver >= announced[n]
                                       /\ cache'.body[n].ver \in Nat
  <2>1. \A n \in ViewNode : p.body[n].ver \in Nat
    BY <1>3, PollParts, StateParts DEF Views
  <2> QED
    BY <1>0, <1>2, <1>3, <1>4, <2>1 DEF PollGood, ViewTypes
<1>6. AnnouncedInv'
  BY <1>0, <1>1, <1>5 DEF AnnouncedInv
<1>7. ASSUME NEW c \in Browser, page[c].poll # NoPoll PROVE \A h : h = page[c].poll => PollGood(h)'
  <2>1. PICK h \in Polls : h = page[c].poll
    BY <1>0, <1>7, BrowserParts
  <2>2. PollGood(h)
    BY <1>0, <1>7, <2>1 DEF PollInv
  <2>3. ASSUME cache'.rev = revision, \A n \in ViewNode : cache'.body[n].ver >= announced[n]
                                       /\ cache'.body[n].ver \in Nat, NEW n \in ViewNode
        PROVE  cache'.body[n].ver >= h.since[n]
    <3>1. h.since[n] \in Nat /\ h.since[n] <= announced[n] /\ announced[n] \in Nat
      BY <1>0, <2>2, PollParts, AnnouncedFacts DEF PollGood
    <3> QED
      BY <2>3, <3>1
  <2> QED
    BY <1>1, <1>5, <2>1, <2>2, <2>3 DEF PollGood
<1>8. \A c \in Browser \ {b} : page[c].poll # NoPoll => PollGood(page[c].poll)'
  <2>1. \A c \in Browser \ {b} : page'[c] = page[c]
    BY <1>2 DEF PageIs, PageEdited
  <2>2. ASSUME NEW c \in Browser \ {b}, page[c].poll # NoPoll PROVE PollGood(page[c].poll)'
    <3>1. PICK h : h = page[c].poll
      OBVIOUS
    <3>2. PollGood(h)'
      BY <1>7, <2>2, <3>1
    <3> QED
      BY <2>1, <3>1, <3>2 DEF PollGood
  <2> QED
    BY <2>2
<1>9. \A h : h.step = "answer" /\ h.rev = p.rev /\ h.body = p.body /\ h.since = p.since => PollGood(h)'
  BY <1>1, <1>2, <1>3, <1>4 DEF PollGood
<1>10. Aside
  BY <1>1 DEF Aside
<1> QED
  BY <1>1, <1>2, <1>3, <1>6, <1>8, <1>9, <1>10, StepPreserves

LEMMA AnswerPreserves ==
  ASSUME ViewInv, NEW b \in Browser, Answer(b)
  PROVE  ViewInv' /\ (Live(b) => page'[b].shows = page[b].shows)
<1>0. ViewTypes /\ AnnouncedInv /\ PollInv
  BY DEF ViewInv
<1>1. UNCHANGED <<truth, revision, announced, writers, signal, early, task, published, slot, viewer, seen, cache>>
  BY DEF Answer, sourceVars, taskVars, apiVars, stampVars
<1>2. LET p == page[b].poll IN
      /\ ViewTypes' /\ p \in Polls
      /\ PageIs(b, page[b].link, IF p.aborted THEN page[b].shows ELSE p.body, NoPoll)
  BY <1>0, AnswerEffect
<1>3. PICK s : s = IF page[b].poll.aborted THEN page[b].shows ELSE page[b].poll.body
  OBVIOUS
<1>4. AnnouncedInv' /\ Aside
  BY <1>0, <1>1 DEF AnnouncedInv, Aside
<1>5. PageIs(b, page[b].link, s, NoPoll)
  BY <1>2, <1>3
<1>6. \A c \in Browser \ {b} : page[c].poll # NoPoll => PollGood(page[c].poll)'
  BY <1>0, <1>1, <1>5, OtherPolls DEF PageIs, PageEdited
<1>7. Live(b) => s = page[b].shows
  <2>1. ASSUME Live(b) PROVE page[b].poll.aborted = TRUE
    BY <1>2, <2>1, PollParts DEF ViewInv, StreamsInv, StreamInv, StreamOf
  <2> QED
    BY <1>3, <2>1
<1>8. ViewInv'
  BY <1>1, <1>2, <1>4, <1>5, <1>6, <1>7, PollPreserves
<1> QED
  BY <1>5, <1>7, <1>8 DEF PageIs, PageEdited

(* The invariant.                                                         *)
LEMMA ViewInvInit == ViewInit => ViewInv
<1> SUFFICES ASSUME ViewInit PROVE ViewInv
  OBVIOUS
<1>1. ViewTypes
  BY ViewTypesInit
<1>2. \A n \in ViewNode : /\ truth[n] = Absent /\ task.last[n] = Absent /\ Past(Absent, Absent)
                         /\ truth[n].ver = 0
  <2>1. Past(Absent, Absent)
    BY NothingYet, PastFacts
  <2> QED
    BY <2>1, NothingYet DEF ViewInit, Absent
<1>3. FrameInv
  BY DEF ViewInit, FrameInv
<1>4. ~Holding
  BY DEF ViewInit, Holding
<1>5. TaskInv
  BY <1>2, <1>4 DEF TaskInv, ViewInit
<1>6. \A b \in Browser : viewer[b].queue = << >> /\ viewer[b].stage = "none"
  BY Offs DEF ViewInit
<1>7. QueuesInv
  BY <1>4, <1>6 DEF QueuesInv, QueueOf
<1>8. StreamInv
  BY <1>6 DEF StreamInv, Live
<1>9. AnnouncedInv
  <2>1. cache.rev = 0 /\ revision = 1 /\ \A n \in ViewNode : announced[n] = 0
    BY DEF ViewInit
  <2> QED
    BY <1>2, <2>1 DEF AnnouncedInv
<1>10. PollInv
  BY DEF ViewInit, PollInv
<1> QED
  BY <1>1, <1>3, <1>5, <1>7, <1>8, <1>9, <1>10 DEF ViewInv, StreamsInv

LEMMA UpdaterStep ==
  ASSUME ViewInv, NEW w \in Updater,
         \/ \E n \in ViewNode : Change(w, n) \/ RemoveNode(w, n) \/ Sweep(w, n)
         \/ RaiseRevision(w)
         \/ Notify(w)
  PROVE  ViewInv' /\ page' = page
<1>1. CASE \E n \in ViewNode : Change(w, n) \/ RemoveNode(w, n) \/ Sweep(w, n)
  <2>1. PICK n \in ViewNode, here \in BOOLEAN : Altered(w, n, here)
    BY <1>1 DEF Change, RemoveNode, Sweep
  <2> QED
    BY <2>1, AlteredPreserves DEF Altered
<1>2. CASE RaiseRevision(w)
  BY <1>2, RaisePreserves DEF RaiseRevision
<1>3. CASE Notify(w)
  BY <1>3, NotifyPreserves DEF Notify
<1> QED
  BY <1>1, <1>2, <1>3

LEMMA TaskNext ==
  ASSUME ViewInv, Wake \/ Advances \/ Count \/ Drop \/ Stamp \/ Diff \/ DiffFails \/ PublishBatch \/ SendBatch
  PROVE  ViewInv' /\ page' = page
<1>1. CASE Wake
  BY <1>1, WakePreserves DEF Wake
<1>2. CASE Advances
  BY <1>2, AdvancesPreserves DEF Advances
<1>3. CASE Count
  BY <1>3, CountPreserves DEF Count
<1>4. CASE Drop
  BY <1>4, DropPreserves DEF Drop
<1>5. CASE Diff
  BY <1>5, DiffPreserves DEF Diff
<1>6. CASE DiffFails
  BY <1>6, DiffFailsPreserves DEF DiffFails
<1>7. CASE PublishBatch
  BY <1>7, PublishPreserves DEF PublishBatch
<1>8. CASE SendBatch
  BY <1>8, SendPreserves DEF SendBatch
<1>9. CASE Stamp
  BY <1>9, StampPreserves DEF Stamp
<1> QED
  BY <1>1, <1>2, <1>3, <1>4, <1>5, <1>6, <1>7, <1>8, <1>9

(* The step takes no page with a stream back, but for nodes read early.   *)
Onward ==
  \A b \in Browser, n \in ViewNode :
    Live(b) /\ n \notin early.read => page'[b].shows[n].ver >= page[b].shows[n].ver

LEMMA OnwardWhen ==
  ASSUME ViewTypes, NEW b \in Browser, \A c \in Browser \ {b} : page'[c] = page[c],
         \/ page'[b].shows = page[b].shows
         \/ Live(b) => \A n \in ViewNode : n \notin early.read => page'[b].shows[n].ver >= page[b].shows[n].ver
  PROVE  Onward
<1>1. \A c \in Browser, n \in ViewNode : page[c].shows[n].ver \in Nat
  <2>1. \A c \in Browser : page[c].shows \in Views
    BY BrowserParts
  <2> QED
    BY <2>1, StateParts DEF Views
<1>2. \A c \in Browser, n \in ViewNode : page'[c].shows = page[c].shows => page'[c].shows[n].ver >= page[c].shows[n].ver
  BY <1>1
<1> QED
  BY <1>2 DEF Onward

LEMMA OnwardStill ==
  ASSUME ViewTypes, page' = page
  PROVE  Onward
<1>1. \A c \in Browser, n \in ViewNode : page[c].shows[n].ver \in Nat
  <2>1. \A c \in Browser : page[c].shows \in Views
    BY BrowserParts
  <2> QED
    BY <2>1, StateParts DEF Views
<1> QED
  BY <1>1 DEF Onward

LEMMA LinkStep ==
  ASSUME ViewInv, NEW b \in Browser,
         \/ Attach(b) \/ Admit(b) \/ Refuse(b) \/ Hide(b)
         \/ \E link \in {"waiting", "idle"} : End(b, link)
  PROVE  ViewInv' /\ Onward
<1>0. ViewTypes
  BY DEF ViewInv
<1>1. CASE Attach(b) \/ Refuse(b) \/ Hide(b)
  <2>1. \E l, q : PageIs(b, l, page[b].shows, q)
    BY <1>0, <1>1, AttachEffect, RefuseEffect, HideEffect
  <2>2. Onward
    BY <1>0, <2>1, OnwardWhen DEF PageIs, PageEdited
  <2> QED
    BY <1>1, <2>2, AttachPreserves
<1>2. CASE Admit(b)
  <2>1. PageIs(b, "open", page[b].shows, page[b].poll)
    BY <1>0, <1>2, AdmitEffect
  <2>2. Onward
    BY <1>0, <2>1, OnwardWhen DEF PageIs, PageEdited
  <2> QED
    BY <1>2, <2>2, AdmitPreserves
<1>3. ASSUME NEW l \in {"waiting", "idle"}, End(b, l) PROVE ViewInv' /\ Onward
  <2>1. \E q : PageIs(b, l, page[b].shows, q)
    BY <1>0, <1>3, EndEffect
  <2>2. Onward
    BY <1>0, <2>1, OnwardWhen DEF PageIs, PageEdited
  <2> QED
    BY <1>3, <2>2, EndPreserves
<1> QED
  BY <1>1, <1>2, <1>3

LEMMA StreamStep ==
  ASSUME ViewInv, NEW b \in Browser, SendShared(b) \/ SendBuilt(b) \/ Forward(b)
  PROVE  ViewInv' /\ Onward
<1>0. ViewTypes
  BY DEF ViewInv
<1>1. CASE SendShared(b)
  <2>1. slot # NoFrame /\ slot.rev >= published /\ PageIs(b, page[b].link, slot.nodes, Touched(page[b].poll))
    BY <1>0, <1>1, SendSharedEffect
  <2>2. page'[b].shows = slot.nodes /\ \A c \in Browser \ {b} : page'[c] = page[c]
    BY <2>1 DEF PageIs, PageEdited
  <2>3. ASSUME Live(b), NEW n \in ViewNode, n \notin early.read PROVE slot.nodes[n].ver >= page[b].shows[n].ver
    <3>1. slot.nodes[n].ver >= seen[b].due[n].ver /\ page[b].shows[n].ver <= seen[b].due[n].ver
      BY <2>1, <2>3 DEF ViewInv, StreamsInv, StreamInv, StreamOf, FrameKeepsUp, Shown
    <3>2. slot.nodes[n].ver \in Nat /\ seen[b].due[n].ver \in Nat /\ page[b].shows[n].ver \in Nat
      BY <1>0, <2>1, ViewParts, BrowserParts, StateParts DEF Views
    <3> QED
      BY <3>1, <3>2
  <2> QED
    BY <1>0, <1>1, <2>2, <2>3, OnwardWhen, SendSharedPreserves
<1>2. CASE SendBuilt(b)
  <2>1. PageIs(b, page[b].link, truth, Touched(page[b].poll))
    BY <1>0, <1>2, SendBuiltEffect
  <2>2. page'[b].shows = truth /\ \A c \in Browser \ {b} : page'[c] = page[c]
    BY <2>1 DEF PageIs, PageEdited
  <2>3. ASSUME Live(b), NEW n \in ViewNode PROVE truth[n].ver >= page[b].shows[n].ver
    <3>1. truth[n] \in States /\ seen[b].due[n] \in States /\ page[b].shows[n].ver \in Nat
      BY <1>0, BrowserParts, StateParts DEF ViewTypes, Views
    <3>2. Past(seen[b].due[n], truth[n]) /\ page[b].shows[n].ver <= seen[b].due[n].ver
      BY <2>3 DEF ViewInv, StreamsInv, StreamInv, StreamOf, Stamped, Shown
    <3>3. seen[b].due[n].ver <= truth[n].ver /\ seen[b].due[n].ver \in Nat /\ truth[n].ver \in Nat
      BY <3>1, <3>2, PastFacts, StateParts
    <3> QED
      BY <3>1, <3>2, <3>3
  <2> QED
    BY <1>0, <1>2, <2>2, <2>3, OnwardWhen, SendBuiltPreserves
<1>3. CASE Forward(b)
  <2>1. \A c \in Browser \ {b} : page'[c] = page[c]
    BY <1>0, <1>3, ForwardEffect DEF PageIs, PageEdited
  <2> QED
    BY <1>0, <1>3, <2>1, OnwardWhen, ForwardPreserves
<1> QED
  BY <1>1, <1>2, <1>3

LEMMA PollStep ==
  ASSUME ViewInv, NEW b \in Browser,
         Ask(b) \/ Look(b) \/ LookAgain(b) \/ Build(b) \/ Store(b) \/ Answer(b)
  PROVE  ViewInv' /\ Onward
<1>0. ViewTypes
  BY DEF ViewInv
<1>1. CASE Ask(b)
  BY <1>0, <1>1, AskEffect, AskPreserves, OnwardWhen DEF PageIs, PageEdited
<1>2. CASE Look(b)
  <2>1. \E q : PageIs(b, page[b].link, page[b].shows, q)
    BY <1>0, <1>2, LookEffect
  <2> QED
    BY <1>0, <1>2, <2>1, LookPreserves, OnwardWhen DEF PageIs, PageEdited
<1>3. CASE LookAgain(b)
  <2>1. \E q : PageIs(b, page[b].link, page[b].shows, q)
    BY <1>0, <1>3, LookAgainEffect
  <2> QED
    BY <1>0, <1>3, <2>1, LookAgainPreserves, OnwardWhen DEF PageIs, PageEdited
<1>4. CASE Build(b)
  <2>1. \E q : PageIs(b, page[b].link, page[b].shows, q)
    BY <1>0, <1>4, BuildEffect
  <2> QED
    BY <1>0, <1>4, <2>1, BuildPreserves, OnwardWhen DEF PageIs, PageEdited
<1>5. CASE Store(b)
  <2>1. \E q : PageIs(b, page[b].link, page[b].shows, q)
    BY <1>0, <1>5, StoreEffect
  <2> QED
    BY <1>0, <1>5, <2>1, StorePreserves, OnwardWhen DEF PageIs, PageEdited
<1>6. CASE Answer(b)
  <2>1. \A c \in Browser \ {b} : page'[c] = page[c]
    BY <1>0, <1>6, AnswerEffect DEF PageIs, PageEdited
  <2>2. ViewInv' /\ (Live(b) => page'[b].shows = page[b].shows)
    BY <1>6, AnswerPreserves
  <2>3. CASE Live(b)
    BY <1>0, <2>1, <2>2, <2>3, OnwardWhen
  <2>4. CASE ~Live(b)
    BY <1>0, <2>1, <2>2, <2>4, OnwardWhen
  <2> QED
    BY <2>3, <2>4
<1> QED
  BY <1>1, <1>2, <1>3, <1>4, <1>5, <1>6

LEMMA ViewStep ==
  ASSUME ViewInv, [ViewNext]_viewVars
  PROVE  ViewInv' /\ Onward
<1>0. ViewTypes
  BY DEF ViewInv
<1>1. CASE ViewNext
  <2>1. CASE \E w \in Updater : \/ \E n \in ViewNode : Change(w, n) \/ RemoveNode(w, n) \/ Sweep(w, n)
                                \/ RaiseRevision(w)
                                \/ Notify(w)
    BY <1>0, <2>1, UpdaterStep, OnwardStill
  <2>2. CASE Wake \/ Advances \/ Count \/ Drop \/ Stamp \/ Diff \/ DiffFails \/ PublishBatch \/ SendBatch
    BY <1>0, <2>2, TaskNext, OnwardStill
  <2>3. ASSUME NEW b \in Browser,
               \/ Attach(b) \/ Admit(b) \/ Refuse(b) \/ Hide(b)
               \/ \E link \in {"waiting", "idle"} : End(b, link)
        PROVE  ViewInv' /\ Onward
    BY <2>3, LinkStep
  <2>4. ASSUME NEW b \in Browser, SendShared(b) \/ SendBuilt(b) \/ Forward(b)
        PROVE  ViewInv' /\ Onward
    BY <2>4, StreamStep
  <2>5. ASSUME NEW b \in Browser, Ask(b) \/ Look(b) \/ LookAgain(b) \/ Build(b) \/ Store(b) \/ Answer(b)
        PROVE  ViewInv' /\ Onward
    BY <2>5, PollStep
  <2> QED
    BY <1>1, <2>1, <2>2, <2>3, <2>4, <2>5 DEF ViewNext
<1>2. CASE UNCHANGED viewVars
  <2>1. UNCHANGED <<truth, revision, announced, writers, early, signal, task, published, slot, viewer, page,
                    clock, began, seen, cache>>
    BY <1>2 DEF viewVars
  <2>2. ViewTypes' /\ Onward
    BY <1>0, <2>1, OnwardStill DEF ViewTypes
  <2>3. StreamsInv'
    BY <2>1, <1>0, SourceKeeps, SameSource DEF ViewInv
  <2>4. AnnouncedInv' /\ PollInv'
    BY <2>1, SamePolls DEF ViewInv
  <2> QED
    BY <2>2, <2>3, <2>4 DEF ViewInv
<1> QED
  BY <1>1, <1>2

(* The invariant holds in every state.                                    *)
LEMMA ViewInvariance == ViewSpec => []ViewInv
  BY ViewInvInit, ViewStep, PTL DEF ViewSpec

(* What the invariant says when all is quiet, and of an answer.           *)
LEMMA ViewInvSettled == ViewInv => SettledRowsAreCurrent
<1> SUFFICES ASSUME ViewInv, NEW b \in Browser, SettledStream(b),
                    NEW n \in ViewNode, truth[n].here, n \notin early.compared, n \notin seen[b].missed
             PROVE  page[b].shows[n] = truth[n]
  BY DEF SettledRowsAreCurrent
<1>1. /\ Live(b) /\ ~viewer[b].lagged /\ viewer[b].queue = << >>
      /\ task.step = "wait" /\ ~task.dirty /\ ~signal /\ \A w \in Updater : writers[w].step = "idle"
  BY DEF SettledStream, Live
<1>2. Settles(b, n) /\ page[b].shows[n] = seen[b].due[n]
  BY <1>1 DEF ViewInv, StreamsInv, StreamInv, StreamOf, Shown
<1>3. ~Owed(n) /\ ~Holding
  BY <1>1 DEF Owed, Told, Holding
<1>4. \A i \in 1 .. Len(viewer[b].queue) : FALSE
  BY <1>1
<1> QED
  BY <1>2, <1>3, <1>4 DEF Settles, Catches

LEMMA ViewInvAnswers == ViewInv => AnswersAreFresh
<1> SUFFICES ASSUME ViewInv, NEW b \in Browser, page[b].poll.step = "answer", NEW n \in ViewNode
             PROVE  page[b].poll.body[n].ver >= page[b].poll.since[n]
  BY DEF AnswersAreFresh
<1>1. page[b].poll # NoPoll
  BY DEF NoPoll
<1> QED
  BY <1>1 DEF ViewInv, PollInv, PollGood

(* Neither way a page learns of the nodes leaves it behind: once all is   *)
(* quiet a page with a stream shows every listed node as it is            *)
(* (state/browser_broadcast.rs, ws/browser.rs), and an answer of          *)
(* /api/nodes holds every change announced before it was asked for (the   *)
(* cache in state.rs). For any number of nodes, writers and browsers and  *)
(* any capacity of the channel, but for nodes whose last change the task  *)
(* read before its revision was raised, and for those of which the page   *)
(* dropped a row stamped before the view it had (stores/nodes.ts:64, 83)  *)
(* and has had none since.                                                *)
THEOREM ViewsCurrent == ViewSpec => []ViewsAreCurrent
<1>1. ViewInv => ViewsAreCurrent
  BY ViewInvSettled, ViewInvAnswers DEF ViewsAreCurrent
<1> QED
  BY <1>1, ViewInvariance, PTL

(* While it has its stream a page is never taken back to an earlier state *)
(* of a node, by a batch, by a shared frame or by the answer of a poll    *)
(* begun before the stream, but for nodes read before their revision was  *)
(* raised (ws/browser.rs:233, state/browser_broadcast.rs:63,              *)
(* stores/nodes.ts:35).                                                   *)
THEOREM StreamsForward == ViewSpec => StreamsMoveForward
<1>1. ViewInv /\ [ViewNext]_viewVars =>
        [\A b \in Browser, n \in ViewNode :
           viewer[b].stage = "live" /\ n \notin early.read =>
             page'[b].shows[n].ver >= page[b].shows[n].ver]_viewVars
  BY ViewStep DEF Onward, Live
<1> QED
  BY <1>1, ViewInvariance, PTL DEF ViewSpec, StreamsMoveForward
=============================================================================
