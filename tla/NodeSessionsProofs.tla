-------------------------- MODULE NodeSessionsProofs --------------------------
(***************************************************************************)
(* What a node's sessions and removals leave behind, for any number of     *)
(* handlers and enrolments.                                                *)
(***************************************************************************)
EXTENDS NodeSessions, TLAPS

(* A handler has a number once it has drawn it, one below the counter, and *)
(* then stands for the enrolment it was authorized for.                    *)
Numbers ==
  /\ \A s \in Session : id[s] = 0 <=> pc[s] \in {"none", "authorized"}
  /\ \A s \in Session : id[s] < nextId
  /\ \A s \in Session : pc[s] # "none" => life[s] \in Enrolment

(* Where a handler is while it is the current session, while the traffic   *)
(* reports are its own, and while the update reports are its own.  A       *)
(* number that is still to be drawn is nobody's.                           *)
InEntry == {"registered", "counted", "begun", "open", "sampling", "accounting", "logging",
            "ending", "uncounting", "leaving"}
InControl == InEntry \ {"registered", "leaving"}
InUpdates == InControl \ {"counted", "uncounting"}

Registrations ==
  /\ entry.active < nextId /\ control.id < nextId /\ updates.id < nextId
  /\ \A s \in Session : id[s] # 0 =>
       /\ entry.active = id[s] => pc[s] \in InEntry
       /\ control.id = id[s] => pc[s] \in InControl
       /\ updates.online /\ updates.id = id[s] => pc[s] \in InUpdates

(* The removal in progress.                                                *)
Jobs ==
  /\ job.step = "idle" => job = Idle
  /\ job.kind = "none" => job = Idle
  /\ job.kind = "delete" => ~job.keep

(* Unless memory has moved on from an enrolment without anybody cleaning   *)
(* up after it: the ledger is of the enrolment in memory, but during a     *)
(* clean-up; so are the logs of a node that is gone, as soon as they may   *)
(* be written; and a current session that is about to account stands for   *)
(* it too, until the clean-up takes the live entry away, which it does     *)
(* under the lock.                                                         *)
EntryStays ==
  \/ job.kind = "delete" /\ job.step = "runtime"
  \/ job.kind = "reload" /\ ~job.keep /\ job.step \in {"logs", "runtime"}

Afresh ==
  ~unclean =>
    /\ job.keep => mem # Absent
    /\ job.step = "idle" \/ job.keep => ledger \in {Absent, mem}
    /\ LogsLockFree /\ mem = Absent => logs = Absent
    /\ job.kind = "reload" /\ ~job.keep /\ job.step # "logs" => logs = Absent
    /\ \A s \in Session : pc[s] \in {"sampling", "accounting"} /\ IsCurrent(s) =>
         life[s] = mem \/ EntryStays

IInv == TypeOK /\ Numbers /\ CommandsReachTheCurrent /\ Registrations /\ Jobs /\ Afresh

(* The groups of variables are always expanded.                            *)
USE DEF vars, registry, locals, reports, traces

-----------------------------------------------------------------------------
(* The types of the records a step leaves behind.                          *)
EntryType == [known : BOOLEAN, online : BOOLEAN, active : Nat, control : Nat]
JobType == [step : {"idle", "runtime", "updates", "logs", "traffic"},
            kind : {"none", "delete", "reload"}, keep : BOOLEAN]

LEMMA EntryTypes ==
  /\ Offline \in EntryType /\ NoEntry \in EntryType
  /\ \A i \in Nat : Registered(i) \in EntryType
  /\ \A e \in EntryType, i \in Nat : [e EXCEPT !.control = i] \in EntryType
<1>1. Offline \in EntryType
  BY DEF Offline, EntryType
<1>2. NoEntry \in EntryType
  BY DEF NoEntry, Offline, EntryType
<1>3. QED
  BY <1>1, <1>2 DEF Registered, EntryType

LEMMA ReportTypes ==
  /\ NoReport \in Report
  /\ \A r \in Report, i \in Nat : Begun(r, i) \in Report
  /\ \A r \in Report : [r EXCEPT !.online = FALSE] \in Report /\ [r EXCEPT !.reported = TRUE] \in Report
BY DEF NoReport, NewReport, Begun, Report

LEMMA JobTypes ==
  /\ Idle \in JobType
  /\ \A k \in BOOLEAN : [step |-> "logs", kind |-> "reload", keep |-> k] \in JobType
  /\ [step |-> "runtime", kind |-> "delete", keep |-> FALSE] \in JobType
  /\ job \in JobType /\ job.step \in {"runtime", "updates", "logs"} /\ Continue => job' \in JobType
<1>1. ASSUME job \in JobType, job.step \in {"runtime", "updates", "logs"} PROVE After(job.step) \in {"runtime", "updates", "logs", "traffic"}
  BY <1>1 DEF After
<1>2. QED
  BY <1>1 DEF Idle, Continue, JobType

(* TypeOK in terms of them.                                                *)
Types ==
  /\ disk \in Enrolled /\ mem \in Enrolled /\ lost \in 0..MaxLost /\ unclean \in BOOLEAN
  /\ entry \in EntryType
  /\ nextId \in Nat \ {0}
  /\ pc \in [Session -> {"none", "authorized", "numbered"} \cup InEntry \cup {"done"}]
  /\ id \in [Session -> Nat] /\ life \in [Session -> Enrolled]
  /\ control \in Report /\ updates \in Report
  /\ ledger \in Enrolled /\ logs \in Enrolled
  /\ job \in JobType
  /\ \A s, t \in Session : id[s] = id[t] /\ id[s] # 0 => s = t

LEMMA TypesAreTypes == (TypeOK <=> Types) /\ (TypeOK' <=> Types')
BY DEF TypeOK, Types, EntryType, JobType, InEntry

LEMMA InitEstablishes == Init => IInv
<1> SUFFICES ASSUME Init PROVE IInv
  OBVIOUS
<1> USE DEF Init
<1>1. TypeOK
  <2>1. unclean \in BOOLEAN
    OBVIOUS
  <2>2. QED
    BY <2>1, EntryTypes, ReportTypes, JobTypes, TypesAreTypes, SessionsAssumption DEF Types, Enrolled
<1>2. Numbers /\ Registrations
  BY DEF Numbers, Registrations, NoEntry, Offline, NoReport
<1>3. CommandsReachTheCurrent
  BY DEF CommandsReachTheCurrent, NoEntry, Offline
<1>4. Jobs /\ Afresh
  BY DEF Jobs, Afresh, Idle
<1>5. QED
  BY <1>1, <1>2, <1>3, <1>4 DEF IInv

-----------------------------------------------------------------------------
(* TypeOK and Numbers, which need only each other.                         *)
Typed == TypeOK /\ Numbers

(* A handler with a number keeps it, wherever it goes.                     *)
Located ==
  /\ pc \in [Session -> {"none", "authorized", "numbered"} \cup InEntry \cup {"done"}]
  /\ id \in [Session -> Nat] /\ life \in [Session -> Enrolled]
  /\ \A s, t \in Session : id[s] = id[t] /\ id[s] # 0 => s = t
  /\ Numbers

LEMMA HandlerGoes ==
  ASSUME Located, NEW s \in Session, NEW step \in InEntry \cup {"done"},
         pc[s] \in {"numbered"} \cup InEntry, Goes(s, step), UNCHANGED nextId
  PROVE  Located'
BY DEF Located, Numbers, Goes, InEntry

LEMMA HandlerTypes ==
  ASSUME Typed, NEW s \in Session, Authorize(s) \/ Handle(s) \/ Close(s)
                \/ ReportUpdate(s) \/ TakeMetrics(s) \/ TakeLogs(s)
  PROVE  Typed'
<1> USE SessionsAssumption, TypesAreTypes DEF Typed, Types
<1>0. Located
  BY DEF Located
<1>1. CASE Authorize(s)
  BY <1>1 DEF Authorize, Numbers, Enrolled
<1>2. CASE DrawId(s)
  BY <1>2 DEF DrawId, FetchAdd, Numbers
<1>3. CASE Register(s) \/ Attach(s) \/ Disconnect(s)
  <2>1. entry' \in EntryType
    BY <1>3, EntryTypes DEF Register, Attach, Disconnect
  <2>2. Located'
    BY <1>0, <1>3, HandlerGoes DEF Register, Attach, Disconnect, InEntry
  <2>3. QED
    BY <1>3, <2>1, <2>2 DEF Located, Register, Attach, Disconnect
<1>4. CASE BeginTraffic(s) \/ BeginUpdates(s) \/ EndUpdates(s) \/ EndTraffic(s)
  <2>1. control' \in Report /\ updates' \in Report
    <3>1. Begun(control, id[s]) \in Report /\ Begun(updates, id[s]) \in Report
      BY ReportTypes
    <3>2. QED
      BY <1>4, <3>1, ReportTypes DEF BeginTraffic, BeginUpdates, EndUpdates, EndTraffic
  <2>2. Located'
    BY <1>0, <1>4, HandlerGoes DEF BeginTraffic, BeginUpdates, EndUpdates, EndTraffic, InEntry
  <2>3. QED
    BY <1>4, <2>1, <2>2 DEF Located, BeginTraffic, BeginUpdates, EndUpdates, EndTraffic
<1>5. CASE ReportUpdate(s)
  BY <1>5, ReportTypes DEF ReportUpdate, Numbers
<1>6. CASE Leave(s) \/ Close(s) \/ TakeMetrics(s) \/ TakeLogs(s) \/ UpdateSnapshot(s)
  <2>1. Located'
    BY <1>0, <1>6, HandlerGoes DEF Leave, Close, TakeMetrics, TakeLogs, UpdateSnapshot, InEntry
  <2>2. QED
    BY <1>6, <2>1 DEF Located, Leave, Close, TakeMetrics, TakeLogs, UpdateSnapshot
<1>7. CASE RecordTraffic(s) \/ RecordLogs(s)
  <2>1. ledger' \in Enrolled /\ logs' \in Enrolled /\ control' \in Report
    BY <1>7, ReportTypes DEF RecordTraffic, RecordLogs, Enrolled
  <2>2. Located'
    BY <1>0, <1>7, HandlerGoes DEF RecordTraffic, RecordLogs, InEntry
  <2>3. QED
    BY <1>7, <2>1, <2>2 DEF Located, RecordTraffic, RecordLogs
<1>8. QED
  BY <1>1, <1>2, <1>3, <1>4, <1>5, <1>6, <1>7 DEF Handle

LEMMA OtherTypes ==
  ASSUME Typed, Reap \/ Delete \/ LoseNode \/ Enrol \/ OtherWrite \/ Poll \/ Cleanup
  PROVE  Typed'
<1> USE SessionsAssumption, EntryTypes, ReportTypes, JobTypes DEF Typed, Numbers, Enrolled
<1>0. Delete \/ OtherWrite \/ Poll => unclean' \in BOOLEAN
  BY Zenon DEF Delete, OtherWrite, Poll
<1>1. CASE Reap \/ LoseNode \/ Enrol \/ OtherWrite
  BY <1>0, <1>1, TypesAreTypes DEF Types, Reap, LoseNode, Enrol, OtherWrite
<1>2. CASE Delete \/ Poll
  <2>1. (disk # Absent) \in BOOLEAN
    OBVIOUS
  <2>2. job' \in JobType
    BY <1>2, <2>1, JobTypes DEF Delete, Poll
  <2>3. QED
    BY <1>0, <1>2, <2>2, TypesAreTypes DEF Types, Delete, Poll
<1>3. CASE Cleanup
  <2>1. job' \in JobType
    BY <1>3, TypesAreTypes DEF Types, Cleanup, ForgetRuntime, ForgetUpdates, ForgetLogs, ForgetTraffic
  <2>2. /\ entry' \in EntryType /\ updates' \in Report /\ ledger' \in Enrolled /\ logs' \in Enrolled
        /\ UNCHANGED <<registry, nextId, locals, control>>
    BY <1>3, TypesAreTypes DEF Types, Cleanup, ForgetRuntime, ForgetUpdates, ForgetLogs, ForgetTraffic, ForgottenLedger
  <2>3. QED
    BY <2>1, <2>2, TypesAreTypes DEF Types
<1>4. QED
  BY <1>1, <1>2, <1>3

-----------------------------------------------------------------------------
(* The live entry and whose reports are whose.                             *)
Shown == CommandsReachTheCurrent /\ Registrations

LEMMA HandlerShows ==
  ASSUME Typed, Shown, NEW s \in Session, Authorize(s) \/ Handle(s) \/ Close(s)
                       \/ ReportUpdate(s) \/ TakeMetrics(s) \/ TakeLogs(s)
  PROVE  Shown'
<1> USE TypesAreTypes DEF Typed, Types, Numbers, Shown, CommandsReachTheCurrent, Registrations, Goes,
                          InEntry, InControl, InUpdates, EntryType, Report
<1>1. CASE Authorize(s)
  BY <1>1 DEF Authorize
<1>2. CASE DrawId(s)
  BY <1>2 DEF DrawId, FetchAdd
<1>3. CASE Register(s)
  BY <1>3 DEF Register, Registered
<1>4. CASE BeginTraffic(s)
  BY <1>4 DEF BeginTraffic, Begun, NewReport
<1>5. CASE BeginUpdates(s)
  BY <1>5 DEF BeginUpdates, Begun, NewReport
<1>6. CASE Attach(s)
  BY <1>6 DEF Attach, Attaches, IsCurrent
<1>7. CASE Leave(s) \/ Close(s) \/ TakeMetrics(s) \/ TakeLogs(s) \/ UpdateSnapshot(s)
  BY <1>7 DEF Leave, Close, TakeMetrics, TakeLogs, UpdateSnapshot
<1>8. CASE ReportUpdate(s)
  BY <1>8 DEF ReportUpdate
<1>9. CASE RecordTraffic(s)
  BY <1>9 DEF RecordTraffic
<1>10. CASE RecordLogs(s)
  BY <1>10 DEF RecordLogs
<1>11. CASE EndUpdates(s)
  BY <1>11 DEF EndUpdates
<1>12. CASE EndTraffic(s)
  BY <1>12 DEF EndTraffic, NoReport
<1>13. CASE Disconnect(s)
  BY <1>13 DEF Disconnect, Mine, IsCurrent, Offline
<1>14. QED
  BY <1>1, <1>2, <1>3, <1>4, <1>5, <1>6, <1>7, <1>8, <1>9, <1>10, <1>11, <1>12, <1>13 DEF Handle

LEMMA OthersShow ==
  ASSUME Typed, Shown, Reap \/ Delete \/ LoseNode \/ Enrol \/ OtherWrite \/ Poll \/ Cleanup
  PROVE  Shown'
<1> USE TypesAreTypes DEF Typed, Types, Shown, CommandsReachTheCurrent, Registrations
<1>1. CASE Reap
  BY <1>1 DEF Reap, Offline
<1>2. CASE Delete \/ LoseNode \/ Enrol \/ OtherWrite \/ Poll
  BY <1>2 DEF Delete, LoseNode, Enrol, OtherWrite, Poll
<1>3. CASE ForgetRuntime
  BY <1>3 DEF ForgetRuntime, NoEntry, Offline
<1>4. CASE ForgetUpdates
  BY <1>4 DEF ForgetUpdates, NoReport
<1>5. CASE ForgetLogs \/ ForgetTraffic
  BY <1>5 DEF ForgetLogs, ForgetTraffic
<1>6. QED
  BY <1>1, <1>2, <1>3, <1>4, <1>5 DEF Cleanup

-----------------------------------------------------------------------------
(* Removals and enrolments.                                                *)
LEMMA HandlerLeavesNothing ==
  ASSUME IInv, NEW s \in Session, Authorize(s) \/ Handle(s) \/ Close(s)
               \/ ReportUpdate(s) \/ TakeMetrics(s) \/ TakeLogs(s)
  PROVE  Jobs' /\ Afresh'
<1> USE SessionsAssumption, TypesAreTypes
        DEF IInv, Types, Numbers, Jobs, Afresh, EntryStays, Goes, IsCurrent, LogsLockFree, TrafficLockFree, InEntry, Enrolled
<1>1. CASE Authorize(s) \/ DrawId(s)
  BY <1>1 DEF Authorize, DrawId
<1>2. CASE Register(s)
  BY <1>2 DEF Register, Registered
<1>3. CASE BeginTraffic(s) \/ BeginUpdates(s)
  BY <1>3 DEF BeginTraffic, BeginUpdates
<1>4. CASE Attach(s)
  BY <1>4 DEF Attach, EntryType
<1>5. CASE Leave(s) \/ Close(s) \/ TakeLogs(s) \/ UpdateSnapshot(s) \/ ReportUpdate(s)
  BY <1>5 DEF Leave, Close, TakeLogs, UpdateSnapshot, ReportUpdate
<1>6. CASE TakeMetrics(s)
  BY <1>6 DEF TakeMetrics, TokenCurrent
<1>7. CASE RecordTraffic(s)
  BY <1>7 DEF RecordTraffic, StillAccounts
<1>8. CASE RecordLogs(s)
  BY <1>8 DEF RecordLogs, MayLog, TokenCurrent, Idle
<1>9. CASE EndUpdates(s) \/ EndTraffic(s)
  BY <1>9 DEF EndUpdates, EndTraffic
<1>10. CASE Disconnect(s)
  BY <1>10 DEF Disconnect, Mine, Offline
<1>11. QED
  BY <1>1, <1>2, <1>3, <1>4, <1>5, <1>6, <1>7, <1>8, <1>9, <1>10 DEF Handle

(* A removal goes to its next step and stays what it is.                   *)
LEMMA Continues ==
  ASSUME Typed, Jobs, job.step \in {"runtime", "updates", "logs"}, Continue
  PROVE  /\ job'.kind = job.kind /\ job'.keep = job.keep /\ job.kind \in {"delete", "reload"}
         /\ job'.step \in {"runtime", "updates", "logs", "traffic"}
         /\ job.step = "runtime" => job'.step # "runtime"
         /\ job.kind = "delete" => job'.step # "runtime"
         /\ job.kind = "delete" /\ job'.step = "traffic" <=> job.kind = "delete" /\ job.step = "logs"
         /\ Jobs'
<1> USE TypesAreTypes DEF Typed, Types, Jobs, JobType, Continue
<1>1. job.kind \in {"delete", "reload"}
  BY DEF Idle
<1>2. CASE job.kind = "delete"
  BY <1>2 DEF After, Idle
<1>3. CASE job.kind = "reload"
  BY <1>3 DEF After, Idle
<1>4. QED
  BY <1>1, <1>2, <1>3

LEMMA OthersLeaveNothing ==
  ASSUME IInv, Reap \/ Delete \/ LoseNode \/ Enrol \/ OtherWrite \/ Poll \/ Cleanup
  PROVE  Jobs' /\ Afresh'
<1> USE SessionsAssumption, TypesAreTypes
        DEF IInv, Types, Numbers, Jobs, Afresh, EntryStays, IsCurrent, LogsLockFree, TrafficLockFree, InEntry, Enrolled
<1>1. CASE Reap
  BY <1>1 DEF Reap, Offline
<1>2. CASE Delete
  BY <1>2 DEF Delete, Idle
<1>3. CASE LoseNode
  BY <1>3 DEF LoseNode
<1>4. CASE Enrol
  BY <1>4 DEF Enrol
<1>5. CASE OtherWrite
  <2>1. ~unclean' => ~unclean /\ mem = Absent
    BY <1>5, Zenon DEF OtherWrite
  <2>2. QED
    BY <1>5, <2>1 DEF OtherWrite
<1>6. CASE Poll
  BY <1>6 DEF Poll, Idle
<1>7. CASE ForgetRuntime
  BY <1>7, Continues DEF ForgetRuntime, Typed, NoEntry, Offline
<1>8. CASE ForgetUpdates
  BY <1>8, Continues DEF ForgetUpdates, Typed
<1>9. CASE ForgetLogs
  <2>1. /\ job'.kind = job.kind /\ job'.keep = job.keep /\ job.kind \in {"delete", "reload"} /\ Jobs'
        /\ job'.step \in {"runtime", "updates", "logs", "traffic"}
        /\ job.kind = "delete" => job'.step = "traffic"
    BY <1>9, Continues DEF ForgetLogs, Typed
  <2>2. job.kind = "reload" => job'.step = "runtime"
    BY <1>9 DEF ForgetLogs, Continue, After, JobType
  <2>3. UNCHANGED <<unclean, mem, ledger, pc, id, life, entry>>
    BY <1>9 DEF ForgetLogs
  <2>4. CASE job.kind = "delete"
    BY <1>9, <2>1, <2>3, <2>4 DEF ForgetLogs
  <2>5. CASE job.kind = "reload"
    BY <1>9, <2>1, <2>2, <2>3, <2>5 DEF ForgetLogs
  <2>6. QED
    BY <2>1, <2>4, <2>5
<1>10. CASE ForgetTraffic
  BY <1>10 DEF ForgetTraffic, ForgottenLedger, Idle, JobType
<1>11. QED
  BY <1>1, <1>2, <1>3, <1>4, <1>5, <1>6, <1>7, <1>8, <1>9, <1>10 DEF Cleanup

-----------------------------------------------------------------------------
LEMMA NextPreserves == IInv /\ [Next]_vars => IInv'
<1> SUFFICES ASSUME IInv, [Next]_vars PROVE IInv'
  OBVIOUS
<1> USE DEF Typed, Shown
<1>1. ASSUME NEW s \in Session, Authorize(s) \/ Handle(s) \/ Close(s)
                                \/ ReportUpdate(s) \/ TakeMetrics(s) \/ TakeLogs(s)
      PROVE  IInv'
  BY <1>1, HandlerTypes, HandlerShows, HandlerLeavesNothing DEF IInv
<1>2. CASE Reap \/ Delete \/ LoseNode \/ Enrol \/ OtherWrite \/ Poll \/ Cleanup
  BY <1>2, OtherTypes, OthersShow, OthersLeaveNothing DEF IInv
<1>3. CASE UNCHANGED vars
  BY <1>3 DEF IInv, TypeOK, Numbers, CommandsReachTheCurrent, Registrations, Jobs, Afresh, EntryStays,
              IsCurrent, LogsLockFree
<1>4. QED
  BY <1>1, <1>2, <1>3 DEF Next

LEMMA Invariance == Spec => []IInv
BY InitEstablishes, NextPreserves, PTL DEF Spec

(* The traffic lock is free between removals only, and a session that has  *)
(* returned is none of those a report is still shown for.                  *)
LEMMA LeavesNothing == IInv => NothingLeftBehind
<1> SUFFICES ASSUME IInv PROVE NothingLeftBehind
  OBVIOUS
<1>1. NoSessionLeftBehind
  BY DEF IInv, Numbers, Registrations, NoSessionLeftBehind, InEntry, InControl, InUpdates
<1>2. LedgerStartsAfresh /\ NoLogsWithoutNode
  BY DEF IInv, Jobs, Afresh, Idle, LedgerStartsAfresh, NoLogsWithoutNode, TrafficLockFree
<1>3. QED
  BY <1>1, <1>2 DEF IInv, NothingLeftBehind

(* TypeCorrect: every variable keeps its type and no two handlers draw the *)
(* same number (SharedState.next_session_id), for any number of handlers.  *)
THEOREM TypeCorrect == Spec => []TypeOK
<1>1. IInv => TypeOK
  BY DEF IInv
<1>2. QED
  BY <1>1, Invariance, PTL

(* CleanSlate: neither a session nor a removed node leaves anything behind *)
(* that a later one would be taken for, whatever way the handlers, the     *)
(* removals and the registry's writes and reloads come to interleave       *)
(* (handshake.rs, session.rs, agent_delete.rs, background.rs).             *)
THEOREM CleanSlate == Spec => []NothingLeftBehind
BY Invariance, LeavesNothing, PTL
===============================================================================
