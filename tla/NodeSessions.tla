----------------------------- MODULE NodeSessions -----------------------------
(***************************************************************************)
(* One node between its enrolment and its removal: the registry's entry on *)
(* disk and in memory, the live entry browsers see (state/registry.rs),    *)
(* the sessions of its agent (ws/handshake.rs, ws/session.rs), and what    *)
(* they leave behind: logs, the traffic ledger, traffic control and update *)
(* reports.  An operator deletes the node (handlers/settings/              *)
(* agent_delete.rs) and enrols it again under the same name while sessions *)
(* are anywhere in their handlers; a poller picks up what other processes  *)
(* did to the file (background.rs).                                        *)
(*                                                                         *)
(* A credential belongs to one enrolment of the node; its renewal is in    *)
(* CredentialRenewal.  An enrolment is a name, given again once nothing    *)
(* remembers it.                                                           *)
(***************************************************************************)
EXTENDS Integers

CONSTANTS
  Session,     \* handlers of agent connections
  Enrolment,   \* names for the enrolments of the node
  Absent,      \* no enrolment
  MaxLost      \* bound: removals from the file by something else than a
               \* deletion that completes its write

ASSUME SessionsAssumption == Absent \notin Enrolment /\ MaxLost \in Nat

VARIABLES
  disk, mem,     \* the node's enrolment in the file and in memory
  lost,          \* lost removals so far
  unclean,       \* ghost: memory has moved on from an enrolment that nobody cleans up after
  entry,         \* NodeEntry of state/registry.rs
  nextId,        \* SharedState.next_session_id
  pc, id, life,  \* each handler: where it is, session_id, enrolment of its token
  control,       \* TrafficControlStatuses of the node
  updates,       \* AgentUpdates of the node
  ledger, logs,  \* the enrolment a traffic baseline and a log buffer stem from
  job            \* the removal in progress, which holds the lifecycle locks

registry == <<disk, mem, lost, unclean>>
locals == <<pc, id, life>>
reports == <<control, updates>>
traces == <<ledger, logs>>
vars == <<registry, entry, nextId, locals, reports, traces, job>>

-----------------------------------------------------------------------------
Offline == [known |-> TRUE, online |-> FALSE, active |-> 0, control |-> 0]
Registered(i) == [known |-> TRUE, online |-> TRUE, active |-> i, control |-> 0]
NoEntry == [Offline EXCEPT !.known = FALSE]

NoReport == [id |-> 0, online |-> FALSE, reported |-> FALSE]
NewReport(i) == [id |-> i, online |-> TRUE, reported |-> FALSE]

Idle == [step |-> "idle", kind |-> "none", keep |-> FALSE]

(* is_current_session, and a token of the enrolment in memory.             *)
IsCurrent(s) == entry.active = id[s]
TokenCurrent(s) == life[s] = mem

(* The two lifecycle locks: a deletion gives the second one back early.    *)
TrafficLockFree == job.step = "idle"
LogsLockFree == job.step = "idle" \/ (job.kind = "delete" /\ job.step = "traffic")

Goes(s, step) == pc' = [pc EXCEPT ![s] = step] /\ UNCHANGED <<id, life>>

-----------------------------------------------------------------------------
Init ==
  /\ disk \in Enrolment /\ mem = disk /\ lost = 0 /\ unclean = FALSE
  /\ entry = NoEntry
  /\ nextId = 1
  /\ pc = [s \in Session |-> "none"]
  /\ id = [s \in Session |-> 0]
  /\ life = [s \in Session |-> Absent]
  /\ control = NoReport /\ updates = NoReport
  /\ ledger = Absent /\ logs = Absent
  /\ job = Idle

-----------------------------------------------------------------------------
(* The handshake: authorize, look the address up, draw a number, and only  *)
(* then lock the shard and become the current session.                     *)

Authorize(s) ==
  /\ pc[s] = "none"
  /\ mem # Absent
  /\ pc' = [pc EXCEPT ![s] = "authorized"]
  /\ life' = [life EXCEPT ![s] = mem]
  /\ UNCHANGED <<registry, entry, nextId, id, reports, traces, job>>

LoadOnly == nextId
FetchAdd == nextId + 1

DrawId(s) ==
  /\ pc[s] = "authorized"
  /\ pc' = [pc EXCEPT ![s] = "numbered"]
  /\ id' = [id EXCEPT ![s] = nextId]
  /\ nextId' = FetchAdd
  /\ UNCHANGED <<registry, entry, life, reports, traces, job>>

Register(s) ==
  /\ pc[s] = "numbered"
  /\ entry' = Registered(id[s])
  /\ Goes(s, "registered")
  /\ UNCHANGED <<registry, nextId, reports, traces, job>>

(* Reports belong to the session with the highest number that has begun.   *)
Begun(r, i) == IF i > r.id THEN NewReport(i) ELSE r

BeginTraffic(s) ==
  /\ pc[s] = "registered"
  /\ control' = Begun(control, id[s])
  /\ Goes(s, "counted")
  /\ UNCHANGED <<registry, entry, nextId, updates, traces, job>>

BeginUpdates(s) ==
  /\ pc[s] = "counted"
  /\ updates' = Begun(updates, id[s])
  /\ Goes(s, "begun")
  /\ UNCHANGED <<registry, entry, nextId, control, traces, job>>

AttachesAnyway(s) == TRUE
Attaches(s) == IsCurrent(s)

Attach(s) ==
  /\ pc[s] = "begun"
  /\ IF Attaches(s)
       THEN entry' = [entry EXCEPT !.control = id[s]] /\ Goes(s, "open")
       ELSE UNCHANGED entry /\ Goes(s, "ending")
  /\ UNCHANGED <<registry, nextId, reports, traces, job>>

-----------------------------------------------------------------------------
(* The session.                                                            *)

(* A frame or a ping tick finds another session current, or the token      *)
(* gone.                                                                   *)
IgnoresRevocation(s) == ~IsCurrent(s)
MustLeave(s) == ~IsCurrent(s) \/ ~TokenCurrent(s)

Leave(s) ==
  /\ pc[s] = "open"
  /\ MustLeave(s)
  /\ Goes(s, "ending")
  /\ UNCHANGED <<registry, entry, nextId, reports, traces, job>>

(* The agent leaves, the connection fails, or the server shuts down.       *)
Close(s) ==
  /\ pc[s] = "open"
  /\ Goes(s, "ending")
  /\ UNCHANGED <<registry, entry, nextId, reports, traces, job>>

(* An update status, or a pong: nothing is awaited after the checks.       *)
ReportUpdate(s) ==
  /\ pc[s] = "open" /\ IsCurrent(s)
  /\ updates.id = id[s] /\ updates.online
  /\ updates' = [updates EXCEPT !.reported = TRUE]
  /\ UNCHANGED <<registry, entry, nextId, locals, control, traces, job>>

TakeMetrics(s) ==
  /\ pc[s] = "open" /\ IsCurrent(s) /\ TokenCurrent(s)
  /\ Goes(s, "sampling")
  /\ UNCHANGED <<registry, entry, nextId, reports, traces, job>>

UpdateSnapshot(s) ==
  /\ pc[s] = "sampling"
  /\ Goes(s, IF IsCurrent(s) THEN "accounting" ELSE "ending")
  /\ UNCHANGED <<registry, entry, nextId, reports, traces, job>>

(* Under the traffic lock the session is looked at again; a node that the  *)
(* registry no longer has loses its ledger instead.                        *)
AccountsAnyway(s) == TRUE
StillAccounts(s) == IsCurrent(s)

RecordTraffic(s) ==
  /\ pc[s] = "accounting"
  /\ TrafficLockFree
  /\ IF StillAccounts(s)
       THEN /\ ledger' = IF mem = Absent THEN Absent
                        ELSE IF ledger = Absent THEN life[s] ELSE ledger
            /\ Goes(s, "open")
       ELSE UNCHANGED ledger /\ Goes(s, "ending")
  /\ UNCHANGED <<registry, entry, nextId, reports, logs, job>>

TakeLogs(s) ==
  /\ pc[s] = "open" /\ IsCurrent(s)
  /\ Goes(s, "logging")
  /\ UNCHANGED <<registry, entry, nextId, reports, traces, job>>

(* Under the logs lock the token is checked.                               *)
LogsAnyway(s) == TRUE
MayLog(s) == TokenCurrent(s)

RecordLogs(s) ==
  /\ pc[s] = "logging"
  /\ LogsLockFree
  /\ IF MayLog(s)
       THEN /\ control' = IF control.id = id[s] THEN [control EXCEPT !.reported = TRUE]
                          ELSE control
            /\ logs' = IF logs = Absent THEN life[s] ELSE logs
            /\ Goes(s, "open")
       ELSE UNCHANGED <<control, logs>> /\ Goes(s, "ending")
  /\ UNCHANGED <<registry, entry, nextId, updates, ledger, job>>

(* The way out is the same however the session ended.                      *)
EndUpdates(s) ==
  /\ pc[s] = "ending"
  /\ updates' = IF updates.id = id[s] THEN [updates EXCEPT !.online = FALSE] ELSE updates
  /\ Goes(s, "uncounting")
  /\ UNCHANGED <<registry, entry, nextId, control, traces, job>>

EndTraffic(s) ==
  /\ pc[s] = "uncounting"
  /\ control' = IF control.id = id[s] THEN NoReport ELSE control
  /\ Goes(s, "leaving")
  /\ UNCHANGED <<registry, entry, nextId, updates, traces, job>>

NotMine(s) == FALSE
Mine(s) == IsCurrent(s)

Disconnect(s) ==
  /\ pc[s] = "leaving"
  /\ entry' = IF Mine(s) THEN Offline ELSE entry
  /\ Goes(s, "done")
  /\ UNCHANGED <<registry, nextId, reports, traces, job>>

(* mark_stale: the session has been silent for too long.                   *)
Reap ==
  /\ entry.online
  /\ entry' = Offline
  /\ UNCHANGED <<registry, nextId, locals, reports, traces, job>>

-----------------------------------------------------------------------------
(* The operator and the file.                                              *)

(* remove_agent takes both locks and removes the node from the registry.   *)
Delete ==
  /\ job = Idle
  /\ disk # Absent
  /\ disk' = Absent /\ mem' = Absent
  /\ job' = [step |-> "runtime", kind |-> "delete", keep |-> FALSE]
  /\ unclean' = FALSE
  /\ UNCHANGED <<lost, entry, nextId, locals, reports, traces>>

(* The removal is in the file, but its write has returned an error before  *)
(* memory was changed; or somebody else has removed the node.              *)
LoseNode ==
  /\ disk # Absent
  /\ lost < MaxLost
  /\ lost' = lost + 1
  /\ disk' = Absent
  /\ UNCHANGED <<mem, unclean, entry, nextId, locals, reports, traces, job>>

(* issue-node for a node the file does not have.                           *)
Remembered ==
  {mem, ledger, logs} \cup {life[s] : s \in {t \in Session : pc[t] # "done"}}

Enrol ==
  /\ disk = Absent
  /\ disk' \in Enrolment \ Remembered
  /\ UNCHANGED <<mem, lost, unclean, entry, nextId, locals, reports, traces, job>>

(* Any other mutation of the registry installs the file as it finds it,    *)
(* and so does the reload after issue_node; neither cleans up.             *)
OtherWrite ==
  /\ mem # disk
  /\ mem' = disk
  /\ unclean' = (unclean \/ mem # Absent)
  /\ UNCHANGED <<disk, lost, entry, nextId, locals, reports, traces, job>>

(* The poller loads a file it does not know, under both locks, and cleans  *)
(* up if that has changed the memory: after nodes the file does not list,  *)
(* not after one that was issued again.                                    *)
Poll ==
  /\ job = Idle
  /\ mem # disk
  /\ mem' = disk
  /\ unclean' = (disk # Absent /\ (unclean \/ mem # Absent))
  /\ job' = [step |-> "logs", kind |-> "reload", keep |-> disk # Absent]
  /\ UNCHANGED <<disk, lost, entry, nextId, locals, reports, traces>>

(* What a removal does next: a deletion clears the live entry before the   *)
(* logs, a reload after them and only for nodes that are listed.           *)
After(step) ==
  CASE step = "runtime" -> IF job.kind = "delete" \/ entry.known THEN "updates" ELSE "traffic"
    [] step = "updates" -> IF job.kind = "delete" THEN "logs" ELSE "traffic"
    [] step = "logs" -> IF job.kind = "delete" THEN "traffic" ELSE "runtime"

Continue == job' = [job EXCEPT !.step = After(job.step)]

ForgetRuntime ==
  /\ job.step = "runtime"
  /\ entry' = IF job.keep THEN entry ELSE NoEntry
  /\ Continue
  /\ UNCHANGED <<registry, nextId, locals, reports, traces>>

ForgetUpdates ==
  /\ job.step = "updates"
  /\ updates' = IF job.keep THEN updates ELSE NoReport
  /\ Continue
  /\ UNCHANGED <<registry, entry, nextId, locals, control, traces>>

(* A deletion asks the registry again which nodes there are.               *)
ForgetLogs ==
  /\ job.step = "logs"
  /\ logs' = IF job.keep \/ (job.kind = "delete" /\ mem # Absent) THEN logs ELSE Absent
  /\ Continue
  /\ UNCHANGED <<registry, entry, nextId, locals, reports, ledger>>

ForgottenByDeletion == IF job.keep \/ job.kind = "reload" THEN ledger ELSE Absent
ForgottenLedger == IF job.keep THEN ledger ELSE Absent

ForgetTraffic ==
  /\ job.step = "traffic"
  /\ ledger' = ForgottenLedger
  /\ job' = Idle
  /\ UNCHANGED <<registry, entry, nextId, locals, reports, logs>>

-----------------------------------------------------------------------------
Handle(s) ==
  \/ DrawId(s) \/ Register(s) \/ BeginTraffic(s) \/ BeginUpdates(s) \/ Attach(s)
  \/ Leave(s) \/ UpdateSnapshot(s) \/ RecordTraffic(s) \/ RecordLogs(s)
  \/ EndUpdates(s) \/ EndTraffic(s) \/ Disconnect(s)

Cleanup == ForgetRuntime \/ ForgetUpdates \/ ForgetLogs \/ ForgetTraffic

Next ==
  \/ \E s \in Session :
       \/ Authorize(s) \/ Handle(s) \/ Close(s)
       \/ ReportUpdate(s) \/ TakeMetrics(s) \/ TakeLogs(s)
  \/ Reap \/ Delete \/ LoseNode \/ Enrol \/ OtherWrite \/ Poll
  \/ Cleanup

Spec == Init /\ [][Next]_vars

(* Handlers run, a ping tick visits every open session, the poller ticks   *)
(* every second and a removal, once begun, is a task of its own.  The      *)
(* lifecycle locks are handed over in the order of requests.               *)
Fairness ==
  /\ \A s \in Session : /\ WF_vars(Handle(s))
                        /\ SF_vars(RecordTraffic(s)) /\ SF_vars(RecordLogs(s))
  /\ SF_vars(Poll) /\ WF_vars(Cleanup)
FairSpec == Spec /\ Fairness

-----------------------------------------------------------------------------
(* TypeOK: every variable holds a value of its kind, and no two sessions   *)
(* have the same number.                                                   *)
Enrolled == Enrolment \cup {Absent}
Report == [id : Nat, online : BOOLEAN, reported : BOOLEAN]

TypeOK ==
  /\ disk \in Enrolled /\ mem \in Enrolled /\ lost \in 0..MaxLost /\ unclean \in BOOLEAN
  /\ entry \in [known : BOOLEAN, online : BOOLEAN, active : Nat, control : Nat]
  /\ nextId \in Nat \ {0}
  /\ pc \in [Session -> {"none", "authorized", "numbered", "registered", "counted", "begun",
                         "open", "sampling", "accounting", "logging",
                         "ending", "uncounting", "leaving", "done"}]
  /\ id \in [Session -> Nat] /\ life \in [Session -> Enrolled]
  /\ control \in Report /\ updates \in Report
  /\ ledger \in Enrolled /\ logs \in Enrolled
  /\ job \in [step : {"idle", "runtime", "updates", "logs", "traffic"},
              kind : {"none", "delete", "reload"}, keep : BOOLEAN]
  /\ \A s, t \in Session : id[s] = id[t] /\ id[s] # 0 => s = t

(* CommandsReachTheCurrent: the channel commands are sent through is the   *)
(* current session's, and a node without a session is shown offline        *)
(* (register_session and mark_stale reset all three together).             *)
CommandsReachTheCurrent ==
  /\ entry.control \in {0, entry.active}
  /\ entry.online <=> entry.active # 0

(* NoSessionLeftBehind: a handler that has returned is no longer the current *)
(* session, and nothing it has reported is shown as live (handshake.rs     *)
(* undoes its three registrations whatever made the session end).          *)
NoSessionLeftBehind ==
  \A s \in Session : pc[s] = "done" =>
    /\ entry.active # id[s]
    /\ control.id # id[s]
    /\ ~(updates.online /\ updates.id = id[s])

(* LedgerStartsAfresh: between removals a node is only ever charged from a *)
(* baseline of its present enrolment, although an older session may have   *)
(* been waiting for the ledger (docs/traffic-accounting.md: usage starts   *)
(* from the first report of the new host).  Excepted is what nobody cleans *)
(* up after: see RemovedNodeIsCleaned.                                     *)
LedgerStartsAfresh == TrafficLockFree /\ ~unclean => ledger \in {Absent, mem}

(* NoLogsWithoutNode: no log buffer is left, or comes back, for a node the *)
(* registry does not have (session.rs checks the token under the lock),    *)
(* with the same exception.                                                *)
NoLogsWithoutNode == LogsLockFree /\ mem = Absent /\ ~unclean => logs = Absent

(* NothingLeftBehind: commands go to the current session only, and neither *)
(* a session nor a removed node leaves anything behind that a later one    *)
(* would be taken for.                                                     *)
NothingLeftBehind ==
  CommandsReachTheCurrent /\ NoSessionLeftBehind /\ LedgerStartsAfresh /\ NoLogsWithoutNode

(* RevokedOrSupersededEnds: an open session that is no longer the current  *)
(* one, or whose node was removed, comes to its end.                       *)
RevokedOrSupersededEnds ==
  \A s \in Session :
    pc[s] = "open" /\ (~IsCurrent(s) \/ ~TokenCurrent(s)) ~> pc[s] = "done"

(* RemovedNodeIsCleaned: the ledger and the logs of a node the registry no *)
(* longer has are cleared, by the deletion or by the reload that finds the *)
(* node missing, whoever removed it from the file (background.rs;          *)
(* docs/traffic-accounting.md: reloading the registry also cleans up       *)
(* removed nodes).  Excepted are nodes whose removal another write, or a   *)
(* reload that found the name issued again, has brought into memory.       *)
RemovedNodeIsCleaned ==
  mem = Absent ~> mem # Absent \/ unclean \/ (ledger = Absent /\ logs = Absent)

(* SessionsAndRemovalsEnd: both come to their end, although nobody tells a *)
(* handler and whatever it is waiting for (session.rs, background.rs).     *)
SessionsAndRemovalsEnd == RevokedOrSupersededEnds /\ RemovedNodeIsCleaned
===============================================================================
