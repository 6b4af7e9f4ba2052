# NodeLite in TLA+

NodeLite monitors machines: an **agent** on every node reports metrics over a
WebSocket to one **server**, which keeps a registry of enrolled nodes, their
live state, history, traffic ledgers and alerts, and shows them to browsers; a
separate **updater** replaces the agent's binary from signed releases. This
directory holds TLA+ models of the parts of NodeLite whose correctness depends
on the order in which things happen, the TLC configurations that check them on
small instances, and proofs that TLAPS checks for instances of every size.

Paths below are relative to `src/`; `S/` is `nodelite-server/src/`, `A/` is
`nodelite-agent/src/`, `U/` is `nodelite-updater/src/`, `W/` is
`nodelite-server/web/src/`.

## Contents

1. [Inventory of the system](#inventory-of-the-system)
2. [Modules and plan](#modules-and-plan)
3. [RegistryStore](#registrystore)
4. [CredentialRenewal](#credentialrenewal)
5. [NodeSessions](#nodesessions)
6. [NodeLocations](#nodelocations)
7. [TrafficLedger and TrafficThrottle](#trafficledger-and-trafficthrottle)
8. [AlertNotices](#alertnotices)
9. [BrowserViews](#browserviews)
10. [ServerStop](#serverstop)
11. [History: HistoryQueries and HistorySchema](#history-historyqueries-and-historyschema)
12. [DailyInspection](#dailyinspection)
13. [ChannelReplies](#channelreplies)
14. [AuditTrail](#audittrail)
15. [AdminAccess](#adminaccess)
16. [AuthFailures and ConnectionAdmission](#authfailures-and-connectionadmission)
17. [InstallBootstrap](#installbootstrap)
18. [UpdaterActivation](#updateractivation)
19. [ServerSettings](#serversettings)
20. [SessionCommands](#sessioncommands)
21. [UpdateRequests](#updaterequests)
22. [AgentLogs](#agentlogs)
23. [What is proved](#what-is-proved)
24. [Where the code and its documentation differ](#where-the-code-and-its-documentation-differ)
25. [What is not modelled](#what-is-not-modelled)
26. [Running the checks](#running-the-checks)

## Inventory of the system

| Part | State | Operations | What makes it correct |
|---|---|---|---|
| Node registry (`S/registry/storage*`, `lifecycle.rs`, `issue.rs`) | one JSON file with a version; a copy in memory with a revision; the poller's fingerprint | issue, install, remove, edit, renew; reload; publication by rename under a flock, with retries | no acknowledged mutation is lost; memory never goes back to an older file; a skipped reload misses nothing |
| Credentials (`S/registry/renewal.rs`, `auth.rs`, `S/ws/refresh.rs`, `A/session/connection.rs`, `A/config_io.rs`) | current, previous (in grace) and staged tokens of a node, with generations; the agent's token in memory and on disk | stage, send, save, acknowledge, activate, adopt, reissue, activate a saved token on hello | the agent is never locked out; nothing is activated before it is durable; revoked stays revoked |
| Token verification (`S/registry/auth.rs`) | cache of verified tokens by registry revision; Argon2 permits | verify, cache, clear | no verdict of an older registry is used; permits return |
| Live state and sessions (`S/state*`, `S/ws/handshake.rs`, `S/ws/session.rs`) | per node: the current session, whether online, its command channel; the session counter | register, attach, update, disconnect, reap, remove | one current session; old handlers disturb nothing of newer ones; a removed node's sessions end |
| Session commands (`S/state/session_control.rs`, `S/ws/refresh.rs`) | bounded queue, permits by kind of command, one-shot replies | enqueue, handle, reply, time out | every caller is answered; a permit is given back exactly once |
| Browsers (`S/ws/browser.rs`, `S/state/browser_broadcast.rs`, `view_cache.rs`) | broadcast channel, per-browser position, cached views | subscribe, full view, delta, lag, resynchronise | a browser converges on the state without a gap |
| Traffic ledger (`S/history/traffic*`) | per node: month, baseline, usage, high-water mark; dirty set; writer | account, reset, flush, retry, forget | usage neither counted twice nor decreasing; a deletion is not overwritten |
| Traffic control (`S/traffic_control.rs`, `S/ws/traffic_quota.rs`, `A/traffic_control.rs`) | desired rate, last rate sent, rate applied | decide, send, apply, clear | the agent converges on the decision |
| History (`S/history*`) | bounded write queue, SQLite, query cache | enqueue, batch, prune, query | accepted samples are written or counted as dropped |
| Alerts (`S/alerts/*`) | per rule and node: pending, firing, cooldown; delivery queue per channel | evaluate, fire, resolve, deliver, retry, drain | one notice per transition and channel; a failing channel does not starve others |
| Admission (`S/admission.rs`) | counters per address and in total | acquire, upgrade, drop a lease | limits hold; every lease is returned |
| Agent session (`A/session*`, `A/runtime.rs`) | connection, deadlines, backoff, report schedule | connect, report, answer pings, refresh, leave | it reconnects; a dead peer is noticed |
| Agent updates (`S/agent_updates.rs`, `A/remote_update.rs`, `U/*`) | per node: pending request, cooldown, status; updater journal, versions on disk | request, download, verify, activate, confirm, roll back, recover | one working version whatever stops when |
| Audit, agent logs (`S/audit/*`, `S/agent_logs.rs`) | bounded queues and ring buffers | append, evict, flush, forget | budgets hold; logs of removed nodes go |
| Start, stop (`S/startup*`, `S/snapshot.rs`) | tasks, cancellation, time limits | load, serve, drain, save | what was accepted is saved or reported |
| Authentication of administrators (`S/auth*`, `S/passkeys.rs`) | sessions, used codes, passkeys, ceremonies, credentials in force | log in, confirm, enrol, change credentials | no session outlives its credentials; no factor serves twice |
| Settings (`S/handlers/settings/*`, `nodelite-proto/src/config/`) | the file, the settings in force, a transaction | validate, replace a section, rename, swap; load | what is in force is what a restart loads |
| Locations (`S/geoip*`) | database, service cache, overrides, live and saved locations | look up, override, refresh, restart | each location is of the node's own address |
| Collectors, TLS, wire types, web UI | — | input and output, cryptography, encoding, rendering | mostly sequential or pure |

How they meet. A handshake goes from the registry (authorize, activate a saved
token) to the live state (register) to traffic control and agent updates
(begin). A session's messages pass the live state and the registry's revision
before they reach history, ledger or logs. The operator's handlers mutate the
registry file, then undo what the node has in the live state, logs and ledger,
under two *lifecycle locks* that sessions take as well. The poller
(`S/background.rs`) reloads the file every second and cleans up after nodes
that others have removed. The command line writes the same file from another
process.

What is hard. Tokio tasks interleave at every `.await`, and most checks are
made before one and acted on after; the registry file has several writers in
several processes and no lock is held while it is read; writes can be reported
as failed although they have taken effect; messages are lost with their
connection; both sides crash; identities (session numbers, generations, node
names) are reused. `PROJECT.json` lists these hazards one by one, at the line
where they bite, with the property that would notice.

## Modules and plan

| Module | Part | Checked by |
|---|---|---|
| `RegistryStore` | the registry file and its copy in memory | `registry_store`, `registry_store_live` |
| `RegistryService` | what the registry promises (abstract) | implemented by `RegistryStore`: checked and proved |
| `CredentialRenewal` | renewal of one credential, both sides | `connections`, `credential_renewal_live` |
| `CredentialRecreate` | the same, with deletion and re-creation | `credential_recreate_activation` |
| `NodeLocations` | where nodes are: lookups, refreshes, overrides, restarts | `connections` |
| `NodeSessions` | sessions of a node against its removal | `records`, `node_sessions_live` |
| `HistoryQueries` | questions about history: permits, buckets, cache | `records` |
| `HistorySchema` | the start of the history database and its migrations | `records` |
| `DailyInspection` | the daily report over many queries | `records` |
| `ChannelReplies` | replies of webhooks and mail servers, in pieces | `records` |
| `AuditTrail` | the audit log as it is kept and read | `records` |
| `TrafficLedger` | monthly accounting over resets, reboots and lost writes | `telemetry` |
| `TrafficThrottle` | from a quota to the kernel's filters | `telemetry`, `throttle_route` |
| `AlertNotices` | rule states, daily summaries, queues and retries per channel | `telemetry`, `alert_resolution` |
| `BrowserViews` | subscription, lag, resynchronisation and polls of browsers | `telemetry` |
| `ServerStop` | snapshots, bounded queues with writers, shutdown | `telemetry` |
| `AdminAccess` | administrators' sessions, second factors, changes of credentials | `access` |
| `AuthFailures` | the table of failed authentications (operators) | `access` |
| `ConnectionAdmission` | connection slots, token verification and its cache | `access` |
| `InstallBootstrap` | one-time install tokens, registry edits, older files put back | `access` |
| `UpdaterActivation` | the updater's journal, trials, rollbacks and recovery | `operations` |
| `ServerSettings` | the configuration file and the settings in force | `operations` |
| `SessionCommands` | what is asked of a session, and its answers | `operations` |
| `UpdateRequests` | an update asked of an agent, and what is heard of it | `operations` |
| `AgentLogs` | diagnostic lines from the agents' buffers to the server's | `operations` |
| `RegistryStoreProofs`, `CredentialRenewalProofs`, `NodeSessionsProofs`, `UpdaterActivationProofs` | theorems about the module each is named after | TLAPS |
| `LiveStateProofs` | theorems about `ServerStop` and `BrowserViews` | TLAPS |
| `HistoryProofs` | theorems about `HistorySchema` and `TrafficLedger` | TLAPS |
| `AccessProofs` | theorems about `InstallBootstrap`, `AdminAccess` and `ConnectionAdmission` | TLAPS |
| `OperationsProofs` | theorems about `SessionCommands`, `UpdateRequests` and `ServerSettings` | TLAPS |

`MC…` modules instantiate modules for TLC: a symmetry set, or a composition of
several components of which a behaviour follows one, its `focus`, while the
others rest in an initial state. A focus may also be one *part* of a
component that shares nothing with the other parts (the snapshot and the queues
of `ServerStop`, for instance), which keeps the sum of the state spaces small
where their product would not be. Interchangeable clients, connections and
tokens are taken in order (`InOrder`), which is symmetry reduction by hand,
because some of them are also values of other variables.

Each module declares its parameters as constants with a named assumption, has
one action per operation or per stretch of code between two awaits, and all but
`HistoryQueries` contain no recursive operator, so that they can be proved about. Next to some guards and
helpers stands a second, faulty form of the same operator (`AnyBase` beside
`SameBase`, `BillsAll` beside `BillableDelta`): `PROJECT.json` lists which
property notices when it is used instead.

What the plan has left: theorems about `NodeLocations`, `AlertNotices` and
`AuditTrail`, whose properties are only model-checked.

## RegistryStore

**Code.** `S/registry/storage.rs`, `storage/write.rs`, `lifecycle.rs`, parts of
`issue.rs` and `migration.rs`.

**State.** `disk` is the file every process sees and `durable` what is left of
it after a power loss: a rename is volatile until its directory is synced. A
file is its version, the set of mutations that made it (`log`) and an identity
that stands for the fingerprint (inode and mtime). `lock` is the flock, `mem`
the copy in `NodeRegistry.state`, `checkpoint` the reload fingerprint. Each
process has its program counter and locals: the guard it took, the base it
read, its mutation, the attempts made, the fingerprint seen.

**Actions.** `BeginWrite`, `Prepare` (the lockless read and the mutation on a
copy), `LockAndCheck`, `Conflict`, `Publish` and `PublishFails`
follow `mutate_registry_file_sync` and `commit_prepared_registry_write_with_sync`.
`PrepareNothing` is an install token that is not there, `Refuse` an error of
the mutation. `BeginReload`, `ReloadGuard` and `Load` are
`reload_if_file_changed` and `reload_from_disk`, including the rewrite of a
legacy or expired file; `Apply` is `apply_loaded_state`. `ServerCrash` and
`HostCrash` may happen at any time.

**Abstractions.** What a mutation does to the nodes is its identity only, which
is what makes a lost update visible. The file grows only: an administrator who
puts an old file back, which the guard exists for, is modelled in
`InstallBootstrap`. Without one the guard never refuses a file, which is a part of
`MemoryStaysTrue` (`NoFalseDivergence`), and so the refusals are no actions here. In the code the poller, and the reload after an
installation, exclude each other through a lifecycle lock; here they may
interleave, which allows more behaviours and none less.

| Run | Instance | Shows |
|---|---|---|
| `registry_store` | 2 server tasks, the poller, 1 command line, 3 new mutations and 1 legacy one, 2 attempts | `AckedIsDurable`, `MemoryStaysTrue`, `MemoryMovesForward`, and that it implements `RegistryService` |
| `registry_store_live` | 1 server task, the poller, 1 command line, 2 mutations, 2 attempts | `WritesTakeEffect` (every acknowledged mutation is served in the end, and every write returns) |

Three writers of two kinds and the poller are enough for a conflict, a retry
that conflicts again (`MaxTries` = 2 instead of the code's limit), an install
that overtakes another and a reload in between; a fourth mutation lets the file
go on after any of these. About 436,000 states.

**Fairness.** Weak fairness of every process's steps: tasks run on Tokio's
executor, the poller ticks every second, the flock goes to a waiter once
released. No mutation need ever be requested and nothing need crash.
`AckedBecomesServed`, its first half, is conditional on a server that eventually stays up.

## CredentialRenewal

**Code.** On the server `S/registry/renewal.rs`, `auth.rs` (matching and token
status), `issue.rs` (reissue), `S/ws/handshake.rs`, `S/ws/refresh.rs`,
`S/ws/session.rs`; on the agent `A/session/connection.rs`, `A/config_io.rs`.

**State.** `node` is the node's entry in the registry file, `view` the same
entry in memory; each has a current credential, the previous one during its
grace, and staged candidates. `sess` holds each connection's `ActiveSession`
and where its handler is; `active` is the session that is current in the live
state; `toAgent` and `toServer` the renewal frames in flight. The agent has its
token in memory (`mem`), in its file (`disk`) and as the file survives a crash
of its host (`durable`), a connection (`link`) and the blocking write that may
outlive the session that started it (`task`).

**Actions.** The handshake is `Hello`, `Authorize`, `ActivateSaved` (and its
failures), `AuthorizeAgain`, `Register`. A renewal is `TickRefresh` or
`ManualRefresh`, `BeginStage` (the precheck), `Stage`, `Send`; on the agent
`Receive`, `Rename`, `Synced` or `WriteFails`; then `TakeAck`, `Commit` and
`Adopt`. Each boundary is an `.await` of the code. A write may fail after it
has replaced the file (`StageFails`, `ActivationFails`); the agent's
configuration may be unreadable (`ConnectUnloaded`); server, agent and host
crash. `Reissue` changes the file only; `Reload` brings it to memory;
`Reinstall` is the installer that puts the new token on the machine.

**Abstractions.** A write of the server and its installation in memory are one
step: `RegistryStore` shows that installs never go back. A token is a number in
order of generation, hashing and Argon2 are left out. A request of the agent
for a refresh has the guard of `TickRefresh` and is not a separate action. An
expired candidate being dropped, the expiry of the current credential as such
and agents that cannot acknowledge are left out.

| Run | Instance | Shows |
|---|---|---|
| `connections`, focus `renewal` | 2 connections, 2 candidates, 4 tokens, reissues up to the 3rd, 2 faults | `SavedTokenAccepted`; `SessionsKnowTheirTokens` (generations are distinct, a current session's token is valid, the acknowledged candidate is the saved one); `TokensOnlyAdvance` (activated only when durable, revoked stays revoked) |
| `credential_renewal_live` | 2 connections, 3 tokens, a reissue, 1 fault | `RenewalCompletes` |
| `credential_recreate_activation` | 2 connections, 4 tokens, reissues and re-creations, no fault | a counterexample, see below |

Bounds: two connections are an old session and its successor; the limit of two
candidates is reached (the code's is eight); four tokens allow a renewal
inside a renewal and a reissue; two faults allow one that hides the other (a
failed write and then a crash). `MaxQueue` = 1: renewals of a session are a
minute apart.

`RenewalCompletes` excuses `Exhausted`, the end of the supply of tokens that
the bound imposes and the code does not have.

**Fairness.** Handlers run, the poller reloads, the agent reconnects (its
backoff is bounded) and its writes return: weak fairness. Strong fairness for
`TakeAck`, `EndStale` and `TickRefresh`, because the operator's commands may
keep coming and each disables a tick for a moment: the session loop's
`select! { biased; … }` reads frames before commands and both before ticks, and
commands, one at a time through a queue and limited by permits, leave room for
ticks. Faults are bounded, and owed by nobody.

`CredentialRecreate` adds one action, deletion followed at once by a new
issue, which restarts generations at 1.

## NodeSessions

**Code.** `S/state.rs`, `S/state/registry.rs`, `S/state/registry/entry.rs`,
`S/ws/handshake.rs`, `S/ws/session.rs`, `S/traffic_control.rs`,
`S/agent_updates.rs` (begin, record, end, forget), `S/agent_logs.rs`
(forget), `S/handlers/settings/agent_delete.rs`, `S/background.rs`,
`S/app_state.rs`.

**State.** One node. `disk` and `mem` name its *enrolment* in the registry's
file and memory: deleting a node and issuing it again under the same name is
another enrolment. `entry` is the live entry; `control` and `updates` are the
node's slots in `TrafficControlStatuses` and `AgentUpdates`; `ledger` and
`logs` say which enrolment the traffic baseline and the log buffer stem from.
Each handler has its place in the code, its `session_id` and the enrolment of
its token. `job` is a removal in progress, which holds the two lifecycle locks.

**Actions.** `Authorize`, `DrawId`, `Register`, `BeginTraffic`, `BeginUpdates`
and `Attach` are `handle_agent_socket` and the start of
`run_authenticated_session`, cut where other tasks can run; `DrawId` and
`Register` are the two halves of `register_node`. In an open session metrics
are `TakeMetrics`, `UpdateSnapshot` and `RecordTraffic` (which waits for the
traffic lock), logs are `TakeLogs` and `RecordLogs` (which waits for the logs
lock), `ReportUpdate` is an update status. `Leave` is a check that fails,
`Close` every other end. `EndUpdates`, `EndTraffic` and `Disconnect` undo the
registrations. `Reap` is the stale reaper. `Delete` and `Poll` begin a removal
and the four `Forget…` actions finish it, in the order of `remove_agent` and of
`spawn_registry_reloader`, which differ. `LoseNode` is a removal that reached
the file only: by a write that failed after its rename, by a command line, by
an editor. `OtherWrite` is any other mutation, which installs the file it finds;
`unclean` is the ghost of memory having moved on without a clean-up.

**Abstractions.** One node: nodes share only locks, and the shard lock is held
for single steps. Enrolment names are reused once nothing remembers them, which
keeps the state finite without a counter. The reaper may act at any time
(silence is not measured). A ledger whose writer is gone, and its later
reconciliation, belong to `TrafficLedger`.

| Run | Instance | Shows |
|---|---|---|
| `records`, focus `sessions` | 2 sessions, 3 enrolments, 1 lost removal | `CommandsReachTheCurrent`; `NothingLeftBehind` (no session, no ledger of an earlier enrolment and no logs are left of a removed node) |
| `node_sessions_live` | 2 sessions, 1 enrolment at a time, 1 lost removal | `SessionsAndRemovalsEnd`: `RevokedOrSupersededEnds`, `RemovedNodeIsCleaned` |

Two sessions are a predecessor and its successor, each anywhere in its handler;
the removal that meets both and a re-enrolment that meets one of them need two
enrolments, three when a lost removal leaves a trace of one behind. The
liveness run has a single name, so that a node is enrolled again only once its
old sessions have ended, which is all its properties need: a revoked session
compares its token with the registry's, whatever is there now, and a removal
that a new enrolment overtakes is what the safety run is about.
`LedgerStartsAfresh`, `NoLogsWithoutNode` and `RemovedNodeIsCleaned` except what
nobody cleans up after (`unclean`): a lost removal that another write has brought
into memory, so that the reload finds nothing to do (see
[below](#where-the-code-and-its-documentation-differ)), or that a reload found
only when the name had been issued again. A lost removal that a reload finds is
not excepted: there `Poll` must clean up, and does. The liveness run may
stop when the only name is still remembered and nobody may use it again, which
is the bound's doing: it does not check for deadlock.

**Fairness.** Handlers run and the ping ticker visits every open session: weak
fairness. A removal is a task of its own that outlives its request. The
lifecycle locks are Tokio mutexes, which are handed over in the order of
requests: strong fairness for the actions that wait for one (`RecordTraffic`,
`RecordLogs`, `Poll`).

## NodeLocations

**Code.** `S/geoip.rs`, `S/geoip/database.rs`, the locations of `S/sanitize.rs`
and `S/registry.rs`, `S/state/registry.rs` (register, override, refresh),
`S/handlers/settings/updates.rs`, `S/startup.rs` (the daily task),
`S/snapshot.rs`.

**State.** `database` is the file, `reader` the database that is loaded; `whois`
the client of the lookup service with its cache and the pause it was asked for;
`looks` the lookups under way; `override` what the registry has, `live` what the
live state shows, `snapshot` the file a restart reads. `conn`, `saving` and
`refresh` are the handshakes, the administrators' requests and the daily task,
each between its awaits.

**Actions.** `Authorizes`, `Lookup`, `WhoisAnswers`, `RegisterNode` and
`MarkDisconnected` are a session's; `SaveOverride` and `ShowOverride` the two
halves of an override, the registry's and the live state's; `PrepareDatabase`,
`RefreshNext`, `RefreshFound` and `RefreshLocations` the daily task, node by
node; `PersistSnapshot` and `Restart` the snapshot. A text is its kind (absent,
blank, fine, padded, bad) and coordinates are counted in half microdegrees, so
that rounding to the registry's precision shows.

| Property | Says |
|---|---|
| `LocationsHold` | a location is about the entry's own address, however late a lookup answers; the override shown is the registry's; the server accepts the snapshot it would write; local addresses are never asked about and the cache keeps its limit |

As the code has it, and excepted by name (`crossed`): two saves of an override
that cross each other, or a save that crosses a handshake, leave the older
override in the live state until the next session or restart. And when the
current month's database cannot be downloaded, an older month's release may
replace a newer file.

**Run `connections`.** `CredentialRenewal` in one focus, the locations in two.
In `addresses` a node reconnects from other addresses while the database is
refreshed; in `overrides` two administrators save while the server restarts.
Two connections and two savers are the least that can cross; two override
saves, one restart, one day and a cache of one entry reach every limit.

## TrafficLedger and TrafficThrottle

**Code.** `S/history/traffic.rs`, `S/history/traffic/counters.rs`; then
`S/ws/traffic_quota.rs`, the throttle part of `S/ws/session.rs`,
`S/traffic_control.rs`, `A/traffic_control.rs`, `A/traffic_control/policy.rs`.

**The ledger.** `host` is the machine: its byte counter, whether the interface
is there, its uptime. `row` is the tracker's state for the node (baseline,
high-water mark, the time since which a lower counter has been held back);
`dirty`, `pending`, `writer` and `db` are the dirty set, what the writer holds,
and the database. `Sample` is the accounting of one metrics frame, in the order
of `advance_counters`: a counter below its baseline bills nothing, is held for
`COUNTER_REGRESSION_HOLD_SECS` and becomes the baseline only if it stays low or
the host has rebooted. `Flush`, `FlushOk`, `FlushFail`, `SendBarrier`,
`Collected` are the writer; `Load`, `Start`, `Crash`, `Shutdown` its life;
`Delete`, `Enrol`, `Reconcile` the registry's side. `Toggle`, `Restart`,
`NextMonth` are the machine and the calendar.

One direction of one interface is modelled, because both are advanced alike; so
the special case of a host of which only some interfaces come back does not
arise, which `docs/traffic-accounting.md` lists as a limitation.

Two things the code bills beyond what was moved in a row's time, and the property
excepts by their amount. First, a row takes its first baseline at whatever the
agent reports, 0 included when the interface is away then (`Row`, a new node, one
enrolled again, or a quota that is switched on); when the interface comes back its
whole counter is billed, although the bytes were moved before, and perhaps billed
to the row before it. `blind` is that amount. `docs/traffic-accounting.md` says
only that the first report sets the baseline with no usage, and that partial
returns are a limitation.

Second, a counter can go back twice: it restarts while the host stays up, stays low
longer than the hold, so that it becomes the baseline under a high-water mark of
the old one (`raise_high_water`), grows, and then its interface is away longer
than the hold, which lowers the baseline again. The mark still stands far above,
so the bytes in between are billed a second time when the counter is back.
`Reopened` is that amount, and the ghost `again` of a row adds it up, on top of
`blind`; without it
`NothingBilledTwice` is false, which the proof brought to light and TLC confirms
with larger bounds than the run's (three events and a counter of five).

**The throttle.** The server's decision (`Decisions`) is a function of quota,
usage and whether the ledger answers; a session sends it when it changes. The
agent's controller (`ctl`) turns a wanted rate into commands (`Commands`:
removals on interfaces it owns and no longer uses, then a removal or a
replacement on the default route's), which may fail after any prefix
(`Applies`); it retries with a delay and gives up after `MAX_APPLY_ATTEMPTS`,
which `quit` remembers until the limit that was sent last is applied. `found`
remembers what earlier sessions left, which the new controller does not
know. A filter that vanishes because its interface is created again is not
modelled.

As the code has it: giving up is final until something else is sent. When it was
`tc` that was missing, the limit applied before stays the one in force
(`A/traffic_control.rs:165`), and a move of the default route puts that one on
the new interface and reports it as applied (`:129`), although the server has
sent another, while `retry_tests.rs:1` has failures converge "without a new policy
or connection". A controller that has given up (`quit`) is therefore not *settled*
in `ThrottleSettles`.

| Property | Says |
|---|---|
| `UsageIsBilledOnce` | usage is at most what the host moved, but for the bytes of `again`; while the counter has not restarted `again` is what the first baseline was blind to and nothing more, and at a full reading usage is exact (`NothingBilledTwice`); the database is behind memory only while the difference is queued (`EveryChangeIsQueued`) |
| `ForgottenStaysForgotten` | a deleted node's ledger stays away, over queues and restarts |
| `ThrottleSettles` | every rule a session set is one it will clean up (`OwnedCoversRules`); when all is quiet the default route is limited exactly when usage asks for it (`SettledIsThrottled`) |

## AlertNotices

**Code.** `S/alerts/tracker.rs`, `evaluator.rs`, `runtime.rs`, `inspection.rs`,
`delivery.rs`, `delivery/webhook.rs`, `delivery/smtp.rs`.

**State.** One rule and one node. `entry` is the tracker's active alert (its
age since the last notice, which channels have been reached, whether a retry is
due), `schedule` the dispatch state of the daily summary, `queue`, `working` and
`results` the bounded delivery queue, its workers and the results that come
back. The rest are histories the properties speak of: alerts and the *rounds* of
their notices have numbers, which the code does not keep, and `received`,
`confirmed` and `told` say which channel has what; `surprises` and `repeats` are
what should not have reached a channel, `strange`, `crossed` and `unapplied` the
alerts and rounds into which an outcome was recorded that is not their own, or
was of no channel.

**Actions.** `Evaluate` is one tick: results are processed, the rule is matched
(`Matches`, `RuleValue`: covers, threshold, average over a window), the entry is
updated, notices and the summary are enqueued; `EvaluateDisabled` clears what is
active. `Deliver` is one attempt at one channel with the outcomes the clients
can produce (`SmtpAttempts`, `WebhookAttempts`: the answer may be lost after the
receiver has taken the message, and then it is not tried again), `Finish` and
`Process` return the result. `Configure`, `Clock`, `Stop` and `RestartRuntime`
are what happens meanwhile.

Met while modelling, and as the code has it: the outcome of a trigger is recorded
in whatever entry the rule and node have when it comes, so that a late one may
count for a later round, which is then repeated to who has it (`crossed`), or for
the next alert (`strange`; see the run `alert_resolution` below); a resolved
notice can overtake a trigger's retry that is in flight; a result for day D that is late makes the
summary of D+1 go out twice while the first is in flight; resolved notices are
not retried.

| Property | Says |
|---|---|
| `NoticesAddUp` | no channel gets a resolution of an alert it never saw (`NoResolutionUnseen`), or again a notice that it has confirmed (`RetriesSkipWhoHasIt`), but for late outcomes recorded elsewhere; a day counts as sent only if every channel has its summary (`SentDaysReachedAll`) |

## BrowserViews

**Code.** `S/state.rs` (changes, revisions, the cached answers),
`S/state/browser_broadcast.rs`, `S/ws/browser.rs`,
`W/composables/useRealtimeData.ts`, `W/stores/nodes.ts`, `W/ws/client.ts`.

**State.** `truth` is the nodes, one version per change; `revision` is raised
only after the change, and `signal` set after that, by `writers` that may be
several. `task` is the diff task with its last nodes and the batch it holds;
`slot` the shared `InitialState` frame; `viewer` and `page` the two ends of each
browser; `cache` and `building` the cached answer of `/api/nodes` and its build
lock. `clock` counts the whole views stamped, `began` is the stamp of the diff
task's snapshot while it waits for the shards, and `seen` what each page has of
stamps (`lastGeneratedAt`), with the nodes whose row it dropped for one.

**Actions.** Each is a stretch between two points where others run: a change
(`Change`, `RemoveNode`, `Sweep`), its `RaiseRevision` and `Notify`; the diff
task's `Wake`, `Count`, `Stamp`, `Diff`, `PublishBatch`, `SendBatch`; a stream's
`Attach`, `Admit`, `SendShared` or `SendBuilt`, `Forward`, `End`; a poll's
`Ask`, `Look`, `LookAgain`, `Build`, `Store`, `Answer`.

| Property | Says |
|---|---|
| `ViewsAreCurrent` | once all is quiet every streaming page shows every listed node as it is, and every answer of `/api/nodes` holds what was announced before it was asked for |
| `StreamsMoveForward` | a streaming page never shows a node's earlier state again |

Both except nodes that the diff task read between a change and the raise of its
revision (`S/state.rs:201`): the difference is then sent under the older
revision, and a page whose view was made in between does not get it until the
node changes again. And they speak of *listed* nodes: a node removed before the
first batch, while `last_nodes` is still empty, stays shown by the first viewer
(`S/state/browser_broadcast.rs:183`).

`ViewsAreCurrent` also excepts what the page's own guard drops.
`browser_snapshot` takes `generated_at` before it locks the shards
(`S/state.rs:280`), so a batch may be stamped before a whole view and hold what
changed after it. A page that has the view discards such a batch
(`W/stores/nodes.ts:64`, `:83`) while the diff task counts it as sent, and the
row stays wrong until the page is sent that node again (`missed`). That the clock
behind the stamps does not step back is assumed.

## ServerStop

**Code.** `S/snapshot.rs`, `S/history/writer.rs`, `S/audit/writer.rs`,
`S/startup.rs`, `S/startup/shutdown.rs`, `S/handlers/settings/agent_delete.rs`
(the snapshot it saves).

**State.** `live` and `version` are the live view, `unbumped` changes whose
revision is still to be raised; `file` the snapshot on disk, `checkpoint` the
revision the periodic task saved last, `snap` the blocking tasks that write one,
`deletion` a removal in progress. `chan` holds the two queues with their
writers, `kept` the rows of the two databases, `lost` what was counted as
dropped, `clone` tasks that still hold a sender, `caller` a login that waits
for the number of its event.

**Actions.** `runPhase` follows `run_server` to its end: listeners stop, tasks
are cancelled, the final snapshot and the writers' drain each have a deadline.
Snapshot tasks are aborted while their blocking part goes on. A writer collects
a batch, writes it (or fails), acknowledges callers.

| Property | Says |
|---|---|
| `SnapshotsNeverGoBack` | a removed node does not come back with the snapshot, and a skipped tick misses nothing |
| `AcceptedIsKept` | every accepted item is queued, written or counted as lost; after an orderly stop none is left in memory (`AcceptedIsAccounted`); an event whose number is wanted is inserted after all that were queued before (`LoginsFollowEarlierEvents`) |

Changes made after the final snapshot are not saved; a login during the shutdown,
when the sender is gone, inserts directly and may get a lower number. Both are
as the code has it and outside the properties.

**Run `telemetry`.** The five modules, one focus at a time (two for the alerts,
the browsers and the stop): 1.8 million states. The bounds are in
`Telemetry.cfg`: two changes of nodes, two browsers and two connections let a
subscription race a batch and a resynchronisation; two failures (`MaxTrouble`)
let one hide another; two rounds of notices and two tries of a channel are a repeat
or a second alert behind one whose outcome is late, and a partial delivery that is
tried again; four faults of the throttle allow it to give up, after two attempts
(`MaxAttempts`), and a lost session between two partial failures; a queue of one
and a batch of two reach every limit. `alert_resolution` has the alerts' bounds and
`throttle_route` the throttle's.

## History: HistoryQueries and HistorySchema

**Code.** `S/history.rs`, `S/history/query.rs`, `query_limit.rs`, `cache.rs`,
`S/history/writer.rs` (batches, pruning), `S/handlers/api_routes.rs`; then
`S/history/init.rs`.

**Queries.** `rows` are the samples with the second of their commit; `asking`
the callers, `reading` the blocking reads, which go on and hold their permit
when whoever asked is gone (`CallerLeaves`, `SlotFree`); `queue` and `permits`
the limit; `cache` and `bytes` the cache and its account. `WriteBatch` commits
and prunes. An aggregated point is the set of the samples it averages: an
answer that leaves a sample out of every bucket is visible, an average is not.

**Schema.** A start is one transaction: `RecoverInterrupted`, `CreateTable`,
`MigrateNullable`, `MigrateColumns`, `EnsureIndexes`, `CommitSchema`, each on the
transaction's view `txn` of the database `file`; `StatementFails` and
`ServerEnds` come at any point, and the next start finds what was committed.
`Databases` are the ones that servers of earlier versions have left: without a
table, old, half migrated with samples in one of the tables, or in both.

| Property | Says |
|---|---|
| `HistoryAnswersHold` | reads never exceed the permits and every permit comes back; the cache's account is true; an answer, cached or read, shows every sample of its range in no more points than asked for |
| `SamplesSurvive` | no migration and no stop in it loses a sample, and recovery refuses only samples it found in both tables at first |

## DailyInspection

**Code.** `S/alerts/runtime.rs`, `S/alerts/evaluator.rs`, `S/history/peaks.rs`,
`S/history/query.rs` (ranges).

The report is built over many queries (`BeginReport`, `ListNodes`, then
`ReadTrend` and `ReadPeaks` for each node, `MergeHighlights`) while nodes
report, go offline and are removed; a query may fail, and its node is skipped.

| Property | Says |
|---|---|
| `InspectionIsComplete` | every point read is in one bucket of the trend, and every warning of the hours before is in the highlights of its node, unless newer ones fill them |

As the code has it: seven events can be found for a node and six are kept; the
state's CPU warning looks at the unrounded value, the peak's at the rounded one.

## ChannelReplies

**Code.** `S/alerts/delivery/webhook.rs`, `S/alerts/delivery/smtp.rs`.

A reply is a sequence of tokens that arrives in any pieces. `ReadHead`,
`JudgeHead`, `ReadBody`, `JudgeWhole` and `JudgeCut` are a webhook's reply with
its three framings (a length, chunks, the end of the connection);
`ServerAnswers`, `ReadLine` and `GoesOn` a dialogue with a mail server
whose answers may have several lines, with STARTTLS, login and dot-stuffing;
`ConnectionEnds` and `TimesOut` may come anywhere.

| Property | Says |
|---|---|
| `RepliesAreJudgedRight` | a webhook's reply is judged by what it says and not by how it arrives, and one cut short is never a success; a mail that counts was taken whole for every recipient, and nothing sent before the encryption is read after it |

As the code has it: a chunked reply with trailers, or with an extension at its
last chunk, is not recognised as complete and waits for the end of the
connection or the deadline (`webhook.rs:554`); a mail that was taken is
reported as failed when writing the QUIT fails; a line that is a code without
text is not taken as an answer's last. The model's replies have none of these.

## AuditTrail

**Code.** `S/audit/log.rs`, `throttle.rs`, `writer.rs`, `storage.rs`,
`query.rs`, `S/handlers/auth_routes/last_login.rs`.

`mail`, `batch`, `writing` and `table` are the way of an event; `tracked` is the
throttle of blocked requests, of which only one per window is stored with the
number of those that were not. `InsertLogin` writes at once, because its number
is wanted; `ReadEvents` waits for a flush before it asks. The end of the writer
is in `ServerStop`.

| Property | Says |
|---|---|
| `AuditTells` | an answer has every event recorded before it was asked for that was not dropped or pruned; the login before is the last from another client; no more blocked requests are told of than there were; retention keeps the newest rows |

**Run `records`.** `NodeSessions` in one focus, the other modules of this kind
in one each, the audit log in three (`events`, `logins`, `blocked`). Queries:
two callers on one permit, three seconds and three questions, two samples at a
time, which reaches the retention, the cache's limits and buckets of more than
a second. Schema: two samples, two stops and a failing statement, so that a
recovery is itself interrupted. Inspection: two nodes, of which one is only
late, two reports. Replies: a buffer of three tokens cuts every frame anywhere.
Audit: a queue and a batch of two.

## AdminAccess

**Code.** `S/auth.rs`, `S/auth/*`, `S/passkeys.rs`,
`S/handlers/auth_routes/*`, `S/handlers/settings/security.rs`,
`passkeys.rs`, `step_up.rs`, `config_edit.rs`.

**State.** `auth` is `readonly_auth` in memory, `saved` the `[auth]` section of
the configuration file; `sessions` the session store, where `under` notes the
password and the secret a session was obtained with *as its handler read them*,
and not those in force when it was inserted; `used` the TOTP steps
already accepted; `keys` and `keyFile` the passkeys in memory and on disk;
`asserting` and `enrolling` the ceremonies; `commit` and `change` the passkey
change and the settings transaction in progress, which hold `mutation_lock` and
`settings_write_lock`; `req` the requests in flight with what they have read.

**Actions.** One for each stretch of a handler between two awaits: the password
check, the insertion of a session that rechecks the credentials, the second
factor, the step-up confirmation, the ceremonies of passkeys, and the settings
transactions (password, enabling and disabling two factors) with their write of
the file and the swap of `readonly_auth`.

| Property | Says |
|---|---|
| `SessionsFollowCredentials` | no session outlives the credentials it was obtained with: the password its handler read, however long before it inserted the session, and the secret its second factor was proved with are those in force |
| `FactorsStaySpent` | between two restarts no code opens anything twice (`CodesOpenOnce`); a removed passkey never comes back (`PasskeysStayRemoved`) |

As the code has it: the used steps are in memory only, and deleting a passkey
does not end the sessions it opened.

## AuthFailures and ConnectionAdmission

**Code.** `S/admission.rs`, `S/ws.rs`, `S/ws/handshake.rs`,
`S/registry/auth.rs`.

`AuthFailures` has the operators of the failure table: pruning, blocks, the
sweep over the soft limit and the cap at the hard limit. `ConnectionAdmission`
follows sockets from the block check and the slot over the upgrade and the
hello to the verification of the token: a lookup in the cache, a permit and the
slow hash, after which the verdict counts only if the node's credential is the
one that was read. `known` is the registry's history, one credential per
revision.

| Property | Says |
|---|---|
| `AdmissionIsSound` | a blocked address gets no more guesses than it had connections under way (`GuessesAreBounded`); a socket is authorized by a credential valid at the revision it will compare with (`AuthorizedIsCurrent`) |

## InstallBootstrap

**Code.** `S/registry/issue.rs`, `S/registry/lifecycle.rs` (install tokens),
`S/registry/storage/write.rs`, `S/handlers/install_routes.rs`,
`S/handlers/settings/agent_install.rs`, `scripts/install-agent.sh`.

Here the file *can* go back: `PutBack` is an administrator who restores an older
file, which the write guard of the server's edits exists for (and the command
line does not have); it happens while no edit is under way. `task` are edits in
the stages of `mutate_registry_file`, `taken` counts how often each token was
exchanged.

| Property | Says |
|---|---|
| `InstalledOnce` | a token is exchanged at most once, by whichever of two installers, and also when an older file that still has it is put back |

**Run `access`.** The three modules, in two or three foci each: 1.8 million
states. Two clients, two tokens, two sockets, two tasks are the least that can
race; a limit of one session, one pending session, one attempt reaches every
limit. The limits of connections have a focus of their own, `slots`: four
sockets, of which three fit in all and two of one address, come and go without a
hello, so that either limit refuses where the other would not. In `enrolments`,
where there is no passkey yet, two requests may enrol one at once where one is
allowed, and the second is refused when it commits; the settings rest there. In
`passkeys` there is one, and the only settings change is the disabling of codes.
In `restored` one edit runs at a time. `MaxStep = 2` covers the drift window of
one step on either side.

## UpdaterActivation

**Code.** `U/activate.rs`, `runtime.rs`, `state.rs`, `remote.rs`, `gate.rs`,
`system.rs`, `fs.rs`, `maintenance.rs`, the object handling of `download.rs`,
and the units under `nodelite-updater/systemd/`.

**State.** `journal` is `journal.json`; `disk` the symbolic link `active`, the
objects, the latch and the pending mark; `markers` the actions asked of the
privileged units; `units`, `agent`, `host` what systemd runs; `proc` the
updater's process, with its copy of the journal (`mem`) and the durable changes
it still has to make (`todo`).

**Actions.** `Apply`, `Remote`, `BootUnit`, `TimerUnit` and `Enqueue` begin a
process; `Step` makes its next durable change and decides what follows,
`StepFails` lets that change fail, `ReadFails` what it wants to know of a unit, the
boot or the pointer, `Unreadable` the journal or what comes before it, `Exit` ends
it; `Killed` and `Reboot` may come between any two. `Preflight`, `StopUnit`, `RestartUnit`, `AgentStarts`,
`AgentReports` are the units and the agent; `Operator` pauses, resumes and
clears.

An error ends a command in one of three ways, as in `dispatch`. In an open
transaction, or when it is one of recovery, it latches manual recovery
(`Fails`). Elsewhere the command is refused and the journal is left as it is: so
with a leftover that the collection of objects meets, which stops `Apply` under
`?` before the latch (`U/runtime.rs:144`), until the leftover is gone. And what
happens outside the transaction, markers at boot and the account of a request,
ends the process with nothing noted (`Stops`, `Outside`). At boot each of them
holds the Agent back, which `cause` counts with the latch.

Deadlines and the stability period are nondeterministic: one may have passed
whenever the code looks. A failing publication of the status is abstracted; the
enrolment, the time floor and the signatures (TUF) are not modelled.

| Run | Instance | Shows |
|---|---|---|
| `operations`, focus `activation` | 2 releases, 1 request, 2 boots, 3 starts, 1 kill, 1 fault, 2 fetches | `ActivationIsSafe`: `RunsKnownGood`, `CrashesRecoverAlone` |
Two releases are the installed one and its candidate; the second fetch is the
candidate tried again. One kill, one reboot and one fault (a change or a read that
fails, made or not), in any order, are what the recovery is written for. In `operations` a second fetch happens
only where nothing went wrong with the first (`OneTrouble`).

## ServerSettings

**Code.** `nodelite-proto/src/config/` (loading, validation, limits),
`S/handlers/settings/config_edit.rs`, `security.rs`, `alerts.rs`,
`S/fs_security.rs`, `S/startup.rs`.

**State.** `toml` is the file by sections, `inForce` the settings in memory,
`update` the transaction that holds `settings_write_lock`; `edited` remembers
which sections the operator has edited since the start. A number is below,
within or above its bounds; a text has white space around it or not, because
loading trims and a request is taken as it is.

**Actions.** `Requests`, `Edits` (read afresh, replace one section, validate),
`Refused`, `WriteFailed`, `Renamed`, `Swapped`; `Saves` is the operator with an
editor, at any time; `Halts`, `StartsUp`, `FailsToStart`.

| Property | Says |
|---|---|
| `SettingsAreKept` | what an acknowledged change has put in force is what a restart would load, section by section; what runs is within its limits, has a login if it is public and a secret if it asks for codes |

As the code has it: the settings page validates and stores a password with the
white space around it, loading drops it and checks its strength once more
(`S/startup.rs:102`), so a restart may refuse what the page has accepted (these
are excepted by name); rules whose ids differ only in such space collide after
loading; enabling codes does not look whether the running configuration has
HTTPS.

## SessionCommands

**Code.** `S/state/session_control.rs`, `S/ws/session.rs`, `S/ws/refresh.rs`,
`S/handlers/settings/updates.rs`.

**State.** `sess` is each session: its bounded queue, its one refresh permit,
the step its loop is in (`job`), the refresh that waits for the agent
(`pending`) and its pings; `ask` the administrators' requests, each with its
one-shot channel. `Holders` says where the other end of a channel is.

**Actions.** A request takes the permit, enters the queue and waits
(`RequestRefresh`, `AcquirePermit`, `EnqueueRefresh`) or gives up
(`StopWaiting`); the loop takes commands, frames and ticks one at a time and
answers in two steps, `ReleasePermit` and then `SendReply`, in the order the
comment in the code asks for; `LeaveSession`, `DropQueued` and `Disconnect` end
it anywhere.

| Property | Says |
|---|---|
| `CommandsAreAnswered` | a caller that waits can be answered from exactly one place, of the session it asked; whoever has an answer finds the permit free; a permit is taken exactly while one command holds it |

## UpdateRequests

**Code.** `S/agent_updates.rs`, `S/handlers/settings/agent_update.rs`,
`S/ws/session.rs`, `A/remote_update.rs`, `A/session/connection.rs`,
`U/remote.rs`, `nodelite-proto/src/agent_update.rs`.

`entry` is what the server asked and heard, `link` the sessions with what is
under way in them, `updater` the node's updater with its request file and public
status, `reached` the phases it has really published. Sessions break with
requests and reports under way, the server restarts, the node is removed, the
updater succeeds, refuses or rolls back.

| Property | Says |
|---|---|
| `OutcomesAreTrue` | what is shown is about the latest request, however late older reports come; an outcome shown is one that the updater reached for that request; the button offered is one that is not refused |

As the code has it: an agent that could not sync the request's directory reports
a failure although the request is queued.

## AgentLogs

**Code.** `A/session.rs`, `A/session/connection.rs`, `S/agent_logs.rs`.

`agents` are the agents' buffers with their sessions and growing delays, `wire`
the batches under way, `buffers` and `counted` the server's lines within a
budget for each node and one for all.

| Property | Says |
|---|---|
| `NewestLinesStay` | the budget counts what is held; lines are in order; nothing held is older than a line given up for the budget of all |

**Run `operations`.** The five modules of this kind: `activation`, `settings`,
`renewals` and `successors` (one session with pings and time; two, one after the
other, in the same minute), `requests` and `restarts` (two sessions of a server
that stays; one session across restarts), `lines`. Settings: two requests, one
edit of the operator, one mishap. Commands: two requests on a queue of one, two
sessions. Updates: two requests, a cooldown longer than a request's life. Logs:
two nodes with two lines each for a store of two lines and three bytes.

## What is proved

Each theorem is about the specification of one module as TLC checks it, for any
values of its constants that satisfy the module's named assumption, which TLC
evaluates in every run. Nothing else is assumed. In the proof modules `IInv` is
the inductive invariant, or several whose names end in `Inv` where the parts of a
module can be reasoned about apart (`LiveStateProofs`, `AccessProofs`,
`OperationsProofs`); one lemma
per action, or per group of actions that disturb the same part, shows that it is
preserved.

| Module | Theorem | Statement |
|---|---|---|
| `RegistryStoreProofs` | `TypeCorrect` | `Spec => []TypeOK` |
| | `NoLostUpdate` | `Spec => []AckedIsDurable` |
| | `MemoryIsTrue` | `Spec => []MemoryStaysTrue` |
| | `SkippingIsSafe` | `Spec => []SkippedReloadIsSound` (a reload that is skipped misses nothing) |
| | `NoRegression` | `Spec => MemoryMovesForward` |
| | `Refinement` | `Spec => ImplementsService` |
| `CredentialRenewalProofs` | `TypeCorrect` | `Spec => []TypeOK` |
| | `NeverLockedOut` | `Spec => []SavedTokenAccepted` |
| | `SessionsInform` | `Spec => []SessionsKnowTheirTokens` |
| | `NothingGoesBack` | `Spec => TokensOnlyAdvance` |
| `NodeSessionsProofs` | `TypeCorrect` | `Spec => []TypeOK` |
| | `CleanSlate` | `Spec => []NothingLeftBehind` |
| `HistoryProofs` | `TypeCorrect` | `SchemaSpec => []SchemaTypeOK` |
| | `NoSampleLost` | `SchemaSpec => []SamplesSurvive` |
| | `Billed` | `LedgerSpec => []UsageIsBilledOnce` |
| | `Forgotten` | `LedgerSpec => []ForgottenStaysForgotten` |
| `LiveStateProofs` | `FileMovesForward` | `StopSpec => []SnapshotsNeverGoBack` |
| | `AcceptedIsAccountedFor` | `StopSpec => []AcceptedIsKept` |
| | `ViewsCurrent` | `ViewSpec => []ViewsAreCurrent` |
| | `StreamsForward` | `ViewSpec => StreamsMoveForward` |
| `UpdaterActivationProofs` | `UpdaterTypeCorrect` | `UpdaterSpec => []UpdaterTypeOK` |
| | `UpdatesAreSafe` | `UpdaterSpec => []ActivationIsSafe` |
| `AccessProofs` | `TokensInstallOnce` | `InstallSpec => []InstalledOnce` |
| | `SessionsBelong` | `AdminSpec => []SessionsFollowCredentials` |
| | `CodesAreSpent` | `AdminSpec => []CodesOpenOnce` |
| | `PasskeysAreGone` | `AdminSpec => []PasskeysStayRemoved` |
| | `FactorsAreSpent` | `AdminSpec => []FactorsStaySpent` |
| | `AdmissionSound` | `AdmissionSpec => []AdmissionIsSound` |
| `OperationsProofs` | `CommandsAnswered` | `CommandsSpec => []CommandsAreAnswered` |
| | `OutcomesTrue` | `UpdatesSpec => []OutcomesAreTrue` |
| | `SettingsKept` | `SettingsSpec => []SettingsAreKept` |

**The registry.** Any processes, mutations and retry limit
(`ConstantsAssumption`: processes and the poller are different, `Nobody` and
`NoOp` are not among them, at least one attempt). `IInv` joins six facts, because
none of the properties is inductive. `OneHistory`: every copy of the file that a
process may still use, and the memory, is comparable with every other and with
the file (a version determines its content). `Renaming`: whoever is about to
rename holds the flock and starts from the version on disk; this is where the
check under the lock pays, and it makes a draft the successor of *every* copy
in use. `Answers`: a mutation still to be answered is already in the durable
file. `Fingerprints`: an identity is in use only once its file exists, and the
file with the checkpoint's identity has the memory's version. `Roles`: who may
be where in the code. The action property and the refinement follow from `IInv`
one step at a time, and `NoFalseDivergence` from `IInv` together with `GuardInv`
(every guard held accepts the file, and a missing file was never in memory); a
publication maps to `Commit`, an installation to `Serve`, both crashes to
`Restart`, all else to a stutter or to an answer.

**Renewal.** Any number of connections, candidates, tokens, reissues and faults
(`RenewalAssumption`). The argument: a token that the agent has presented or
confirmed, and which is still staged, is the only one the agent has or is about
to be given; and only such tokens are activated, so activation cannot revoke
what the agent holds. `IInv` has the registry's order (`RegistryInv`: previous,
current, staged tokens and generations increase, no two share one), what each
token that the agent holds or will be given is owed (`Promises`), that the
server's memory may be behind its file but not about tokens in use (`Lag`), that
the agent saves tokens in the order in which they were staged (`Order`), what each handler knows where it stands (`Sessions`), and that the session the
agent is connected to knows what the agent was given (`LinkInv`).

**Sessions.** Any number of handlers and enrolments. `IInv` says of each place
in a handler whether the entry, the traffic reports and the update reports can
still be its own (`Registrations`); and that, unless memory is `unclean`, the
ledger and the logs are of the enrolment in memory, or the removal that will clear
them, a deletion's or a reload's, is on its way (`Afresh`). Session
numbers are unique because a draw is atomic, and a comparison with the entry's
number is all an old handler needs.

**The history's start.** `Progress` says what the transaction's view has after
each statement, in particular that while samples are copied they are all still
in the old table; `Committed` that the file never has less than what was stored.

**The ledger.** Any readings, outages, reboots, restarts of the counter, months,
plans, failures and any hold (`LedgerAssumption` only types the constants).
`Billing` says of every row, in memory, in the database and on its way there, that
what the counter holds and has not been billed fits into what the host has moved
since (`Fits`: whether the counter is read next as it is, behind the baseline, or
of another boot), and, while the counter has not restarted, where the row stands:
at its baseline, or at the mark of an absent interface, and `blind` above it
(`Exact`). It must hold for
old rows too, because a crash puts one of them back. `Queued` says that a row in
which memory and database differ is marked or is what is pending, and that nothing
pending can bring back what a deletion takes away; a barrier is only taken with
the deletion in the writer's hands.

**The stop.** `SnapshotInv`: what a snapshot task holds is not newer than the
live view, a write that could undo a removal that was acknowledged cannot be
under way (`Removals`, `Saved`, `Locked`, `Newest`), and the checkpoint is not
ahead of the file (`Checkpoint`). That the periodic and the final task are not
names of nodes is all that `StopAssumption` adds to the types. `QueueInv`: the
numbers offered are in the queue, in the batch, in the database or counted
(`Accounted`), in order (`Numbered`); a queue closes only when its last sender is
gone, and is drained (`Drains`); and a flush is behind all that was queued
before it (`Flushes`). For queues and batches of any size.

**The browsers' views.** Any nodes, writers and browsers, and a channel of any
capacity. `ViewInv` joins the types with six facts. `FrameInv`: the shared
frame is the view of its revision (`Stamped`: the truth, if that revision is
still the present one, but for changes nobody has announced), and while no later
batch is published, what it lacks is on its way. `TaskInv`: the baseline that
the diff task compares with is the truth or older. `QueuesInv`: queued batches
are in the order in which they were made, and each is in the order of revisions
with the frame (`Versus`), which is what the comparison of a batch's revision
with the base of a session relies on. `StreamInv`, of each page with a stream:
no batch that will be forwarded takes a row back (`Advancing`), a frame that may
still be given to the page does not either (`FrameKeepsUp`), its poll is
aborted, and, unless the session lagged, each listed node that the page shows
wrongly is brought by a batch that is queued or held, or the task owes it a
comparison and will find it different from the baseline (`Settles`). This is said
of what the page was *sent* (`due`), which is what it shows but for the rows it
dropped for their stamp (`Shown`). When all is quiet nothing is queued, held or
owed, so nothing else is shown wrongly. `AnnouncedInv`
and `PollInv` do the same for the cached answers: a body kept under the present
revision has every change that revision announced. Three details of the code
carry the proof: a frame and a batch read their revision and the nodes under one
lock and an answer reads its revision before the nodes, a batch is published
before it is sent, and a session subscribes before it gets its first frame.

**The updater.** Any releases, requests, boots, starts, kills, faults and
fetches (`UpdaterAssumption`). There are two journals, the file's and the one in
the process's memory, and a process may be killed anywhere. `Sound` says what is
true of the files, the Agent and the boot when a journal says what it says;
`IInv` has it of the file's journal always, and of the memory's while a process
runs. The steps a process still has to make are those of a named stage
(`Plan`, `Ending`), and `Agrees` says for each stage how far the memory may be ahead
of the file. Whatever is killed then leaves a sound journal in the file, and
that is enough: `RunsKnownGood` and `CrashesRecoverAlone` follow from it. The
latter names what may ask for the operator, or hold the Agent back at boot: an
open transaction met a change or a read that failed or a unit that did not answer
in time, the journal could not be read, or the recovery unit failed or was stopped
at boot. Two details of the code carry the proof, and it fails without them: the
pending mark is set before the transaction is opened, and a release counts as
healthy only while `active` points at it.

**Install tokens.** `InstallInv`: the token of an edit that issues one is in no
file and nobody else's until the edit commits (`NewTickets`, which is where drawing
a random token matters); a copy whose version is still the file's was made from
that file's tokens, so that an exchange takes away what it hands out (`Copies`);
and the file has a spent token only while it is older than the memory (`Unspent`),
when the write guard refuses every edit of the server (`Guards`). The command line
is the exception on purpose: its edits have no guard, so one made on a file that
was put back makes that file the newest again, tokens and all, and the ghost
`taken` starts again for them (`MadeGood`); so does a restart, which has no
memory to compare with. Both are the operator's decision; what no request and no
edit of the running server can do is hand a spent token out a second time.

**Administrators.** `AdminTypes` says what a request, a settings transaction and
a passkey change are, and that a change's caller waits for it. On it stand three
invariants that share nothing else. `CredentialsInv`: the password a session was obtained with, as its handler read
it, is the one in force, so is the secret a finished login was proved with, and
its kind fits them. It holds because each login compares again, where it inserts
its session, what it read before; because a second factor is exchanged only for
a pending session of which this is true; because the swap clears the store; and
because a transaction that mints a session has put its own credentials in force
and still holds the settings lock. `CodesInv`: a used step stays marked for two steps beyond
its own (`Kept`), which is longer than it can match; a code that was shown is of a
marked step; and the proof of a rotation is not of a later window than the
swap that spends it. `ReplayRetention > 2` is the assumption it needs.
`KeysInv`: a credential that is being registered is nobody else's (`NewKeys`),
and the change that holds `mutation_lock` was computed from the keys that are
still in memory, so that writing it, losing it or restarting after it removes
and restores nothing else (`Running`).

**Admission.** Any addresses and any finite set of sockets (`IsFiniteSet(Conn)` in
`ConnectionAdmissionAssumption`: sockets are file descriptors). `SocketsInv`: the
hashes left are of the credential that was read, a verdict is about the socket's own token
and that credential, and it is forgotten when the credential is read again.
`GuessesInv`: while an address is blocked, its failures since then and the
sockets it still has on their way are together no more than the sockets the block
found. It needs that a check of an address changes nobody's block
(`ChecksKeepBlocks`), whatever the sweep and the cap of the table drop.

**Commands.** Any requests, sessions, pings and limits. `CommandsInv` gives every
request one place in one session (`OneUser`): in the queue, in the hand of the
loop, or with the refresh that waits for the agent. The permit is taken exactly
while somebody has such a place or is on the way to one (`Permits`), and a hand
that only has to answer no longer counts, which is the release before the reply that
the comment in the code asks for. `HeldCallers` ties both ends of the one-shot
channels together, `Hand` says what the loop may hold at each step, `AtRest` that
a session which is over has nothing left. That an update command is no request
to renew is the assumption added to the types.

**Update requests.** Any requests, sessions, restarts and ticks. `Truth`: a phase
that only the updater brings about was reached for the request it is reported
with, wherever it is: with the updater, in a report under way in any session, in
the server's entry. The agent itself only adds `queued` and `failed`; the server
sets a phase only for the request it just numbered. `OfLast` then needs nothing but
the comparison in `record`, and the third part of the property is a fact about
the two guards alone (`ButtonIsHonest`).

**Settings.** Any limits, edits, changes, failed writes and crashes. `AlertsLoad`
and `LoginsLoad` are what loading does to a section: what was loaded loads as
itself, and stays acceptable. `Agree` compares a file with settings, but for the
sections the operator has edited since; the file agrees with what is in force
until it is replaced (`InForceKept`), and what is about to replace it agrees with
what will be in force (`ChangeKept`). The password needs a weaker
comparison than the property's, of both as they would load, because a change
of another key keeps a padded password that loading will trim.

**Only model-checked.** The properties of the other modules (`AgentLogs`,
`AlertNotices`, `AuditTrail`, `ChannelReplies`, `DailyInspection`, `HistoryQueries`,
`NodeLocations`, `TrafficThrottle`) and the type invariants of the composed
modules; the limits of
`ConnectionAdmission` and `AdminAccess` on slots, sessions and caches, which
their type invariants state (what `SelectSeq` returns, and sums over a set, are
inductions over data); and everything that
is out of the prover's reach: liveness and `ENABLED` (`WritesTakeEffect`,
`RenewalCompletes`, `SessionsAndRemovalsEnd`), induction over data (what
`Highlights`, `DecodeChunked`, the recursive functions of `AgentLogs` compute for
inputs of any length) and recursive operators (`HistoryQueries`).

## Where the code and its documentation differ

Each of these is a run whose property TLC refutes; `PROJECT.json` quotes the
lines.

- **`credential_recreate_activation`.** `activate_saved_token` finds the
  candidate by generation (`S/registry/renewal.rs:172`), and generations start
  over when a node is issued again. A handshake authorized before the deletion
  activates a candidate of the new node before the new agent has saved it,
  against `renewal.rs:1` and `S/ws/refresh.rs:184`.
- **`throttle_route`.** Every connection of an agent starts with a new traffic
  controller (`A/session/connection.rs:92`), which does not know the interface
  its predecessor has limited. When the default route moves, the old rules stay,
  against `docs/traffic-control.md:20`.
- **`alert_resolution`.** `record_delivery_outcome` finds its entry by rule and
  node (`S/alerts/tracker.rs:221`). When a rule is taken away and put back while
  the trigger of its alert is queued, that delivery's outcome is taken for one of
  the next alert, and the resolution of the next alert, whose own trigger found
  the queue full, goes to a channel that never saw it, against `tracker.rs:73` and
  `docs/alerts.md:36`.

Other limits met while modelling, excepted by name in the properties they touch
and not runs of their own:

- `register_node` draws a number and locks the shard afterwards
  (`S/state.rs:174`), so the smaller number may be the one that stays, against
  the comment at `S/state.rs:165`.
- A handshake that was authorized before a deletion registers after it
  (`S/ws/handshake.rs:71`), and the deleted node is listed, offline, until the
  registry changes again.
- The poller cleans up only when its own reload has changed the memory
  (`S/background.rs:94`); when another write has brought the removal into memory
  first, the removed node's logs, ledger and live entry stay.
- A counter that restarts and later loses its interface for longer than the hold
  is billed again for what it had counted in between (`Reopened`): a second mark
  below the first one is not kept (`S/history/traffic/counters.rs:132`), though
  the comment at line 27 there has the mark recognise such a return, and
  `docs/traffic-accounting.md:23` limits the loss to hosts with several
  interfaces.
- The comment at `W/stores/nodes.ts:12` has the guard on timestamps correct
  because messages share one ordered connection. Stamps do not follow that order:
  see `BrowserViews` for a batch that is dropped although it is the newer.
- Those under "as the code has it" in the sections above: the browsers, the
  locations, the settings, the channels' replies, the daily inspection and the
  requests of updates.

## What is not modelled

`PROJECT.json` lists every component with the reason. In short: the plans of the
history store's SQL, TLS, WebAuthn and the collectors (input and output, or
cryptography); the wire encoding, the sanitising of metrics and the interning of
strings (pure functions); what the web interface draws.

## Running the checks

    tlc -config RegistryStore.cfg MCRegistryStore
    tlc -config Connections.cfg MCConnections
    tlc -config Records.cfg MCRecords
    tlc -config Telemetry.cfg MCTelemetry
    tlc -config Access.cfg MCAccess
    tlc -config Operations.cfg MCOperations
    tlapm RegistryStoreProofs.tla

and likewise for the other configurations, which `PROJECT.json` pairs with
their modules, and the other proof modules. Every passing run ends within about
three minutes on two workers, every proof module within about five.
