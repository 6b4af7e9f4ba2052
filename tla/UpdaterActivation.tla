------------------------- MODULE UpdaterActivation -------------------------
(***************************************************************************)
(* nodelite-updater: the journal, the activation of a downloaded release   *)
(* and the one rollback a failed trial is granted, with the systemd units  *)
(* that stop, start and probe the Agent.                                   *)
(*                                                                         *)
(* Every command of the updater is a process that holds the lock, reads    *)
(* the journal and makes a few durable changes, one after another: "todo"  *)
(* lists those it still has to make and "mem" is its own copy of the       *)
(* journal.  A change may fail, the process may be killed and the host may *)
(* lose power between any two of them.  A release is its sequence number;  *)
(* the time limits are abstracted: a deadline may have passed whenever the *)
(* code looks at it, and so may the stability period.                      *)
(***************************************************************************)
EXTENDS Integers, Sequences, FiniteSets, SequencesExt

CONSTANTS Release,      \* the sequence numbers that are published: 1..n, 1 is enrolled
          Request,      \* identifiers of requests from the panel
          MaxBoots,     \* bound: how often the host starts
          MaxStarts,    \* bound: how often the Agent starts
          MaxKills,     \* bound: updater processes killed on their way
          MaxFaults,    \* bound: durable changes and reads that fail
          MaxApplies    \* bound: how often a release is fetched

ASSUME UpdaterAssumption ==
  /\ 1 \in Release /\ Release = 1 .. Cardinality(Release)
  /\ 0 \notin Request
  /\ {MaxBoots, MaxStarts} \subseteq Nat \ {0}   \* the host and the Agent have started
  /\ {MaxKills, MaxFaults, MaxApplies} \subseteq Nat

VARIABLES journal,   \* journal.json
          disk,      \* the other files under /var/lib/nodelite-updater
          markers,   \* bridge/: the actions asked of the privileged units
          units,     \* the preflight and the stop unit as the updater reads them
          agent,     \* the Agent's process
          host,      \* the number of this boot, and whether its recovery unit is done
          proc,      \* the updater's process that holds the lock
          policy,    \* /etc/nodelite-updater/policy.toml: "enabled", "paused", "resumed"
          tried,     \* the boot in which "active" last moved to a candidate
          cause,     \* has something happened that may need the operator?
          budget     \* what is left of the bounds

updaterVars == <<journal, disk, markers, units, agent, host, proc, policy, tried, cause, budget>>

NoTx == [from |-> 0]
NoRemote == [id |-> 0]
Phases == {"stable", "prepared", "stopping", "trial", "rollback_intent", "committed",
           "rolled_back", "manual"}
Terminal(phase) == phase \in {"stable", "committed", "rolled_back"}

NoJob == [job |-> "none", todo |-> <<>>, mem |-> NoTx, ok |-> TRUE]

UpdaterInit ==
  /\ journal = [phase |-> "stable", installed |-> 1, seen |-> 1, floor |-> 1, failed |-> {},
                tx |-> NoTx, remote |-> NoRemote]
  /\ disk = [active |-> 1, candidate |-> 1, objects |-> {1}, pending |-> FALSE, latch |-> FALSE,
             litter |-> FALSE, request |-> 0]
  /\ markers = {}
  /\ units = [probe |-> [state |-> "inactive", fresh |-> FALSE, ok |-> TRUE],
              stop |-> [state |-> "inactive", fresh |-> FALSE, ok |-> TRUE]]
  /\ agent = [run |-> 1, inv |-> 1, healthy |-> FALSE]
  /\ host = [boot |-> 1, state |-> "up"]
  /\ proc = NoJob
  /\ policy = "enabled"
  /\ tried = 0
  /\ cause = FALSE
  /\ budget = [kills |-> MaxKills, faults |-> MaxFaults, applies |-> MaxApplies]

----------------------------------------------------------------------------
(* What a panel's request is told (remote.rs).                              *)

Owns(j) == j.remote # NoRemote /\ j.tx # NoTx /\ j.remote.target = j.tx.to

Snapshot(j) ==
  IF Owns(j) /\ j.phase # "stable" THEN [j EXCEPT !.remote.status = j.phase] ELSE j

InProgress == {"downloading", "prepared", "stopping", "trial", "rollback_intent"}

Unbound(j) == j.remote # NoRemote /\ j.remote.target = 0 /\ j.remote.status = "downloading"

Ends(j, status) == IF Unbound(j) THEN [j EXCEPT !.remote.status = status] ELSE j

Bind(j, to) == IF Unbound(j) THEN [j EXCEPT !.remote.target = to] ELSE j

\* What a journal must satisfy to be read back.
Valid(j) ==
  /\ j.floor <= j.installed /\ j.installed <= j.seen
  /\ Terminal(j.phase) \/ j.phase = "manual" \/ j.tx # NoTx
  /\ j.tx # NoTx =>
       /\ j.tx.from < j.tx.to /\ j.tx.to <= j.seen
       /\ j.phase # "committed" => j.tx.from = j.installed /\ j.tx.from >= j.floor

\* The objects it names must be there, too.
Loads(j) ==
  /\ Valid(j)
  /\ j.installed \in disk.objects
  /\ j.tx # NoTx => {j.tx.from, j.tx.to} \subseteq disk.objects

\* What reconcile may leave alone when nothing must change (gate.rs).
KnownGood(j) == {j.installed} \cup {t.from : t \in {u \in {j.tx} \ {NoTx} : u.from >= j.floor}}

Idles(j) ==
  IF disk.latch
  THEN disk.active \in (IF Terminal(j.phase) THEN {j.installed} ELSE KnownGood(j))
  ELSE policy = "paused" /\ Terminal(j.phase) /\ disk.active = j.installed

----------------------------------------------------------------------------
(* A command: what is left to do, with the journal it has in memory.        *)

Does(mem, todo) == proc' = [proc EXCEPT !.mem = mem, !.todo = todo]

\* An error: the recovery latch when it leaves an unfinished transaction or is one of recovery.
Fails(mem, recovery) ==
  LET result == IF proc.job = "remote" THEN <<"result">> ELSE <<>> IN
  proc' = [proc EXCEPT !.ok = FALSE,
             !.mem = IF Terminal(mem.phase) /\ ~recovery THEN mem ELSE [mem EXCEPT !.phase = "manual"],
             !.todo = IF Terminal(mem.phase) /\ ~recovery THEN result
                      ELSE <<"save!", "latch!">> \o result]

\* An error that leaves at once: nothing is latched, and no result is noted.
Stops == proc' = [proc EXCEPT !.ok = FALSE, !.todo = <<>>]

\* The operator may be needed: a transaction was given up, or the recovery unit fails at boot.
Costs == cause' = (cause \/ proc'.mem.phase = "manual" \/ proc.job = "boot")

Rest == Tail(proc.todo)

Prepared(j) ==
  LET probe == units.probe
      done == probe.fresh /\ probe.state \in {"active", "failed"}
  IN \/ /\ j.tx.boot # host.boot
        /\ disk.active = j.tx.from
        /\ Does([j EXCEPT !.phase = "rolled_back"], <<"save">> \o Rest)
        /\ UNCHANGED units
     \/ /\ j.tx.boot = host.boot
        /\ done /\ probe.ok /\ probe.state = "active"
        /\ Does([j EXCEPT !.phase = "stopping"], <<"save", "stop">> \o Rest)
        /\ units' = [units EXCEPT !.stop.fresh = FALSE]
     \/ \* the probe failed, or its time is up
        /\ j.tx.boot = host.boot
        /\ probe.state = "active" => ~done
        /\ Does([j EXCEPT !.phase = "rolled_back", !.failed = @ \cup {j.tx.to}],
                <<"save">> \o Rest)
        /\ UNCHANGED units
     \/ /\ j.tx.boot = host.boot
        /\ ~done
        /\ Does(j, IF "preflight" \notin markers /\ probe.state # "activating"
                   THEN <<"preflight">> \o Rest ELSE Rest)
        /\ UNCHANGED units

\* Moves the pointer before the journal says so.
PointsFirst == <<"to", "save", "restart">>

\* The journal says "trial" before "active" moves, and the Agent starts last.
OntoTrial == <<"save", "to", "restart">>

Stopping(j) ==
  LET stop == units.stop
      acknowledged == stop.fresh /\ stop.state = "inactive" /\ stop.ok
      ready == acknowledged /\ "stop" \notin markers /\ agent.run = 0
  IN /\ UNCHANGED units
     /\ \/ /\ j.tx.boot # host.boot
           /\ disk.active = j.tx.from
           /\ Does([j EXCEPT !.phase = "rolled_back"], <<"save">> \o Rest)
           /\ UNCHANGED cause
        \/ /\ j.tx.boot = host.boot
           /\ ready
           /\ Does([j EXCEPT !.phase = "trial"], OntoTrial \o Rest)
           /\ UNCHANGED cause
        \/ /\ j.tx.boot = host.boot
           /\ ~ready
           /\ Fails(j, TRUE)   \* the stop was not confirmed in time
           /\ cause' = TRUE
        \/ /\ j.tx.boot = host.boot
           /\ ~ready
           /\ Does(j, IF "stop" \notin markers /\ stop.state # "activating"
                      THEN <<"stop">> \o Rest ELSE Rest)
           /\ UNCHANGED cause

Healthy(release) == agent.run = release /\ agent.healthy /\ disk.active = release

\* Once the intention is durable: healthy already, asked again after a boot, or too late.
Recover(j) ==
  \/ /\ Healthy(j.tx.from)
     /\ Does([j EXCEPT !.phase = "rolled_back"], <<"save">> \o Rest)
     /\ UNCHANGED cause
  \/ /\ ~Healthy(j.tx.from)
     /\ ~j.tx.asked \/ j.tx.boot # host.boot
     /\ Does([j EXCEPT !.tx.asked = TRUE, !.tx.boot = host.boot],
             <<"from", "restart", "save">> \o Rest)
     /\ UNCHANGED cause
  \/ /\ ~Healthy(j.tx.from)
     /\ j.tx.asked /\ j.tx.boot = host.boot
     /\ \/ Does(j, Rest) /\ UNCHANGED cause
        \/ Fails(j, TRUE) /\ cause' = TRUE   \* the old release is not healthy in time

\* Takes the rollback for done before "active" points at the old release again.
RollsBackFirst(j) ==
  Does([j EXCEPT !.phase = "rolled_back", !.failed = @ \cup {j.tx.to}],
       <<"save", "from", "restart">> \o Rest)

RollBack(j) ==
  Does([j EXCEPT !.phase = "rollback_intent", !.failed = @ \cup {j.tx.to}],
       <<"save", "recover">> \o Rest)

Trial(j) ==
  LET proven == Healthy(j.tx.to) /\ agent.inv # j.tx.old
      reset == [j EXCEPT !.tx.stable = 0]
  IN \/ /\ j.tx.boot # host.boot
        /\ RollBack(j)
     \/ /\ j.tx.boot = host.boot
        /\ proven
        /\ IF j.tx.stable # agent.inv
           THEN Does([j EXCEPT !.tx.stable = agent.inv], <<"save">> \o Rest)
           ELSE \/ Does([j EXCEPT !.installed = j.tx.to, !.phase = "committed"],
                        <<"save">> \o Rest)
                \/ Does(j, Rest)
     \/ /\ j.tx.boot = host.boot
        /\ ~proven
        /\ Does(reset, (IF j.tx.stable # 0 THEN <<"save">> ELSE <<>>) \o Rest)
     \/ \* the trial's time is up
        /\ j.tx.boot = host.boot
        /\ RollBack(IF proven THEN j ELSE reset)

Reconcile ==
  LET j == proc.mem IN
  /\ Head(proc.todo) = "reconcile"
  /\ UNCHANGED <<journal, disk, markers, agent, host, policy, tried, budget>>
  /\ \/ /\ \/ j.phase = "manual"
           \/ Terminal(j.phase) /\ disk.active # j.installed
           \/ ~Terminal(j.phase) /\ j.phase # "manual" /\ disk.active \notin {j.tx.from, j.tx.to}
           \/ /\ j.phase \in {"prepared", "stopping"}
              /\ j.tx.boot # host.boot /\ disk.active # j.tx.from
        /\ Fails(j, TRUE)
        /\ UNCHANGED <<units, cause>>
     \/ /\ Terminal(j.phase) /\ disk.active = j.installed
        /\ Does(j, Rest)
        /\ UNCHANGED <<units, cause>>
     \/ /\ ~Terminal(j.phase) /\ j.phase # "manual"
        /\ disk.active \in {j.tx.from, j.tx.to}
        /\ \/ j.phase = "prepared" /\ Prepared(j) /\ UNCHANGED cause
           \/ j.phase = "stopping" /\ Stopping(j)
           \/ j.phase = "trial" /\ Trial(j) /\ UNCHANGED <<units, cause>>
           \/ j.phase = "rollback_intent" /\ Recover(j) /\ UNCHANGED units

RecoverAfterIntent ==
  /\ Head(proc.todo) = "recover"
  /\ Recover(proc.mem)
  /\ UNCHANGED <<journal, disk, markers, units, agent, host, policy, tried, budget>>

----------------------------------------------------------------------------
(* Fetching a release and preparing its activation.                         *)

\* The objects nothing names any more are removed; a leftover that is not plainly the
\* updater's own stops the collection, and the command before it has begun a transaction.
Pins(j) == {j.installed, j.seen} \cup (IF j.tx = NoTx THEN {} ELSE {j.tx.from, j.tx.to})

Collect ==
  /\ Head(proc.todo) = "collect"
  /\ IF disk.litter
     THEN Fails(proc.mem, FALSE) /\ UNCHANGED disk
     ELSE /\ Does(proc.mem, Rest)
          /\ disk' = [disk EXCEPT !.objects = @ \cap Pins(proc.mem)]
  /\ UNCHANGED <<journal, markers, units, agent, host, policy, tried, cause, budget>>

\* The repository offers a release with the oldest one that may still be rolled back to.
Fetch ==
  LET j == proc.mem IN
  /\ Head(proc.todo) = "fetch"
  /\ UNCHANGED <<journal, disk, markers, units, agent, host, policy, tried, cause, budget>>
  /\ \/ Fails(j, FALSE)   \* not reachable, not trusted, or not newer than what was seen
     \/ \E r \in Release, oldest \in Release :
          /\ r >= j.seen /\ oldest <= r /\ oldest <= j.installed
          /\ LET k == [j EXCEPT !.seen = r, !.floor = IF oldest > @ THEN oldest ELSE @]
             IN Does(k, <<"save", "object", IF r = j.installed THEN "current" ELSE "prepare">>
                        \o Rest)

\* The release is installed already.
Current ==
  /\ Head(proc.todo) = "current"
  /\ Does(Ends(proc.mem, "up_to_date"), <<"save">> \o Rest)
  /\ UNCHANGED <<journal, disk, markers, units, agent, host, policy, tried, cause, budget>>

Prepare ==
  LET j == proc.mem IN
  /\ Head(proc.todo) = "prepare"
  /\ IF \/ j.seen <= j.installed \/ j.seen \in j.failed
        \/ j.installed < j.floor \/ disk.active # j.installed
     THEN Fails(j, FALSE)
     ELSE Does(j, <<"candidate", "pend", "open", "save", "preflight">> \o Rest)
  /\ UNCHANGED <<journal, disk, markers, units, agent, host, policy, tried, cause, budget>>

\* The transaction notes the boot, the Agent's invocation and the preflight unit's last exit.
Open ==
  LET j == Bind(proc.mem, proc.mem.seen) IN
  /\ Head(proc.todo) = "open"
  /\ Does([j EXCEPT !.phase = "prepared",
                    !.tx = [from |-> j.installed, to |-> j.seen, boot |-> host.boot,
                            old |-> agent.inv, asked |-> FALSE, stable |-> 0]], Rest)
  /\ units' = [units EXCEPT !.probe.fresh = FALSE]
  /\ UNCHANGED <<journal, disk, markers, agent, host, policy, tried, cause, budget>>

\* A download that was interrupted is reported as failed.
RecoverDownload ==
  LET j == proc.mem IN
  /\ Head(proc.todo) = "downloads"
  /\ IF Terminal(j.phase) /\ Unbound(j)
     THEN Does(Ends(j, "failed"), <<"save">> \o Rest)
     ELSE Does(j, Rest)
  /\ UNCHANGED <<journal, disk, markers, units, agent, host, policy, tried, cause, budget>>

\* What a request came to, from the journal as it is now.
Result ==
  /\ Head(proc.todo) = "result"
  /\ LET status == IF ~proc.ok THEN "failed"
                   ELSE IF journal.remote # NoRemote /\ journal.remote.target = 0 THEN "up_to_date"
                   ELSE "none"
     IN IF Loads(journal)
        THEN Does(IF status = "none" \/ journal.remote = NoRemote THEN journal
                  ELSE [journal EXCEPT !.remote.status = status], <<"save">> \o Rest)
        ELSE Does(journal, Rest)
  /\ UNCHANGED <<journal, disk, markers, units, agent, host, policy, tried, cause, budget>>

----------------------------------------------------------------------------
(* The durable changes, and how they fail.                                  *)

Effects == {"save", "save!", "latch!", "to", "from", "candidate", "pend", "unpend", "object",
            "clear", "restart", "stop", "preflight"}

Makes(effect) ==
  /\ journal' = IF effect \in {"save", "save!"} THEN Snapshot(proc.mem) ELSE journal
  /\ disk' = CASE effect = "to" -> [disk EXCEPT !.active = proc.mem.tx.to]
               [] effect = "from" -> [disk EXCEPT !.active = proc.mem.tx.from]
               [] effect = "candidate" -> [disk EXCEPT !.candidate = proc.mem.seen]
               [] effect = "pend" -> [disk EXCEPT !.pending = TRUE]
               [] effect = "unpend" -> [disk EXCEPT !.pending = @ /\ ~Terminal(proc.mem.phase)]
               [] effect = "object" -> [disk EXCEPT !.objects = @ \cup {proc.mem.seen}]
               [] effect = "latch!" -> [disk EXCEPT !.latch = TRUE]
               [] OTHER -> disk
  /\ markers' = CASE effect \in {"restart", "stop", "preflight"} -> markers \cup {effect}
                  [] effect = "clear" -> {}
                  [] OTHER -> markers
  /\ tried' = IF effect = "to" THEN host.boot ELSE tried

Step ==
  /\ proc.todo # <<>> /\ Head(proc.todo) \in Effects
  /\ Makes(Head(proc.todo))
  /\ Does(proc.mem, Rest)
  /\ UNCHANGED <<units, agent, host, policy, cause, budget>>

\* The markers of the last boot could not be removed, or a request has not come to its
\* release yet, or is only noting what came of it: all outside the recovery latch.
Outside ==
  \/ Head(proc.todo) = "clear"
  \/ proc.job = "remote" /\ (Rest = <<>> \/ "collect" \in ToSet(Rest))

\* The change is refused, or made and then reported as failed; what follows a latch goes on.
StepFails ==
  /\ proc.todo # <<>> /\ Head(proc.todo) \in Effects
  /\ Head(proc.todo) = "unpend" => Terminal(proc.mem.phase)
  /\ budget.faults > 0
  /\ budget' = [budget EXCEPT !.faults = @ - 1]
  /\ Makes(Head(proc.todo)) \/ UNCHANGED <<journal, disk, markers, tried>>
  /\ IF Head(proc.todo) \in {"save!", "latch!"} THEN Does(proc.mem, Rest)
     ELSE IF Outside THEN Stops ELSE Fails(proc.mem, FALSE)
  /\ Costs
  /\ UNCHANGED <<units, agent, host, policy>>

\* The state of a unit (systemctl has three seconds), the boot, the clock or the pointer cannot
\* be read.
ReadFails ==
  /\ proc.todo # <<>> /\ Head(proc.todo) \in {"reconcile", "recover", "prepare", "open"}
  /\ budget.faults > 0
  /\ budget' = [budget EXCEPT !.faults = @ - 1]
  /\ Fails(proc.mem, FALSE)
  /\ Costs
  /\ UNCHANGED <<journal, disk, markers, units, agent, host, policy, tried>>

\* The process ends; a recovery unit that failed at boot holds back every unit that requires it.
Exit ==
  /\ proc.job # "none" /\ proc.todo = <<>>
  /\ proc' = NoJob
  /\ host' = IF proc.job = "boot" THEN [host EXCEPT !.state = IF proc.ok THEN "up" ELSE "held"]
             ELSE host
  /\ UNCHANGED <<journal, disk, markers, units, agent, policy, tried, cause, budget>>

----------------------------------------------------------------------------
(* The commands.                                                            *)

Begins(job, todo) == proc' = [job |-> job, todo |-> todo, mem |-> journal, ok |-> TRUE]

Refuses(job, todo) == proc' = [job |-> job, todo |-> todo, mem |-> journal, ok |-> FALSE]

\* Only what is left to look at: idle, refused because of the latch, or recovered.
Resume(job) ==
  LET clear == IF job = "boot" THEN <<"clear">> ELSE <<>> IN
  IF ~Loads(journal) THEN Refuses(job, <<"latch!">>)
  ELSE IF Idles(journal) THEN Begins(job, clear \o <<"unpend">>)
  ELSE IF disk.latch THEN Refuses(job, <<>>)
  ELSE Begins(job, clear \o <<"downloads", "reconcile", "unpend">>)

BootUnit ==
  /\ host.state = "starting" /\ proc.job = "none"
  /\ Resume("boot")
  /\ UNCHANGED <<journal, disk, markers, units, agent, host, policy, tried, cause, budget>>

\* A command that cannot read its policy, the host or the lock has not begun; one that cannot
\* read the journal asks for the operator.
Unreadable(job) ==
  /\ host.state = (IF job = "boot" THEN "starting" ELSE "up") /\ proc.job = "none"
  /\ budget.faults > 0
  /\ budget' = [budget EXCEPT !.faults = @ - 1]
  /\ job = "remote" => disk.request # 0
  /\ disk' = IF job = "remote" THEN [disk EXCEPT !.request = 0] ELSE disk
  /\ \/ Refuses(job, <<"latch!">>) /\ cause' = TRUE
     \/ Refuses(job, <<>>) /\ cause' = (cause \/ job = "boot")
  /\ UNCHANGED <<journal, markers, units, agent, host, policy, tried>>

TimerUnit ==
  /\ host.state = "up" /\ proc.job = "none"
  /\ disk.pending /\ ~disk.latch
  /\ Resume("reconcile")
  /\ UNCHANGED <<journal, disk, markers, units, agent, host, policy, tried, cause, budget>>

Apply ==
  /\ host.state = "up" /\ proc.job = "none"
  /\ policy # "paused" /\ budget.applies > 0
  /\ IF ~Loads(journal) THEN Refuses("apply", <<"latch!">>)
     ELSE /\ ~disk.latch /\ Terminal(journal.phase)
          /\ Begins("apply", <<"collect", "fetch", "unpend">>)
  /\ budget' = [budget EXCEPT !.applies = @ - 1]
  /\ UNCHANGED <<journal, disk, markers, units, agent, host, policy, tried, cause>>

\* The Agent passes on a request of the panel when its public status allows one.
Enqueue(id) ==
  /\ agent.run # 0 /\ policy # "paused" /\ disk.request = 0
  /\ ~disk.latch /\ journal.phase # "manual"
  /\ Terminal(journal.phase) \/ Owns(journal)
  /\ journal.remote # NoRemote => journal.remote.status \notin InProgress
  /\ disk' = [disk EXCEPT !.request = id]
  /\ UNCHANGED <<journal, markers, units, agent, host, proc, policy, tried, cause, budget>>

\* The request is taken before it is known whether it can be executed; the cool-down may be over.
Remote ==
  /\ host.state = "up" /\ disk.request # 0
  /\ disk' = [disk EXCEPT !.request = 0]
  /\ \/ /\ proc.job = "none" /\ Loads(journal) /\ ~disk.latch /\ Terminal(journal.phase)
        /\ policy # "paused" /\ budget.applies > 0
        /\ journal.remote # NoRemote => journal.remote.id # disk.request
        /\ proc' = [job |-> "remote", ok |-> TRUE,
                    todo |-> <<"pend", "save", "collect", "fetch", "unpend", "result">>,
                    mem |-> [journal EXCEPT !.remote = [id |-> disk.request, target |-> 0,
                                                        status |-> "downloading"]]]
        /\ budget' = [budget EXCEPT !.applies = @ - 1]
     \/ UNCHANGED <<proc, budget>>   \* too early, a replay, refused, or the lock is busy
  /\ UNCHANGED <<journal, markers, units, agent, host, policy, tried, cause>>

----------------------------------------------------------------------------
(* The privileged units, the Agent, the operator and the host.              *)

Invocation(run) == [run |-> run, inv |-> agent.inv + 1, healthy |-> FALSE]

Preflight ==
  /\ host.state = "up" /\ "preflight" \in markers
  /\ markers' = markers \ {"preflight"}
  /\ units' = [units EXCEPT !.probe.state = "activating"]
  /\ UNCHANGED <<journal, disk, agent, host, proc, policy, tried, cause, budget>>

Probed ==
  /\ units.probe.state = "activating"
  /\ \E ok \in BOOLEAN :
       units' = [units EXCEPT !.probe = [state |-> IF ok THEN "active" ELSE "failed",
                                         fresh |-> TRUE, ok |-> ok]]
  /\ UNCHANGED <<journal, disk, markers, agent, host, proc, policy, tried, cause, budget>>

StopUnit ==
  /\ host.state = "up" /\ "stop" \in markers /\ units.stop.state = "inactive"
  /\ markers' = markers \ {"stop"}
  /\ units' = [units EXCEPT !.stop.state = "activating"]
  /\ UNCHANGED <<journal, disk, agent, host, proc, policy, tried, cause, budget>>

Stopped ==
  /\ units.stop.state = "activating"
  /\ \E ok \in BOOLEAN :
       /\ units' = [units EXCEPT !.stop = [state |-> "inactive", fresh |-> TRUE, ok |-> ok]]
       /\ agent' = IF ok THEN [agent EXCEPT !.run = 0, !.healthy = FALSE] ELSE agent
  /\ UNCHANGED <<journal, disk, markers, host, proc, policy, tried, cause, budget>>

RestartUnit ==
  /\ host.state = "up" /\ "restart" \in markers /\ agent.inv < MaxStarts
  /\ markers' = markers \ {"restart"}
  /\ agent' = Invocation(disk.active)
  /\ UNCHANGED <<journal, disk, units, host, proc, policy, tried, cause, budget>>

\* After a boot, and whenever its process ends, systemd starts what "active" points at.
AgentStarts ==
  /\ host.state = "up" /\ agent.inv < MaxStarts
  /\ agent.run # 0 \/ agent.inv = 0
  /\ agent' = Invocation(disk.active)
  /\ UNCHANGED <<journal, disk, markers, units, host, proc, policy, tried, cause, budget>>

\* A report was acknowledged: the process publishes evidence of its health.
AgentReports ==
  /\ agent.run # 0 /\ ~agent.healthy
  /\ agent' = [agent EXCEPT !.healthy = TRUE]
  /\ UNCHANGED <<journal, disk, markers, units, host, proc, policy, tried, cause, budget>>

Operator ==
  /\ policy' = CASE policy = "enabled" -> "paused" [] policy = "paused" -> "resumed"
                 [] OTHER -> policy
  /\ policy # "resumed"
  /\ UNCHANGED <<journal, disk, markers, units, agent, host, proc, tried, cause, budget>>

\* A time limit of systemd, or the operator; the recovery unit has failed then.  A download may
\* leave an object that is not plainly its own.
Killed ==
  /\ proc.job # "none" /\ proc.todo # <<>> /\ budget.kills > 0
  /\ budget' = [budget EXCEPT !.kills = @ - 1]
  /\ proc' = NoJob
  /\ host' = IF proc.job = "boot" THEN [host EXCEPT !.state = "held"] ELSE host
  /\ cause' = (cause \/ proc.job = "boot")
  /\ \/ UNCHANGED disk
     \/ Head(proc.todo) = "object" /\ disk' = [disk EXCEPT !.litter = TRUE]
  /\ UNCHANGED <<journal, markers, units, agent, policy, tried>>

\* Power is lost or the host restarts: files stay, processes and the units' state do not.
Reboot ==
  /\ host.boot < MaxBoots
  /\ host' = [boot |-> host.boot + 1, state |-> "starting"]
  /\ proc' = NoJob
  /\ agent' = [run |-> 0, inv |-> 0, healthy |-> FALSE]
  /\ units' = [probe |-> [state |-> "inactive", fresh |-> FALSE, ok |-> TRUE],
               stop |-> [state |-> "inactive", fresh |-> FALSE, ok |-> TRUE]]
  /\ UNCHANGED <<journal, disk, markers, policy, tried, cause, budget>>

Commands ==
  \/ BootUnit \/ TimerUnit \/ Apply \/ Remote
  \/ \E job \in {"boot", "reconcile", "apply", "remote"} : Unreadable(job)
  \/ \E id \in Request : Enqueue(id)

Works ==
  /\ proc.todo # <<>>
  /\ \/ Reconcile \/ RecoverAfterIntent \/ Collect \/ Fetch \/ Current
     \/ Prepare \/ Open \/ RecoverDownload \/ Result \/ Step \/ StepFails
     \/ ReadFails

Environment ==
  \/ Preflight \/ Probed \/ StopUnit \/ Stopped \/ RestartUnit
  \/ AgentStarts \/ AgentReports \/ Operator \/ Killed \/ Reboot

UpdaterNext == Commands \/ Works \/ Exit \/ Environment

UpdaterSpec == UpdaterInit /\ [][UpdaterNext]_updaterVars

----------------------------------------------------------------------------
(* Properties.                                                              *)

Txs == {NoTx} \cup [from : Release, to : Release, boot : 1 .. MaxBoots, old : 0 .. MaxStarts,
                    asked : BOOLEAN, stable : 0 .. MaxStarts]
Remotes == {NoRemote} \cup [id : Request, target : Release \cup {0},
                            status : Phases \cup {"downloading", "up_to_date", "failed"}]
Journals == [phase : Phases, installed : Release, seen : Release, floor : Release,
             failed : SUBSET Release, tx : Txs, remote : Remotes]
Unit == [state : {"inactive", "activating", "active", "failed"}, fresh : BOOLEAN, ok : BOOLEAN]

\* The journal, the files, the units and the process keep to their kinds, and a journal that
\* does not ask for the operator can be read back (state.rs validates it and its objects).
UpdaterTypeOK ==
  /\ journal.phase # "manual" => Loads(journal)
  /\ journal \in Journals
  /\ disk \in [active : Release, candidate : Release, objects : SUBSET Release,
               pending : BOOLEAN, latch : BOOLEAN, litter : BOOLEAN,
               request : Request \cup {0}]
  /\ markers \subseteq {"restart", "stop", "preflight"}
  /\ units \in [probe : Unit, stop : Unit]
  /\ agent \in [run : Release \cup {0}, inv : 0 .. MaxStarts, healthy : BOOLEAN]
  /\ host \in [boot : 1 .. MaxBoots, state : {"up", "starting", "held"}]
  /\ proc.job \in {"none", "boot", "reconcile", "apply", "remote"} /\ proc.ok \in BOOLEAN
  /\ proc.job # "none" => proc.mem \in Journals
  /\ policy \in {"enabled", "paused", "resumed"} /\ tried \in 0 .. MaxBoots /\ cause \in BOOLEAN

\* A settled journal names what "active" points at; the Agent runs the installed release or
\* the candidate of the open trial, and a candidate that was not confirmed before a restart
\* of the host never runs after it (activate.rs, gate.rs, nodelite-agent.service).
RunsKnownGood ==
  /\ Terminal(journal.phase) => disk.active = journal.installed
  /\ agent.run \notin {0, journal.installed} =>
       /\ journal.tx # NoTx
       /\ agent.run = journal.tx.to
       /\ tried = host.boot

\* Wherever a process is killed or the power is lost, the updater goes on by itself: an open
\* transaction keeps the mark its timer waits for and the objects it names, and the operator is
\* needed, or the Agent held back at boot, only when an open transaction met a change or a read
\* that failed or a unit that did not answer in time, when the journal could not be read, or
\* when the recovery unit failed or ran out of its time at boot.
CrashesRecoverAlone ==
  /\ journal.phase = "manual" \/ disk.latch \/ host.state = "held" => cause
  /\ ~Terminal(journal.phase) /\ ~cause => disk.pending
  /\ {disk.active, journal.installed} \subseteq disk.objects
  /\ journal.tx # NoTx => {journal.tx.from, journal.tx.to} \subseteq disk.objects

\* What is activated stays safe: the release that runs is known to be good, and every crash on the way there
\* is recovered from without an operator (activate.rs, recovery.rs).
ActivationIsSafe == RunsKnownGood /\ CrashesRecoverAlone

=============================================================================
