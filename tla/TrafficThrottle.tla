--------------------------- MODULE TrafficThrottle ---------------------------
(***************************************************************************)
(* From a quota to the kernel: the server decides after every metrics      *)
(* frame which limit a node should have (ws/traffic_quota.rs), tells the   *)
(* agent when that has changed (ws/session.rs), and the agent's controller *)
(* brings the police filters of the default route's interface in line,     *)
(* with retries, partial failures and route changes (agent:                *)
(* traffic_control.rs, traffic_control/policy.rs, session.rs).             *)
(*                                                                         *)
(* Usage is a flag here, over or under the threshold; TrafficLedger says   *)
(* how it comes about.  A rate of 0 stands for "no limit".  Interfaces     *)
(* keep their filters: one that is destroyed and created again under the   *)
(* same name is not modelled.                                              *)
(***************************************************************************)
EXTENDS Integers, Sequences, SequencesExt

CONSTANTS
  Iface,        \* interfaces the default route may use
  NoIface,
  Limit,        \* rates a quota may ask for
  MaxAttempts,  \* MAX_APPLY_ATTEMPTS
  MaxFaults     \* bound: failures, reconnections, route and quota changes

ASSUME ThrottleAssumption ==
  /\ NoIface \notin Iface
  /\ Limit \subseteq Nat \ {0}
  /\ MaxAttempts \in Nat \ {0} /\ MaxFaults \in Nat

VARIABLES
  quota,      \* the throttle configured for the node, 0 if none
  over,       \* usage has reached the threshold
  ledger,     \* the ledger can be asked
  later,      \* the month is later than the one the server started in
  lastSent,   \* loop_state.last_sent_throttle_kbps
  link,       \* throttle messages on their way
  session,    \* "up" or "down"
  ctl,        \* the session's TrafficController
  route,      \* interface of the default route
  filters,    \* the kernel's NodeLite filters, by interface and direction
  found,      \* interfaces with filters of earlier sessions when this one began
  faults

quotaVars == <<quota, over, ledger, later>>
throttleVars == <<quotaVars, lastSent, link, session, ctl, route, filters, found, faults>>

-----------------------------------------------------------------------------
Dir == {"ingress", "egress"}
Unset == -1
Rate == Limit \cup {0}

Fault == faults < MaxFaults /\ faults' = faults + 1

(* TrafficController::default.  "quit" is a ghost: the attempts have been   *)
(* used up, and the limit that was sent last has not been applied since.   *)
Fresh == [applied |-> Unset, iface |-> NoIface, owned |-> {}, desired |-> Unset,
          retry |-> FALSE, attempts |-> 0, state |-> "ready", quit |-> FALSE]

(* tc commands, each of which sets or removes one filter: replacing one is *)
(* a removal first.                                                        *)
Cmd(i, d, r) == [iface |-> i, dir |-> d, rate |-> r]
Removal(i) == <<Cmd(i, "ingress", 0), Cmd(i, "egress", 0)>>
Replacement(i, r) ==
  <<Cmd(i, "ingress", 0), Cmd(i, "ingress", r), Cmd(i, "egress", 0), Cmd(i, "egress", r)>>

Run(cmds) ==
  FoldLeft(LAMBDA f, c : [f EXCEPT ![c.iface][c.dir] = c.rate], filters, cmds)

(* policy::plan: the target first, then every other interface that may     *)
(* hold rules of this controller.                                          *)
ForgetsStale(c) == <<>>
StaleRemovals(c) ==
  FoldLeft(LAMBDA s, i : s \o Removal(i), <<>>, SetToSeq(c.owned \ {route}))

Commands(c, r) ==
  (IF r = 0 THEN Removal(route) ELSE Replacement(route, r)) \o StaleRemovals(c)

(* schedule_retry, and fail: what was confirmed no longer is.              *)
Scheduled(c) ==
  LET more == c.attempts + 1 < MaxAttempts
  IN [c EXCEPT !.attempts = IF more THEN @ + 1 ELSE MaxAttempts, !.retry = more,
               !.quit = @ \/ ~more]
KeepsConfirmed(c) == [Scheduled(c) EXCEPT !.state = "retrying"]
Failed(c) ==
  [Scheduled(c) EXCEPT !.applied = Unset, !.iface = NoIface,
     !.state = IF c.attempts + 1 < MaxAttempts THEN "retrying" ELSE "failed"]

(* apply_with, up to the question whether tc can be run.                   *)
Asked(c, r) ==
  [c EXCEPT !.desired = r, !.attempts = IF c.desired # r THEN 0 ELSE @,
            !.retry = FALSE, !.state = "unavailable"]

(* A controller that is already there does nothing.  Otherwise the         *)
(* commands run until one fails; record_outcome keeps every interface that *)
(* may still hold a rule.                                                  *)
Applies(r) ==
  LET c == Asked(ctl, r)
      cmds == Commands(c, r)
      done == [c EXCEPT !.state = "applied", !.quit = @ /\ r # lastSent]
  IN \/ /\ c.applied = r /\ c.iface = route /\ route # NoIface
        /\ ctl' = done
        /\ UNCHANGED <<filters, faults>>
     \/ /\ route # NoIface /\ ~(c.applied = r /\ c.iface = route)
        /\ filters' = Run(cmds)
        /\ ctl' = [done EXCEPT !.applied = r, !.iface = route, !.attempts = 0,
                               !.owned = IF r = 0 THEN {} ELSE {route}]
        /\ UNCHANGED faults
     \/ /\ route # NoIface /\ ~(c.applied = r /\ c.iface = route)
        /\ Fault
        /\ \E k \in 0..(Len(cmds) - 1) : filters' = Run(SubSeq(cmds, 1, k))
        /\ ctl' = Failed([c EXCEPT !.owned = @ \cup {route}])
     \/ /\ route = NoIface \* default_route_interface fails
        /\ ctl' = Failed(c)
        /\ UNCHANGED <<filters, faults>>
     \/ /\ Fault           \* tc is not found: the outcome is Unavailable
        /\ ctl' = Scheduled(c)
        /\ UNCHANGED filters

Ruled(i) == \E d \in Dir : filters[i][d] # 0

-----------------------------------------------------------------------------
ThrottleInit ==
  /\ quota \in Rate /\ over = FALSE /\ ledger = TRUE /\ later = FALSE
  /\ lastSent = Unset /\ link = <<>>
  /\ session = "down" /\ ctl = Fresh
  /\ route \in Iface
  /\ filters = [i \in Iface |-> [d \in Dir |-> 0]]
  /\ found = {} /\ faults = 0

-----------------------------------------------------------------------------
(* The server.                                                             *)

(* record_and_decide: the decisions that are sent; holding is none of them.*)
WithoutLedger == IF quota = 0 \/ later THEN {0} ELSE {}
Decisions ==
  IF quota = 0 THEN {0}
  ELSE IF ledger THEN {IF over THEN quota ELSE 0} ELSE WithoutLedger

(* maybe_send_network_throttle: only a change is sent.                     *)
Metrics ==
  /\ session = "up" /\ link = <<>>
  /\ \E r \in Decisions :
       /\ r # lastSent
       /\ lastSent' = r
       /\ link' = Append(link, r)
  /\ UNCHANGED <<quotaVars, session, ctl, route, filters, found, faults>>

SetQuota(q) ==
  /\ Fault /\ q # quota
  /\ quota' = q
  /\ UNCHANGED <<over, ledger, later, lastSent, link, session, ctl, route, filters, found>>

Exceed ==
  /\ ~over /\ over' = TRUE
  /\ UNCHANGED <<quota, ledger, later, lastSent, link, session, ctl, route, filters, found, faults>>

(* A new month starts with no usage.                                       *)
NewMonth ==
  /\ Fault
  /\ over' = FALSE /\ later' = TRUE
  /\ UNCHANGED <<quota, ledger, lastSent, link, session, ctl, route, filters, found>>

LedgerLoads ==
  /\ ~ledger /\ ledger' = TRUE
  /\ UNCHANGED <<quota, over, later, lastSent, link, session, ctl, route, filters, found, faults>>

(* The server restarts, perhaps without a ledger it can read: "later" is   *)
(* measured from its start.                                                *)
ServerRestart ==
  /\ Fault
  /\ ledger' \in BOOLEAN /\ later' = FALSE
  /\ session' = "down" /\ link' = <<>> /\ lastSent' = Unset
  /\ UNCHANGED <<quota, over, ctl, route, filters, found>>

-----------------------------------------------------------------------------
(* The agent.  A session has a controller of its own.                      *)

Connect ==
  /\ session = "down"
  /\ session' = "up" /\ lastSent' = Unset /\ link' = <<>>
  /\ ctl' = Fresh
  /\ found' = {i \in Iface : Ruled(i)}
  /\ UNCHANGED <<quotaVars, route, filters, faults>>

(* The connection is lost, at worst in the middle of a plan: a deadline    *)
(* drops the session with its controller.                                  *)
Disconnect ==
  /\ session = "up" /\ Fault
  /\ session' = "down" /\ link' = <<>>
  /\ \/ UNCHANGED filters
     \/ /\ link # <<>> /\ route # NoIface
        /\ \E k \in 1..(Len(Commands(ctl, Head(link))) - 1) :
             filters' = Run(SubSeq(Commands(ctl, Head(link)), 1, k))
  /\ UNCHANGED <<quotaVars, lastSent, ctl, route, found>>

(* NetworkThrottle, a retry that is due, and the route check before a      *)
(* report: apply_network_throttle.                                         *)
Receive ==
  /\ session = "up" /\ link # <<>>
  /\ Applies(Head(link))
  /\ link' = Tail(link)
  /\ UNCHANGED <<quotaVars, lastSent, session, route, found>>

Retry ==
  /\ session = "up" /\ ctl.retry
  /\ Applies(ctl.desired)
  /\ UNCHANGED <<quotaVars, lastSent, link, session, route, found>>

Drifted ==
  ~ctl.retry /\ ctl.applied \in Limit /\ route \notin {NoIface, ctl.iface}

FollowRoute ==
  /\ session = "up" /\ Drifted
  /\ Applies(ctl.applied)
  /\ UNCHANGED <<quotaVars, lastSent, link, session, route, found>>

RouteMoves(i) ==
  /\ Fault /\ i # route
  /\ route' = i
  /\ UNCHANGED <<quotaVars, lastSent, link, session, ctl, filters, found>>

(* The agent starts again: cleanup_leftover_rules visits every interface,  *)
(* and goes on when one fails.                                             *)
AgentRestart ==
  /\ Fault
  /\ session' = "down" /\ link' = <<>> /\ ctl' = Fresh
  /\ filters' = [i \in Iface |-> [d \in Dir |-> 0]]
  /\ UNCHANGED <<quotaVars, lastSent, route>>
  /\ found' = {}

-----------------------------------------------------------------------------
AgentActs == Connect \/ Receive \/ Retry \/ FollowRoute

ThrottleNext ==
  \/ Metrics \/ Exceed \/ NewMonth \/ LedgerLoads \/ ServerRestart
  \/ \E q \in Rate : SetQuota(q)
  \/ AgentActs \/ Disconnect \/ AgentRestart
  \/ \E i \in Iface \cup {NoIface} : RouteMoves(i)

ThrottleSpec == ThrottleInit /\ [][ThrottleNext]_throttleVars

-----------------------------------------------------------------------------
ThrottleTypeOK ==
  /\ quota \in Rate /\ lastSent \in Rate \cup {Unset}
  /\ Len(link) <= 1 /\ session \in {"up", "down"}
  /\ ctl.applied \in Rate \cup {Unset} /\ ctl.owned \subseteq Iface
  /\ ctl.attempts \in 0..MaxAttempts
  /\ ctl.state \in {"ready", "unavailable", "applied", "retrying", "failed"}
  /\ filters \in [Iface -> [Dir -> Rate]]

(* OwnedCoversRules: the interfaces on which a session's controller has    *)
(* set a rule are among those it will clean up, through plans that failed  *)
(* half way and route changes (record_outcome: stale entries stay tracked  *)
(* until a later attempt confirms their removal), and what it takes as     *)
(* confirmed is what the kernel does in both directions.                   *)
OwnedCoversRules ==
  session = "up" =>
    /\ \A i \in Iface : Ruled(i) => i \in ctl.owned \cup found
    /\ ctl.applied # Unset => \A d \in Dir : filters[ctl.iface][d] = ctl.applied

(* SettledIsThrottled: when nobody has anything left to do, the interface  *)
(* of the default route is limited exactly if the node's usage asks for    *)
(* it, after lost connections, restarts, partial failures and a ledger     *)
(* that was not available for a while (retry_tests.rs: failures converge   *)
(* without a new policy or connection).  A controller that has used up its *)
(* attempts has given up on what it was sent, and while tc was missing it  *)
(* still has its last limit for the one that applies; a month is known to  *)
(* be new only by its first frame.  An interface on which an earlier       *)
(* session left rules is put in order when this session plans for it, and  *)
(* not before: see below.                                                  *)
Quiet ==
  /\ session = "up" /\ link = <<>> /\ ledger
  /\ Decisions = {lastSent}
  /\ ~ctl.retry /\ ~Drifted /\ route # NoIface
Settled == Quiet /\ ~ctl.quit
SettledIsThrottled ==
  Settled /\ (route \in found => ctl.iface = route) =>
    \A d \in Dir : filters[route][d] = IF over THEN quota ELSE 0

(* The throttle as a whole: what a session set it cleans up, and what it   *)
(* settles on is what usage asks for (nodelite-agent traffic_control.rs).  *)
ThrottleSettles == OwnedCoversRules /\ SettledIsThrottled

(* RulesFollowTheRoute: when it has settled, no other interface is limited *)
(* (docs/traffic-control.md: when the default route moves to another       *)
(* interface, the rules migrate to it).                                    *)
RulesFollowTheRoute == Settled => \A i \in Iface \ {route} : ~Ruled(i)
===============================================================================
