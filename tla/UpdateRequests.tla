---------------------------- MODULE UpdateRequests ----------------------------
(***************************************************************************)
(* An administrator asks a node to update its agent (handlers/settings/    *)
(* agent_update.rs).  The server keeps what it asked and what it heard     *)
(* (agent_updates.rs); the request goes through the session's queue to the *)
(* agent, which hands it to the node's updater or refuses it               *)
(* (nodelite-agent remote_update.rs), and reports the updater's public     *)
(* status when it changes (session/connection.rs).  Sessions break at any  *)
(* time, with requests and reports under way; the server restarts, the     *)
(* node is removed; the updater may refuse, succeed or roll back.          *)
(*                                                                         *)
(* A tick is the life of a request.  Reasons, versions and channels are    *)
(* left out.  The clocks of the two hosts agree; a refusal of the agent    *)
(* for whatever is wrong on its host is a choice.                          *)
(***************************************************************************)
EXTENDS Integers, Sequences

CONSTANTS
  Lifetime,      \* REQUEST_LIFETIME_SECS
  UpdateCooldown,\* UPDATE_COOLDOWN_SECS
  UpdateIds,     \* bound: requests, 1..UpdateIds
  Links,         \* bound: sessions of the agent, 1..Links
  UpdateTicks,   \* bound: time
  Restarts       \* bound: restarts of the server and removals of the node

ASSUME UpdateRequestsAssumption ==
  /\ {Lifetime, UpdateCooldown} \subseteq Nat \ {0}
  /\ {UpdateIds, Links, UpdateTicks, Restarts} \subseteq Nat

VARIABLES
  clock,      \* time
  entry,      \* AgentUpdates' Entry of the node
  call,       \* the update request the settings page is making
  link,       \* sessions: the server's queue, the two directions, the agent's side
  line,       \* the session the agent is in, or 0
  updater,    \* the node's updater: request file, journal, public status
  reached,    \* phases the updater has published for each request
  lost        \* restarts and removals so far

serverVars == <<entry, call>>
updateVars == <<clock, entry, call, link, line, updater, reached, lost>>

InProgressPhases == {"queued", "downloading", "trial"}
Outcomes == {"committed", "rolled_back"}     \* up_to_date goes as committed
RemotePhases == {"idle", "failed", "unknown", "manual_recovery"} \cup InProgressPhases \cup Outcomes

Status(cap, phase, id, next) == [cap |-> cap, phase |-> phase, id |-> id, next |-> next]
Unavailable == Status("disabled", "idle", 0, 0)
Untold == Status("disabled", "unknown", 0, 0)     \* last_update_status is None

NoRequest == [id |-> 0, expires |-> 0]
Never == -1
NewEntry == [session |-> 0, online |-> FALSE, reported |-> FALSE, requested |-> Never,
             request |-> NoRequest, status |-> Unavailable]
NoUpdates == [NewEntry EXCEPT !.session = -1]
Known == entry # NoUpdates

NoCall == [stage |-> "none", request |-> NoRequest]
NewLink == [stage |-> "none", commands |-> <<>>, down |-> <<>>, up |-> <<>>, told |-> Untold]
IdleUpdater == [file |-> NoRequest, id |-> 0, phase |-> "idle", accepted |-> 0, cap |-> "ready"]

UpdatesInit ==
  /\ clock = 0 /\ entry = NoUpdates /\ call = NoCall
  /\ link = [s \in 1..Links |-> NewLink] /\ line = 0
  /\ updater = IdleUpdater
  /\ reached = [i \in 1..UpdateIds |-> {}]
  /\ lost = 0

-----------------------------------------------------------------------------
(* Sessions.                                                               *)

(* Entries of other nodes may have taken every place.                      *)
BeginUpdateSession(s) ==
  /\ link[s].stage = "none" /\ \A r \in 1..s - 1 : link[r].stage # "none"
  /\ \E room \in BOOLEAN :
       LET e == IF Known THEN entry ELSE NewEntry IN
       entry' = IF ~Known /\ ~room THEN entry
                ELSE IF s > e.session
                THEN [e EXCEPT !.session = s, !.online = TRUE, !.reported = FALSE]
                ELSE e
  /\ link' = [link EXCEPT ![s].stage = "open"] /\ line' = s
  /\ UNCHANGED <<clock, call, updater, reached, lost>>

(* The agent's end is gone; what it sent may still be read.                *)
Break(s) ==
  /\ line = s
  /\ line' = 0
  /\ link' = [link EXCEPT ![s].down = <<>>, ![s].told = Untold]
  /\ UNCHANGED <<clock, serverVars, updater, reached, lost>>

(* is_current_session: no newer one was registered.                        *)
Latest(s) == \A r \in s + 1..Links : link[r].stage = "none"

EndsUpdates(s) ==
  entry' = IF Known /\ entry.session = s THEN [entry EXCEPT !.online = FALSE] ELSE entry

EndUpdateSession(s) ==
  /\ link[s].stage = "open"
  /\ EndsUpdates(s)
  /\ link' = [link EXCEPT ![s] = [NewLink EXCEPT !.stage = "over"]]
  /\ line' = IF line = s THEN 0 ELSE line
  /\ UNCHANGED <<clock, call, updater, reached, lost>>

(* Server restart: what the server knew, and every session, are gone.      *)
RestartServer ==
  /\ lost < Restarts /\ lost' = lost + 1
  /\ entry' = NoUpdates /\ call' = NoCall /\ line' = 0
  /\ link' = [s \in 1..Links |-> IF link[s].stage = "open" THEN [NewLink EXCEPT !.stage = "over"]
                                                           ELSE link[s]]
  /\ UNCHANGED <<clock, updater, reached>>

(* forget(): the node was removed.  retain(): offline for longer than any  *)
(* cool-down.                                                              *)
CoolAt(requested) == requested = Never \/ clock - requested >= UpdateCooldown

ForgetUpdates ==
  /\ Known
  /\ \/ lost < Restarts /\ lost' = lost + 1
     \/ ~entry.online /\ CoolAt(entry.requested) /\ UNCHANGED lost
  /\ entry' = NoUpdates
  /\ UNCHANGED <<clock, call, link, line, updater, reached>>

-----------------------------------------------------------------------------
(* The settings page.                                                      *)

Expired(e) == e.status.phase = "queued" /\ e.request # NoRequest /\ e.request.expires <= clock

(* What an administrator sees, and whether the button is offered.          *)
ShownPhase(e) == IF Expired(e) THEN "unknown" ELSE e.status.phase
CanUpdate(e) ==
  /\ e.online /\ e.reported /\ CoolAt(e.requested)
  /\ e.status.cap = "ready" /\ clock >= e.status.next
  /\ ShownPhase(e) \notin InProgressPhases

Lapsed(e) == IF Expired(e) THEN [e EXCEPT !.status.phase = "unknown"] ELSE e

Available(e) == e.online /\ e.reported /\ e.status.cap = "ready"
Busy(e) == e.status.phase \in InProgressPhases
RateLimited(e) == ~CoolAt(e.requested) \/ clock < e.status.next
Reservable(e) == Available(e) /\ ~Busy(Lapsed(e)) /\ ~RateLimited(e)

Reserve(i) ==
  /\ Known /\ call.stage = "none"
  /\ reached[i] = {} /\ \A j \in 1..i - 1 : reached[j] # {}
  /\ LET e == Lapsed(entry)
         request == [id |-> i, expires |-> clock + Lifetime]
     IN
       IF Reservable(e)
         THEN /\ entry' = [e EXCEPT !.requested = clock, !.request = request,
                             !.status.phase = "queued", !.status.id = i]
              /\ call' = [stage |-> "reserved", request |-> request]
              /\ reached' = [reached EXCEPT ![i] = {"queued"}]
         ELSE e # entry /\ entry' = e /\ UNCHANGED <<call, reached>>
  /\ UNCHANGED <<clock, link, line, updater, lost>>

(* request_agent_update: the current session's queue, if it has room.      *)
Deliver ==
  /\ call.stage = "reserved"
  /\ \/ \E s \in 1..Links :
          /\ link[s].stage = "open" /\ Latest(s)
          /\ link' = [link EXCEPT ![s].commands = Append(@, call.request)]
          /\ call' = NoCall
     \/ call' = [call EXCEPT !.stage = "undelivered"] /\ UNCHANGED link
  /\ UNCHANGED <<clock, entry, line, updater, reached, lost>>

FailsOwn(e, i) == IF e.status.id = i THEN [e EXCEPT !.status.phase = "failed"] ELSE e

DeliveryFailed ==
  /\ call.stage = "undelivered"
  /\ entry' = IF Known THEN FailsOwn(entry, call.request.id) ELSE entry
  /\ call' = NoCall
  /\ UNCHANGED <<clock, link, line, updater, reached, lost>>

-----------------------------------------------------------------------------
(* The session's loop, on the server.                                      *)

Live(request) == request.expires > clock

SendRequest(s) ==
  /\ link[s].stage = "open" /\ link[s].commands # <<>>
  /\ LET r == Head(link[s].commands) IN
       IF Live(r) /\ Latest(s)
         THEN /\ link' = [link EXCEPT ![s].commands = Tail(@),
                            ![s].down = IF line = s THEN Append(@, r) ELSE @]
              /\ UNCHANGED <<entry, line>>
         ELSE /\ link' = [link EXCEPT ![s] = [NewLink EXCEPT !.stage = "over"]]
              /\ line' = IF line = s THEN 0 ELSE line
              /\ EndsUpdates(s)
  /\ UNCHANGED <<clock, call, updater, reached, lost>>

(* A session that is no longer current ends on a frame, unless it was when *)
(* it checked.  AgentUpdates::record: once something was asked of the node, only what   *)
(* is about that request replaces its status.                              *)
RecordsAnything(e, status) == [e EXCEPT !.reported = TRUE, !.status = status]
Recorded(e, status) ==
  LET expected == e.request.id
      told == [e EXCEPT !.reported = TRUE]
  IN IF expected \in {0, status.id} THEN [told EXCEPT !.status = status]
     ELSE [told EXCEPT !.status.cap = status.cap,
             !.status.phase = IF status.cap = "manual_recovery" THEN "manual_recovery" ELSE @]

ReceiveStatus(s) ==
  /\ link[s].stage = "open" /\ link[s].up # <<>>
  /\ entry' = IF Known /\ entry.session = s /\ entry.online
                THEN Recorded(entry, Head(link[s].up)) ELSE entry
  /\ link' = [link EXCEPT ![s].up = Tail(@)]
  /\ UNCHANGED <<clock, call, line, updater, reached, lost>>

-----------------------------------------------------------------------------
(* The agent.                                                              *)

Public ==
  Status(updater.cap, IF updater.cap = "manual_recovery" THEN "manual_recovery" ELSE updater.phase,
         updater.id, IF updater.id = 0 THEN 0 ELSE updater.accepted + UpdateCooldown)

ReadStatus(readable) == IF readable THEN Public ELSE Unavailable

(* report_update_status: with every report, if it changed in this session. *)
ReportStatus(s) ==
  /\ line = s
  /\ \E readable \in BOOLEAN :
       LET status == ReadStatus(readable) IN
       /\ status # link[s].told
       /\ link' = [link EXCEPT ![s].up = Append(@, status), ![s].told = status]
  /\ Len(link[s].up) < 2
  /\ UNCHANGED <<clock, serverVars, line, updater, reached, lost>>

(* remote_update::request: checked again, then left for the updater.       *)
MayEnqueue(r, status) ==
  /\ Live(r) /\ status.cap = "ready" /\ status.phase \notin InProgressPhases
  /\ clock >= status.next /\ updater.file = NoRequest

(* enqueue: the file is renamed into place and then made durable; when the *)
(* latter fails the request is reported as failed though it is there.      *)
Enqueued == {[left |-> FALSE, ok |-> FALSE], [left |-> TRUE, ok |-> FALSE],
             [left |-> TRUE, ok |-> TRUE]}

TakeRequest(s) ==
  /\ line = s /\ link[s].down # <<>>
  /\ LET r == Head(link[s].down) IN
     \E readable \in BOOLEAN : \E done \in Enqueued :
       LET status == ReadStatus(readable)
           may == MayEnqueue(r, status)
       IN /\ updater' = IF may /\ done.left THEN [updater EXCEPT !.file = r] ELSE updater
          /\ link' = [link EXCEPT ![s].down = Tail(@),
                        ![s].up = Append(@, [status EXCEPT !.id = r.id,
                                    !.phase = IF may /\ done.ok THEN "queued" ELSE "failed"])]
  /\ UNCHANGED <<clock, serverVars, line, reached, lost>>

-----------------------------------------------------------------------------
(* The node's updater, as far as the agent sees it; UpdaterActivation has  *)
(* the rest.                                                               *)

Publish(phase) ==
  /\ updater' = [updater EXCEPT !.phase = phase]
  /\ reached' = [reached EXCEPT ![updater.id] = @ \cup {phase}]

AcceptRequest ==
  LET r == updater.file IN
  /\ r # NoRequest
  /\ \/ updater' = [updater EXCEPT !.file = NoRequest] /\ UNCHANGED reached
     \/ /\ Live(r) /\ updater.cap = "ready" /\ updater.phase \notin InProgressPhases
        /\ updater.id # r.id
        /\ updater.id = 0 \/ clock >= updater.accepted + UpdateCooldown
        /\ updater' = [updater EXCEPT !.file = NoRequest, !.id = r.id, !.accepted = clock,
                                      !.phase = "downloading"]
        /\ reached' = [reached EXCEPT ![r.id] = @ \cup {"downloading"}]
  /\ UNCHANGED <<clock, serverVars, link, line, lost>>

Progress ==
  /\ \/ updater.phase = "downloading" /\ \E p \in {"trial", "committed", "failed"} : Publish(p)
     \/ updater.phase = "trial" /\ \E p \in {"committed", "rolled_back"} : Publish(p)
     \/ /\ updater.cap = "ready" /\ updater.phase = "trial"
        /\ updater' = [updater EXCEPT !.cap = "manual_recovery"] /\ UNCHANGED reached
  /\ UNCHANGED <<clock, serverVars, link, line, lost>>

Elapse ==
  /\ clock < UpdateTicks
  /\ clock' = clock + 1
  /\ UNCHANGED <<serverVars, link, line, updater, reached, lost>>

-----------------------------------------------------------------------------
UpdatesNext ==
  \/ RestartServer \/ ForgetUpdates
  \/ \E i \in 1..UpdateIds : Reserve(i)
  \/ Deliver \/ DeliveryFailed
  \/ \E s \in 1..Links :
       \/ BeginUpdateSession(s) \/ Break(s) \/ EndUpdateSession(s)
       \/ SendRequest(s) \/ ReceiveStatus(s) \/ ReportStatus(s) \/ TakeRequest(s)
  \/ AcceptRequest \/ Progress \/ Elapse

UpdatesSpec == UpdatesInit /\ [][UpdatesNext]_updateVars

-----------------------------------------------------------------------------
Statuses == [cap : {"ready", "disabled", "manual_recovery"}, phase : RemotePhases,
             id : 0..UpdateIds, next : 0..UpdateTicks + UpdateCooldown]
PanelRequests == [id : 0..UpdateIds, expires : 0..UpdateTicks + Lifetime]

(* Every variable has a value of its type.                                 *)
UpdatesTypeOK ==
  /\ clock \in 0..UpdateTicks /\ line \in 0..Links /\ lost \in 0..Restarts
  /\ entry \in [session : -1..Links, online : BOOLEAN, reported : BOOLEAN,
                requested : -1..UpdateTicks, request : PanelRequests, status : Statuses]
  /\ call \in [stage : {"none", "reserved", "undelivered"}, request : PanelRequests]
  /\ \A s \in 1..Links : LET l == link[s] IN
       /\ l.stage \in {"none", "open", "over"} /\ l.told \in Statuses
       /\ \A i \in DOMAIN l.commands : l.commands[i] \in PanelRequests
       /\ \A i \in DOMAIN l.down : l.down[i] \in PanelRequests
       /\ \A i \in DOMAIN l.up : l.up[i] \in Statuses
  /\ updater \in [file : PanelRequests, id : 0..UpdateIds, phase : RemotePhases,
                  accepted : 0..UpdateTicks, cap : {"ready", "manual_recovery"}]
  /\ reached \in [1..UpdateIds -> SUBSET RemotePhases]

(* What the panel shows is about the request it made last, however late    *)
(* reports of earlier requests or of earlier sessions arrive; an outcome   *)
(* it shows is one the node's updater reached for that request; and the    *)
(* button it offers is one that the next request, at the same time, is     *)
(* not refused for (agent_updates.rs, record, view and reserve).           *)
OutcomesAreTrue ==
  Known =>
    /\ entry.request # NoRequest => entry.status.id = entry.request.id
    /\ LET shown == ShownPhase(entry) IN
       shown \in Outcomes \cup {"downloading", "trial"} =>
         entry.status.id # 0 /\ shown \in reached[entry.status.id]
    /\ CanUpdate(entry) <=> Reservable(Lapsed(entry))
===============================================================================
