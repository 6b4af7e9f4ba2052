--------------------------- MODULE SessionCommands ---------------------------
(***************************************************************************)
(* What administrators ask of a node that is online, and who answers.  A   *)
(* request to renew the agent's token now (handlers/settings/updates.rs)   *)
(* takes the one refresh permit of the session, goes through its bounded   *)
(* queue (state/session_control.rs), is answered by the session's loop     *)
(* (ws/session.rs, ws/refresh.rs) once the agent confirms, refuses or      *)
(* keeps silent, and outlives neither the loop nor the session.            *)
(*                                                                         *)
(* A session handles one thing at a time but awaits in between; its step   *)
(* is in `job'.  Time goes in ticks of a minute, the wait between two      *)
(* attempts.  The credential itself is in CredentialRenewal.               *)
(***************************************************************************)
EXTENDS Integers, Sequences

CONSTANTS
  Ask,             \* requests of administrators, each made once
  NoAsk,
  Capacity,        \* SESSION_CONTROL_CHANNEL_CAPACITY
  MaxOutstanding,  \* max_outstanding_pings
  SessionsMade,    \* bound: sessions of the node
  CommandsMade,    \* bound: update commands put in a queue
  PingsMade,       \* bound: pings, and the minutes that pass
  RefreshesMade    \* bound: candidates a session prepares

ASSUME SessionCommandsAssumption ==
  /\ NoAsk \notin Ask /\ "update" \notin Ask  \* an update command is no request to renew
  /\ {Capacity, MaxOutstanding} \subseteq Nat \ {0}
  /\ {SessionsMade, CommandsMade, PingsMade, RefreshesMade} \subseteq Nat

VARIABLES
  minute,     \* time
  made,       \* sessions registered so far
  active,     \* the node's current session, or 0
  handle,     \* NodeEntry.control: the session it leads to, or 0
  queued,     \* update commands so far
  revoked,    \* sessions whose token the registry no longer accepts
  sess,       \* the sessions
  ask         \* the requests

commandVars == <<minute, made, active, handle, queued, revoked, sess, ask>>
entryVars == <<made, active, handle>>

Sessions == 1..SessionsMade
Update == "update"     \* an update command; what it carries is in UpdateRequests

NoRefresh == [id |-> 0, retry |-> 0, reply |-> NoAsk]
Resting == [do |-> "none", by |-> "none", hand |-> NoAsk, result |-> "none", then |-> "none"]

NewSession(acks, due) ==
  [stage |-> "registered", queue |-> <<>>, permit |-> FALSE, job |-> Resting,
   pending |-> NoRefresh, prepared |-> 0, retry |-> minute, acks |-> acks, due |-> due,
   pings |-> <<>>, nonce |-> 1]
NoSession == [NewSession(FALSE, FALSE) EXCEPT !.stage = "none", !.retry = 0]

FreshAsk == [stage |-> "idle", on |-> 0]

CommandsInit ==
  /\ minute = 0 /\ made = 0 /\ active = 0 /\ handle = 0 /\ queued = 0
  /\ revoked = {}
  /\ sess = [s \in Sessions |-> NoSession]
  /\ ask = [k \in Ask |-> FreshAsk]

-----------------------------------------------------------------------------
(* The node's entry.                                                       *)

RegisterSession ==
  /\ made < SessionsMade
  /\ made' = made + 1 /\ active' = made + 1 /\ handle' = 0
  /\ \E acks, due \in BOOLEAN : sess' = [sess EXCEPT ![made + 1] = NewSession(acks, due)]
  /\ UNCHANGED <<minute, queued, revoked, ask>>

AttachControl(s) ==
  /\ sess[s].stage = "registered"
  /\ IF active = s THEN handle' = s ELSE UNCHANGED handle
  /\ sess' = [sess EXCEPT ![s].stage = IF active = s THEN "running" ELSE "ending"]
  /\ UNCHANGED <<minute, made, active, queued, revoked, ask>>

(* The registry's file moves on, or the token expires.                     *)
RevokeToken(s) ==
  /\ sess[s].stage = "running" /\ s \notin revoked
  /\ revoked' = revoked \cup {s}
  /\ UNCHANGED <<minute, entryVars, queued, sess, ask>>

MinutePasses ==
  /\ minute < PingsMade
  /\ minute' = minute + 1
  /\ UNCHANGED <<entryVars, queued, revoked, sess, ask>>

-----------------------------------------------------------------------------
(* Administrators.                                                         *)

AskRefused(k) == ask' = [ask EXCEPT ![k].stage = "refused"]
Closed(s) == sess[s].stage \in {"closed", "ending", "over"}

RequestRefresh(k) ==
  /\ ask[k].stage = "idle"
  /\ IF handle = 0 THEN AskRefused(k)
                   ELSE ask' = [ask EXCEPT ![k] = [stage |-> "calling", on |-> handle]]
  /\ UNCHANGED <<minute, entryVars, queued, revoked, sess>>

(* compare_exchange: only one caller finds the permit free.                *)
AcquirePermit(k) ==
  LET s == ask[k].on IN
  /\ ask[k].stage = "calling"
  /\ IF sess[s].permit
       THEN AskRefused(k) /\ UNCHANGED sess
       ELSE /\ ask' = [ask EXCEPT ![k].stage = "permitted"]
            /\ sess' = [sess EXCEPT ![s].permit = TRUE]
  /\ UNCHANGED <<minute, entryVars, queued, revoked>>

Fits(s) == ~Closed(s) /\ Len(sess[s].queue) < Capacity

(* A command that does not fit is dropped with its permit.                 *)
EnqueueRefresh(k) ==
  LET s == ask[k].on IN
  /\ ask[k].stage = "permitted"
  /\ IF Fits(s)
       THEN /\ sess' = [sess EXCEPT ![s].queue = Append(@, k)]
            /\ ask' = [ask EXCEPT ![k].stage = "waiting"]
       ELSE /\ sess' = [sess EXCEPT ![s].permit = FALSE]
            /\ AskRefused(k)
  /\ UNCHANGED <<minute, entryVars, queued, revoked>>

(* LIVE_TOKEN_REFRESH_TIMEOUT.  The command goes on without its caller.    *)
StopWaiting(k) ==
  /\ ask[k].stage = "waiting"
  /\ ask' = [ask EXCEPT ![k].stage = "gone"]
  /\ UNCHANGED <<minute, entryVars, queued, revoked, sess>>

EnqueueUpdate ==
  /\ queued < CommandsMade /\ handle # 0 /\ Fits(handle)
  /\ queued' = queued + 1
  /\ sess' = [sess EXCEPT ![handle].queue = Append(@, Update)]
  /\ UNCHANGED <<minute, entryVars, revoked, ask>>

-----------------------------------------------------------------------------
(* The loop of a session.                                                  *)

Doing(s, what) == sess[s].job.do = what
Free(s) == sess[s].stage = "running" /\ Doing(s, "none")
CurrentSession(s) == active = s /\ s \notin revoked

Becomes(s, r) == sess' = [sess EXCEPT ![s] = r]
Closes(s) == Becomes(s, [sess[s] EXCEPT !.stage = "closed", !.job = Resting])
JobOf(what, by, hand) == [Resting EXCEPT !.do = what, !.by = by, !.hand = hand]

KeepsPermit(hand, result, then) ==
  [Resting EXCEPT !.do = "reply", !.hand = hand, !.result = result, !.then = then]

(* SessionRefreshPermit::complete, and what a drop of the pair does: the   *)
(* permit first, the caller second.                                        *)
Completing(hand, result, then) ==
  [Resting EXCEPT !.do = "release", !.hand = hand, !.result = result, !.then = then]

Only(s) == UNCHANGED <<minute, entryVars, queued, revoked, ask>>

(* refresh_session_token up to its first await.                            *)
StartsRefresh(r, by, hand) ==
  IF ~r.acks THEN [r EXCEPT !.job = JobOf("failed", by, hand)]
  ELSE [r EXCEPT !.retry = minute + 1,
                 !.job = JobOf(IF r.pending.id = 0 THEN "prepare" ELSE "send", by, hand)]

TakeRefreshCommand(s) ==
  /\ Free(s) /\ sess[s].queue # <<>> /\ Head(sess[s].queue) # Update
  /\ LET r == sess[s] IN
       Becomes(s, StartsRefresh([r EXCEPT !.queue = Tail(@)], "manual", Head(r.queue)))
  /\ Only(s)

(* An expired request, a session that is no longer current, or a revoked   *)
(* token ends the session; so does a write that fails.                     *)
TakeUpdateCommand(s) ==
  /\ Free(s) /\ sess[s].queue # <<>> /\ Head(sess[s].queue) = Update
  /\ \E sent \in BOOLEAN :
       IF sent /\ CurrentSession(s) THEN Becomes(s, [sess[s] EXCEPT !.queue = Tail(@)])
       ELSE Becomes(s, [sess[s] EXCEPT !.queue = Tail(@), !.stage = "closed"])
  /\ Only(s)

PrepareCandidate(s) ==
  /\ Doing(s, "prepare")
  /\ LET r == sess[s] IN
       \/ Becomes(s, [r EXCEPT !.job.do = "failed"])
       \/ /\ r.prepared < RefreshesMade
          /\ Becomes(s, [r EXCEPT !.prepared = @ + 1, !.job.do = "send",
                           !.pending = [id |-> r.prepared + 1, retry |-> minute, reply |-> NoAsk]])
  /\ Only(s)

(* The new token goes out; only then does the caller wait for the agent.   *)
SendCandidate(s) ==
  /\ Doing(s, "send")
  /\ LET r == sess[s]
         sent == [r EXCEPT !.pending.retry = minute + 1, !.job = Resting]
     IN \/ Becomes(s, [r EXCEPT !.job.do = "failed"])
        \/ Becomes(s, CASE r.job.by = "manual" -> [sent EXCEPT !.pending.reply = r.job.hand]
                        [] r.job.by = "tick" -> [sent EXCEPT !.job.do = "ping"]
                        [] OTHER -> sent)
  /\ Only(s)

(* Each trigger has its own way with an error.                             *)
RefreshFails(s) ==
  /\ Doing(s, "failed")
  /\ LET r == sess[s] IN
       \/ /\ r.job.by = "manual"
          /\ Becomes(s, [r EXCEPT !.job = Completing(r.job.hand, "error", "none")])
       \/ /\ r.job.by = "tick"
          /\ Becomes(s, [r EXCEPT !.job = [Resting EXCEPT !.do = "ping"]])
       \/ /\ r.job.by = "agent"
          /\ Becomes(s, [r EXCEPT !.job = Resting]) \/ Closes(s)    \* the notice is written
  /\ Only(s)

ReleasePermit(s) ==
  /\ Doing(s, "release")
  /\ sess' = [sess EXCEPT ![s].permit = FALSE, ![s].job.do = "reply"]
  /\ Only(s)

Answered(k, result) ==
  IF ask[k].stage = "waiting" THEN [ask EXCEPT ![k].stage = result] ELSE ask

SendReply(s) ==
  /\ Doing(s, "reply")
  /\ ask' = Answered(sess[s].job.hand, sess[s].job.result)
  /\ LET r == sess[s] rested == [r EXCEPT !.job = Resting] IN
       Becomes(s, CASE r.job.then = "refresh" -> StartsRefresh(rested, "tick", NoAsk)
                    [] r.job.then = "close" -> [rested EXCEPT !.stage = "closed"]
                    [] OTHER -> rested)
  /\ UNCHANGED <<minute, entryVars, queued, revoked>>

-----------------------------------------------------------------------------
(* Frames of the agent.                                                    *)

ReadsFrame(s) == Free(s) /\ CurrentSession(s)

LeaveStale(s) ==
  /\ Free(s) /\ ~CurrentSession(s)
  /\ Closes(s) /\ Only(s)

(* RefreshTokenAck: for the candidate that is pending, or for an older one *)
(* (ignored).                                                              *)
RefuseToken(s) ==
  /\ ReadsFrame(s) /\ sess[s].pending.id # 0 /\ sess[s].pending.reply # NoAsk
  /\ LET r == sess[s] IN
       Becomes(s, [r EXCEPT !.pending.reply = NoAsk,
                            !.job = Completing(r.pending.reply, "error", "none")])
  /\ Only(s)

ConfirmToken(s) ==
  /\ ReadsFrame(s) /\ sess[s].pending.id # 0
  /\ LET r == sess[s] IN
       Becomes(s, [r EXCEPT !.pending = NoRefresh,
                            !.job = JobOf("commit", "agent", r.pending.reply)])
  /\ Only(s)

(* A commit that fails drops the caller and ends the session.              *)
CommitToken(s) ==
  /\ Doing(s, "commit")
  /\ LET r == sess[s]
         k == r.job.hand
     IN \E ok \in BOOLEAN :
          Becomes(s,
            IF k = NoAsk
              THEN [r EXCEPT !.job = Resting, !.stage = IF ok THEN @ ELSE "closed",
                             !.due = @ /\ ~ok]
              ELSE [r EXCEPT !.due = @ /\ ~ok,
                             !.job = IF ok THEN Completing(k, "renewed", "none")
                                           ELSE Completing(k, "dropped", "close")])
  /\ Only(s)

(* agent_refresh_request_due, the same pacing as the server's own.         *)
RequestDue(s) ==
  /\ sess[s].acks /\ minute >= sess[s].retry
  /\ sess[s].pending.id # 0 \/ sess[s].due

AgentAsksRefresh(s) ==
  /\ ReadsFrame(s) /\ RequestDue(s)
  /\ Becomes(s, StartsRefresh(sess[s], "agent", NoAsk))
  /\ Only(s)

Received(pings, n) == SelectSeq(pings, LAMBDA p : p.nonce # n)

TakePong(s) ==
  /\ ReadsFrame(s)
  /\ \E n \in {sess[s].pings[i].nonce : i \in DOMAIN sess[s].pings} :
       Becomes(s, [sess[s] EXCEPT !.pings = Received(@, n)])
  /\ Only(s)

-----------------------------------------------------------------------------
(* The ping tick renews what is near its end, or asks again: an agent that *)
(* has not confirmed for a minute is the caller's error.                   *)

TickRefresh(r) ==
  LET unconfirmed == r.pending.id # 0 /\ minute >= r.pending.retry
      ready == r.acks /\ minute >= r.retry
  IN CASE ready /\ unconfirmed /\ r.pending.reply # NoAsk ->
            [r EXCEPT !.pending.reply = NoAsk,
                      !.job = Completing(r.pending.reply, "error", "refresh")]
       [] ready /\ (unconfirmed \/ (r.pending.id = 0 /\ r.due)) ->
            StartsRefresh(r, "tick", NoAsk)
       [] OTHER -> [r EXCEPT !.job = [Resting EXCEPT !.do = "ping"]]

PingTick(s) ==
  /\ ReadsFrame(s) /\ sess[s].nonce <= PingsMade
  /\ Becomes(s, TickRefresh(sess[s]))
  /\ Only(s)

(* prune_outstanding_pings: three intervals, and then the oldest.          *)
Pruned(pings) ==
  LET young == SelectSeq(pings, LAMBDA p : minute - p.at < 3)
  IN IF Len(young) < MaxOutstanding THEN young ELSE Tail(young)

SendPing(s) ==
  /\ Doing(s, "ping")
  /\ LET r == sess[s]
         pinged == [r EXCEPT !.pings = Append(Pruned(@), [nonce |-> r.nonce, at |-> minute]),
                             !.nonce = @ + 1, !.job = Resting]
     IN Becomes(s, pinged) \/ Becomes(s, [pinged EXCEPT !.stage = "closed"])
  /\ Only(s)

-----------------------------------------------------------------------------
(* The end.  The agent leaves, the server stops, or no one holds the       *)
(* channel's other end any more.                                           *)

LeaveSession(s) ==
  /\ Free(s)
  /\ Closes(s) /\ Only(s)

(* The receiver goes with the loop, what is still queued with it, and then *)
(* the session with the caller that waited for the agent.                  *)
DropQueued(s) ==
  /\ sess[s].stage = "closed" /\ Doing(s, "none") /\ sess[s].queue # <<>>
  /\ LET r == [sess[s] EXCEPT !.queue = Tail(@)]
         k == Head(sess[s].queue)
     IN Becomes(s, IF k = Update THEN r
                   ELSE [r EXCEPT !.job = Completing(k, "dropped", "none")])
  /\ Only(s)

Disconnect(s) ==
  /\ sess[s].stage = "ending" \/ (sess[s].stage = "closed" /\ sess[s].queue = <<>>)
  /\ Doing(s, "none")
  /\ IF active = s THEN active' = 0 /\ handle' = 0 ELSE UNCHANGED <<active, handle>>
  /\ LET r == sess[s]
         over == [NoSession EXCEPT !.stage = "over", !.permit = r.permit]
     IN Becomes(s, IF r.pending.reply = NoAsk THEN over
                   ELSE [over EXCEPT !.job = Completing(r.pending.reply, "dropped", "none")])
  /\ UNCHANGED <<minute, made, queued, revoked, ask>>

-----------------------------------------------------------------------------
CommandsNext ==
  \/ RegisterSession \/ MinutePasses \/ EnqueueUpdate
  \/ \E k \in Ask : RequestRefresh(k) \/ AcquirePermit(k) \/ EnqueueRefresh(k) \/ StopWaiting(k)
  \/ \E s \in Sessions :
       \/ AttachControl(s) \/ RevokeToken(s)
       \/ TakeRefreshCommand(s) \/ TakeUpdateCommand(s)
       \/ PrepareCandidate(s) \/ SendCandidate(s) \/ RefreshFails(s)
       \/ ReleasePermit(s) \/ SendReply(s)
       \/ LeaveStale(s) \/ RefuseToken(s) \/ ConfirmToken(s) \/ CommitToken(s)
       \/ AgentAsksRefresh(s) \/ TakePong(s)
       \/ PingTick(s) \/ SendPing(s)
       \/ LeaveSession(s) \/ DropQueued(s) \/ Disconnect(s)

CommandsSpec == CommandsInit /\ [][CommandsNext]_commandVars

-----------------------------------------------------------------------------
AskOrNone == Ask \cup {NoAsk}
Jobs == [do : {"none", "prepare", "send", "failed", "release", "reply", "commit", "ping"},
         by : {"none", "manual", "tick", "agent"}, hand : AskOrNone,
         result : {"none", "error", "renewed", "dropped"}, then : {"none", "refresh", "close"}]
Refreshes == [id : 0..RefreshesMade, retry : 0..PingsMade + 1, reply : AskOrNone]

(* Every variable has a value of its type; the queue and the outstanding   *)
(* pings stay within their limits.                                         *)
CommandsTypeOK ==
  /\ minute \in 0..PingsMade /\ queued \in 0..CommandsMade
  /\ {made, active, handle} \subseteq 0..SessionsMade
  /\ revoked \subseteq Sessions
  /\ \A s \in Sessions : LET r == sess[s] IN
       /\ r.stage \in {"none", "registered", "running", "closed", "ending", "over"}
       /\ Len(r.queue) <= Capacity /\ \A i \in DOMAIN r.queue : r.queue[i] \in Ask \cup {Update}
       /\ {r.permit, r.acks, r.due} \subseteq BOOLEAN
       /\ r.job \in Jobs /\ r.pending \in Refreshes
       /\ Len(r.pings) <= MaxOutstanding
       /\ r.nonce \in 1..PingsMade + 1 /\ r.retry \in 0..PingsMade + 1
       /\ r.prepared \in 0..RefreshesMade
  /\ ask \in [Ask -> [on : 0..SessionsMade,
                      stage : {"idle", "calling", "permitted", "waiting", "refused",
                               "gone", "error", "renewed", "dropped"}]]

(* Where the other end of a request's channel is, and with it the permit.  *)
Holders(k) ==
  {s \in Sessions : \E i \in DOMAIN sess[s].queue : sess[s].queue[i] = k} \X {"queue"}
    \cup {s \in Sessions : sess[s].job.hand = k} \X {"hand"}
    \cup {s \in Sessions : sess[s].pending.reply = k} \X {"pending"}

(* Requests that hold the permit of session s.                             *)
Permitted(s) ==
  {k \in Ask : \/ ask[k].stage = "permitted" /\ ask[k].on = s
               \/ \E h \in Holders(k) : h[1] = s /\ ~(h[2] = "hand" /\ Doing(s, "reply"))}

(* A caller that waits can still be answered, by the session it asked and  *)
(* from one place only; a caller that has its answer finds the permit it   *)
(* used free for its next command, and at any time at most one command     *)
(* holds a session's permit, which is taken exactly while one does         *)
(* (state/session_control.rs, "Sending wakes callers that may immediately  *)
(* enqueue the next refresh").                                             *)
CommandsAreAnswered ==
  /\ \A k \in {j \in Ask : ask[j].stage # "idle"} :
       LET held == {h[1] : h \in Holders(k)} IN
       /\ ask[k].stage = "waiting" => held = {ask[k].on} /\ \E h \in Holders(k) : Holders(k) = {h}
       /\ ask[k].stage \in {"refused", "error", "renewed", "dropped"} => held = {}
  /\ \A s \in 1..made :
       /\ \A j, k \in Permitted(s) : j = k
       /\ sess[s].permit <=> Permitted(s) # {}
===============================================================================
