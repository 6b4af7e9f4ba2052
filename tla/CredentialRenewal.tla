--------------------------- MODULE CredentialRenewal ---------------------------
(***************************************************************************)
(* Two-phase renewal of one node's credential, from the registry of the    *)
(* server (registry/renewal.rs, registry/issue.rs) through its WebSocket   *)
(* sessions (ws/handshake.rs, ws/session.rs, ws/refresh.rs) to the agent   *)
(* and its configuration file (agent session/connection.rs, config_io.rs). *)
(*                                                                         *)
(* The server stages a candidate next to the current credential and sends  *)
(* it; the agent makes it durable and acknowledges; only then, or when the *)
(* agent comes back with it, does the server activate it.  Sessions        *)
(* overlap, messages are lost with their connection, either side crashes,  *)
(* and an operator may reissue the credential at any time.                 *)
(*                                                                         *)
(* A credential is its token and its generation.  The registry file and    *)
(* the copy in memory are those of RegistryStore; here a write of the      *)
(* server and its installation in memory are one step, and only a reissue  *)
(* or a write that fails once the file is replaced leaves the memory       *)
(* behind, until a reload.                                                 *)
(***************************************************************************)
EXTENDS Integers, Sequences, FiniteSets

CONSTANTS
  Conn,         \* connections that may exist at one time
  NoConn,       \* no connection
  MaxPending,   \* MAX_PENDING_TOKENS
  MaxToken,     \* bound: tokens ever generated
  MaxReissued,  \* bound: no reissue once this many tokens exist
  MaxFaults,    \* bound: crashes, lost connections and failed writes
  MaxQueue      \* bound: renewal frames in flight on a connection

ASSUME RenewalAssumption ==
  /\ NoConn \notin Conn
  /\ MaxPending \in Nat \ {0} /\ MaxToken \in Nat \ {0}
  /\ MaxReissued \in 1..MaxToken /\ MaxFaults \in Nat /\ MaxQueue \in Nat \ {0}

VARIABLES
  node,      \* the registry file's entry for the node
  view,      \* the same entry in the server's memory
  issued,    \* token of the last reissue: the ones before it are revoked
  lastTok,   \* last token generated
  due,       \* the current credential expires within the renewal window
  active,    \* session registered for the node in the runtime state
  sess,      \* ActiveSession of each connection, and where its handler is
  toAgent, toServer,             \* frames in flight
  mem, disk, durable, link, task,  \* the agent
  faults

regVars == <<node, view, issued, lastTok, due>>
agentVars == <<mem, disk, durable, link, task>>
wire == <<toAgent, toServer>>
vars == <<regVars, active, sess, wire, agentVars, faults>>

-----------------------------------------------------------------------------
Cred == [tok : Nat, gen : Nat]
None == [tok |-> 0, gen |-> 0]

(* The credentials a registry entry accepts: the current one, staged       *)
(* candidates, and the previous one during its grace period.               *)
Lasting(n) == {n.cur} \cup n.pend
Live(n) == Lasting(n) \cup n.prev

Knows(n, t) == \E k \in Live(n) : k.tok = t
Matched(n, t) == CHOOSE k \in Live(n) : k.tok = t

NextGenOfCurrent(n) == n.cur.gen + 1
NextGen(n) == CHOOSE g \in {k.gen + 1 : k \in Lasting(n)} :
                \A k \in Lasting(n) : k.gen < g

(* token_status_for_node: by generation, not by token.                     *)
HasGen(n, g) == \E k \in Live(n) : k.gen = g
StageableAtWill(n, g) == HasGen(n, g)
Stageable(n, g) == HasGen(n, g) /\ Cardinality(n.pend) < MaxPending

Activated(k) == [cur |-> k, prev |-> {node.cur}, pend |-> {}]

NoSession == [st |-> "none", tok |-> 0, gen |-> 0, fresh |-> FALSE, cand |-> None]
NoTask == [st |-> "none", cand |-> None, for |-> NoConn]

-----------------------------------------------------------------------------
(* Every change of the registry in memory has sessions check again.        *)
Stale(s) == [c \in Conn |-> [s[c] EXCEPT !.fresh = FALSE]]

Install(n) ==
  /\ node' = n
  /\ view' = n
  /\ sess' = Stale(sess)

(* Ends the handler of c: the slot is free once the agent has left too.    *)
Ended(c) == [sess EXCEPT ![c] = [NoSession EXCEPT !.st = "closed"]]

End(c) ==
  /\ sess' = Ended(c)
  /\ active' = IF active = c THEN NoConn ELSE active
  /\ toServer' = [toServer EXCEPT ![c] = <<>>]
  /\ UNCHANGED <<regVars, toAgent, agentVars, faults>>

Moved(c, s) == sess' = [sess EXCEPT ![c] = s]
Goes(c, st) == Moved(c, [sess[c] EXCEPT !.st = st])

Fault == faults < MaxFaults /\ faults' = faults + 1

-----------------------------------------------------------------------------
Init ==
  /\ node = [cur |-> [tok |-> 1, gen |-> 1], prev |-> {}, pend |-> {}]
  /\ view = node
  /\ issued = 1
  /\ lastTok = 1
  /\ due = FALSE
  /\ active = NoConn
  /\ sess = [c \in Conn |-> NoSession]
  /\ toAgent = [c \in Conn |-> <<>>]
  /\ toServer = [c \in Conn |-> <<>>]
  /\ mem = 1 /\ disk = 1 /\ durable = 1
  /\ link = NoConn
  /\ task = NoTask
  /\ faults = 0

-----------------------------------------------------------------------------
(* Time and the operator.                                                  *)

Age ==
  /\ ~due
  /\ due' = TRUE
  /\ UNCHANGED <<node, view, issued, lastTok, active, sess, wire, agentVars, faults>>

(* The previous credential's grace is over, for its sessions as well.      *)
GraceEnds ==
  \E k \in node.prev \cup view.prev :
    /\ node' = [node EXCEPT !.prev = @ \ {k}]
    /\ view' = [view EXCEPT !.prev = @ \ {k}]
    /\ sess' = [c \in Conn |-> IF sess[c].tok = k.tok
                              THEN [sess[c] EXCEPT !.fresh = FALSE] ELSE sess[c]]
    /\ UNCHANGED <<issued, lastTok, due, active, wire, agentVars, faults>>

(* issue_node for a node that exists, from the command line or the panel:  *)
(* a new credential revokes every other, in the file.                      *)
Reissue ==
  /\ lastTok < MaxReissued
  /\ lastTok' = lastTok + 1
  /\ issued' = lastTok'
  /\ node' = [cur |-> [tok |-> lastTok', gen |-> NextGen(node)],
              prev |-> {}, pend |-> {}]
  /\ due' = FALSE
  /\ UNCHANGED <<view, active, sess, wire, agentVars, faults>>

Reload ==
  /\ view # node
  /\ Install(node)
  /\ UNCHANGED <<issued, lastTok, due, active, wire, agentVars, faults>>

(* The installer stops the agent, writes the reissued token and starts it. *)
Reinstall ==
  /\ disk < issued
  /\ mem' = issued /\ disk' = issued /\ durable' = issued
  /\ link' = NoConn
  /\ task' = NoTask
  /\ UNCHANGED <<regVars, active, sess, wire, faults>>

-----------------------------------------------------------------------------
(* The handshake.                                                          *)

(* authorize_hello: the token is checked against the registry in memory.   *)
Authorize(c) ==
  /\ sess[c].st = "hello"
  /\ Knows(view, sess[c].tok)
  /\ Moved(c, [sess[c] EXCEPT !.st = "matched", !.gen = Matched(view, sess[c].tok).gen])
  /\ UNCHANGED <<regVars, active, wire, agentVars, faults>>

Reject(c) ==
  /\ sess[c].st \in {"hello", "activated"}
  /\ ~Knows(view, sess[c].tok)
  /\ End(c)

(* activate_saved_token: a candidate the agent presents has been saved.    *)
NeverActivated(c) == {}
Unactivated(c) == {k \in view.pend : k.gen = sess[c].gen}

ActivateSaved(c) ==
  /\ sess[c].st = "matched"
  /\ \E k \in Unactivated(c) \cap node.pend :
       /\ node' = Activated(k)
       /\ view' = node'
       /\ sess' = [Stale(sess) EXCEPT ![c].st = "activated"]
  /\ due' = FALSE
  /\ UNCHANGED <<issued, lastTok, active, wire, agentVars, faults>>

NothingToActivate(c) ==
  /\ sess[c].st = "matched"
  /\ Unactivated(c) = {}
  /\ Goes(c, "activated")
  /\ UNCHANGED <<regVars, active, wire, agentVars, faults>>

ActivationRefused(c) ==
  /\ sess[c].st = "matched"
  /\ Unactivated(c) # {} /\ Unactivated(c) \cap node.pend = {}
  /\ End(c)

AuthorizeAgain(c) ==
  /\ sess[c].st = "activated"
  /\ Knows(view, sess[c].tok)
  /\ Moved(c, [sess[c] EXCEPT !.st = "admitted", !.fresh = TRUE,
                              !.gen = Matched(view, sess[c].tok).gen])
  /\ UNCHANGED <<regVars, active, wire, agentVars, faults>>

(* register_node: the newest session is the current one.                   *)
Register(c) ==
  /\ sess[c].st = "admitted"
  /\ Goes(c, "open")
  /\ active' = c
  /\ UNCHANGED <<regVars, wire, agentVars, faults>>

-----------------------------------------------------------------------------
(* The session.                                                            *)

(* is_current_session and ensure_current_token.                            *)
Valid(c) ==
  \/ sess[c].fresh
  \/ Knows(view, sess[c].tok) /\ Matched(view, sess[c].tok).gen = sess[c].gen
Current(c) == active = c /\ Valid(c)

(* A ping tick, metrics, or an acknowledgement ends a session that is not  *)
(* the current one or whose token is gone.                                 *)
EndStale(c) ==
  /\ sess[c].st = "open"
  /\ ~Current(c)
  /\ End(c)

Revalidate(c) ==
  /\ sess[c].st = "open"
  /\ Current(c) /\ ~sess[c].fresh
  /\ Moved(c, [sess[c] EXCEPT !.fresh = TRUE])
  /\ UNCHANGED <<regVars, active, wire, agentVars, faults>>

(* should_refresh_agent_token: an unanswered candidate is sent again; a    *)
(* credential in its window, or in its grace period, is renewed.           *)
WantsRenewal(c) ==
  \/ sess[c].cand # None
  \/ due /\ sess[c].tok = view.cur.tok
  \/ \E k \in view.prev : k.tok = sess[c].tok

(* Renewals of a session are a minute apart: few frames are in flight.     *)
Room(c) == Len(toAgent[c]) + Len(toServer[c]) < MaxQueue

TickRefresh(c) ==
  /\ sess[c].st = "open"
  /\ Room(c)
  /\ Current(c) /\ WantsRenewal(c)
  /\ Moved(c, [sess[c] EXCEPT !.st = "renewing", !.fresh = TRUE])
  /\ UNCHANGED <<regVars, active, wire, agentVars, faults>>

(* A queued RefreshToken command of the operator; nothing is checked.      *)
ManualRefresh(c) ==
  /\ sess[c].st = "open"
  /\ Room(c)
  /\ Goes(c, "renewing")
  /\ UNCHANGED <<regVars, active, wire, agentVars, faults>>

(* The precheck against memory, before the candidate is hashed.            *)
BeginStage(c) ==
  /\ sess[c].st = "renewing"
  /\ Goes(c, IF sess[c].cand # None THEN "sending"
             ELSE IF Stageable(view, sess[c].gen) THEN "staging" ELSE "open")
  /\ UNCHANGED <<regVars, active, wire, agentVars, faults>>

(* prepare_token_refresh: the authoritative check and the write.           *)
Stage(c) ==
  /\ sess[c].st = "staging"
  /\ Stageable(node, sess[c].gen)
  /\ lastTok < MaxToken
  /\ lastTok' = lastTok + 1
  /\ LET k == [tok |-> lastTok', gen |-> NextGen(node)] IN
       /\ node' = [node EXCEPT !.pend = @ \cup {k}]
       /\ view' = node'
       /\ sess' = [Stale(sess) EXCEPT ![c].st = "sending", ![c].cand = k]
  /\ UNCHANGED <<issued, due, active, wire, agentVars, faults>>

StageRefused(c) ==
  /\ sess[c].st = "staging"
  /\ ~Stageable(node, sess[c].gen) \/ lastTok = MaxToken
  /\ Goes(c, "open")
  /\ UNCHANGED <<regVars, active, wire, agentVars, faults>>

Send(c) ==
  /\ sess[c].st = "sending"
  /\ toAgent' = [toAgent EXCEPT ![c] = Append(@, sess[c].cand)]
  /\ Goes(c, "open")
  /\ UNCHANGED <<regVars, active, toServer, agentVars, faults>>

Mentions(ack, s) == ack.tok = s.cand.tok
Confirms(ack, s) == ack.tok = s.cand.tok /\ ack.persisted

(* handle_refresh_ack, up to the write: the session must be current and    *)
(* the transaction its own; a failed save keeps the candidate for a retry. *)
TakeAck(c) ==
  /\ sess[c].st = "open"
  /\ toServer[c] # <<>>
  /\ Current(c)
  /\ toServer' = [toServer EXCEPT ![c] = Tail(@)]
  /\ Moved(c, [sess[c] EXCEPT !.fresh = TRUE,
       !.st = IF Confirms(Head(toServer[c]), sess[c]) THEN "committing" ELSE "open"])
  /\ UNCHANGED <<regVars, active, toAgent, agentVars, faults>>

(* commit_token_refresh: the candidate must still be staged in the file.   *)
EverStaged(c) == TRUE
StillStaged(c) == sess[c].cand \in node.pend

Commit(c) ==
  /\ sess[c].st = "committing"
  /\ StillStaged(c)
  /\ node' = Activated(sess[c].cand)
  /\ view' = node'
  /\ sess' = [Stale(sess) EXCEPT ![c].st = "committed"]
  /\ due' = FALSE
  /\ UNCHANGED <<issued, lastTok, active, wire, agentVars, faults>>

CommitRefused(c) ==
  /\ sess[c].st = "committing"
  /\ ~StillStaged(c)
  /\ End(c)

(* The write of a candidate or of an activation fails, before or after the *)
(* file was replaced; memory keeps what it had.                            *)
StageFails(c) ==
  /\ sess[c].st = "staging"
  /\ Fault
  /\ \/ UNCHANGED <<node, lastTok>>
     \/ /\ Stageable(node, sess[c].gen) /\ lastTok < MaxToken
        /\ lastTok' = lastTok + 1
        /\ node' = [node EXCEPT !.pend = @ \cup {[tok |-> lastTok', gen |-> NextGen(node)]}]
  /\ Goes(c, "open")
  /\ UNCHANGED <<view, issued, due, active, wire, agentVars>>

ActivationFails(c) ==
  /\ Fault
  /\ \/ UNCHANGED <<node, due>>
     \/ /\ \E k \in node.pend :
             /\ \/ sess[c].st = "committing" /\ k = sess[c].cand
                \/ sess[c].st = "matched" /\ k \in Unactivated(c)
             /\ node' = Activated(k)
        /\ due' = FALSE
  /\ sess[c].st \in {"committing", "matched"}
  /\ sess' = Ended(c)
  /\ active' = IF active = c THEN NoConn ELSE active
  /\ toServer' = [toServer EXCEPT ![c] = <<>>]
  /\ UNCHANGED <<view, issued, lastTok, toAgent, agentVars>>

(* apply_committed_refresh: the session adopts the token, and checks it    *)
(* again before its next use.                                              *)
AdoptedAsFresh(s) == [st |-> "open", tok |-> s.cand.tok, gen |-> s.cand.gen,
                      fresh |-> TRUE, cand |-> None]
Adopted(s) == [st |-> "open", tok |-> s.cand.tok, gen |-> s.cand.gen,
               fresh |-> FALSE, cand |-> None]

Adopt(c) ==
  /\ sess[c].st = "committed"
  /\ Moved(c, Adopted(sess[c]))
  /\ UNCHANGED <<regVars, active, wire, agentVars, faults>>

(* The server notices that the agent is gone.                              *)
PeerGone(c) ==
  /\ sess[c].st \in {"hello", "open", "sending"}
  /\ link # c
  /\ End(c)

ServerCrash ==
  /\ Fault
  /\ view' = node
  /\ active' = NoConn
  /\ sess' = [c \in Conn |-> IF sess[c].st = "none" THEN NoSession
                             ELSE [NoSession EXCEPT !.st = "closed"]]
  /\ toServer' = [c \in Conn |-> <<>>]
  /\ UNCHANGED <<node, issued, lastTok, due, toAgent, agentVars>>

-----------------------------------------------------------------------------
(* The agent.                                                              *)

(* run_session: load and sync the configuration, or keep the token in      *)
(* memory if that fails; then connect and say hello.  A write that a       *)
(* cancelled session left behind holds the configuration lock.             *)
Hello(c, t) ==
  /\ link = NoConn /\ task = NoTask
  /\ sess[c].st = "none"
  /\ link' = c
  /\ mem' = t
  /\ Moved(c, [NoSession EXCEPT !.st = "hello", !.tok = t])
  /\ UNCHANGED <<regVars, active, wire, disk, task>>

Connect(c) ==
  /\ Hello(c, disk)
  /\ durable' = disk
  /\ UNCHANGED faults

ConnectUnloaded(c) ==
  /\ Hello(c, mem)
  /\ durable' \in {durable, disk}
  /\ Fault

(* The slot of a connection both sides have left can be used again.        *)
Forget(c) ==
  /\ sess[c].st = "closed" /\ link # c
  /\ Moved(c, NoSession)
  /\ toAgent' = [toAgent EXCEPT ![c] = <<>>]
  /\ UNCHANGED <<regVars, active, toServer, agentVars, faults>>

(* refresh_token, up to the blocking write.                                *)
Receive(c) ==
  /\ link = c /\ task = NoTask
  /\ toAgent[c] # <<>>
  /\ toAgent' = [toAgent EXCEPT ![c] = Tail(@)]
  /\ task' = [st |-> "writing", cand |-> Head(toAgent[c]), for |-> c]
  /\ UNCHANGED <<regVars, active, sess, toServer, mem, disk, durable, link, faults>>

Rename ==
  /\ task.st = "writing"
  /\ disk' = task.cand.tok
  /\ task' = [task EXCEPT !.st = "renamed"]
  /\ UNCHANGED <<regVars, active, sess, wire, mem, durable, link, faults>>

(* The session that waits for the write, if it still exists, answers; the  *)
(* server may have left.                                                   *)
Answer(persisted) ==
  LET c == task.for IN
  IF link # c THEN UNCHANGED <<toServer, mem>>
  ELSE /\ mem' = IF persisted THEN task.cand.tok ELSE mem
       /\ IF sess[c].st = "closed" THEN UNCHANGED toServer
          ELSE toServer' = [toServer EXCEPT ![c] =
                 Append(@, [tok |-> task.cand.tok, persisted |-> persisted])]

OnlyRenamed == durable
DirectorySynced == disk

Synced ==
  /\ task.st = "renamed"
  /\ durable' = DirectorySynced
  /\ Answer(TRUE)
  /\ task' = NoTask
  /\ UNCHANGED <<regVars, active, sess, toAgent, disk, link, faults>>

(* The write fails before the rename, or the directory is not synced.      *)
WriteFails ==
  /\ Fault
  /\ \/ task.st = "writing" /\ UNCHANGED durable
     \/ task.st = "renamed" /\ durable' \in {durable, disk}
  /\ Answer(FALSE)
  /\ task' = NoTask
  /\ UNCHANGED <<regVars, active, sess, toAgent, disk, link>>

(* The server has closed the connection; or a deadline passes, or the      *)
(* network fails.                                                          *)
ServerLeft ==
  /\ link # NoConn
  /\ sess[link].st = "closed"
  /\ link' = NoConn
  /\ UNCHANGED <<regVars, active, sess, wire, mem, disk, durable, task, faults>>

Leave ==
  /\ link # NoConn
  /\ Fault
  /\ link' = NoConn
  /\ UNCHANGED <<regVars, active, sess, wire, mem, disk, durable, task>>

(* The process restarts; it runs only if it can load its configuration.    *)
AgentCrash ==
  /\ Fault
  /\ mem' = disk /\ durable' = disk
  /\ link' = NoConn
  /\ task' = NoTask
  /\ UNCHANGED <<regVars, active, sess, wire, disk>>

(* The host restarts: a rename that was not synced may be undone.          *)
HostCrash ==
  /\ Fault
  /\ disk' \in {disk, durable}
  /\ mem' = disk' /\ durable' = disk'
  /\ link' = NoConn
  /\ task' = NoTask
  /\ UNCHANGED <<regVars, active, sess, wire>>

-----------------------------------------------------------------------------
ServerStep(c) ==
  \/ Authorize(c) \/ Reject(c)
  \/ ActivateSaved(c) \/ NothingToActivate(c) \/ ActivationRefused(c)
  \/ AuthorizeAgain(c) \/ Register(c)
  \/ BeginStage(c) \/ Stage(c) \/ StageRefused(c) \/ Send(c)
  \/ Commit(c) \/ CommitRefused(c) \/ Adopt(c)

Handler(c) ==
  \/ ServerStep(c)
  \/ EndStale(c) \/ Revalidate(c) \/ TickRefresh(c) \/ TakeAck(c)
  \/ PeerGone(c) \/ Forget(c)

Agent ==
  \/ \E c \in Conn : Connect(c) \/ Receive(c)
  \/ Rename \/ Synced \/ ServerLeft

Next ==
  \/ Age \/ GraceEnds \/ Reissue \/ Reload \/ Reinstall
  \/ \E c \in Conn : \/ Handler(c) \/ ManualRefresh(c)
                    \/ StageFails(c) \/ ActivationFails(c) \/ ConnectUnloaded(c)
  \/ Agent \/ Leave \/ WriteFails
  \/ ServerCrash \/ AgentCrash \/ HostCrash

Spec == Init /\ [][Next]_vars

(* Handlers run, ticks come, the poller reloads, the agent reconnects and  *)
(* its writes return.  A session reads what has arrived before it looks at *)
(* its ticker (select! biased), and the operator's commands, one at a time *)
(* and a few seconds long, leave room for ticks: hence strong fairness.    *)
(* The operator and time owe nothing, and faults are finitely many.        *)
Fairness ==
  /\ WF_vars(Reload) /\ WF_vars(Agent)
  /\ \A c \in Conn :
       /\ WF_vars(ServerStep(c))
       /\ WF_vars(PeerGone(c) \/ Forget(c))
       /\ SF_vars(TakeAck(c)) /\ SF_vars(EndStale(c)) /\ SF_vars(TickRefresh(c))

FairSpec == Spec /\ Fairness

-----------------------------------------------------------------------------
(* TypeOK: every variable holds a value of its kind.                       *)
Entry == [cur : Cred, prev : SUBSET Cred, pend : SUBSET Cred]
Stations == {"none", "hello", "matched", "activated", "admitted", "open", "renewing",
             "staging", "sending", "committing", "committed", "closed"}
Session == [st : Stations, tok : Nat, gen : Nat, fresh : BOOLEAN, cand : Cred]
Write == [st : {"none", "writing", "renamed"}, cand : Cred, for : Conn \cup {NoConn}]

TypeOK ==
  /\ node \in Entry /\ view \in Entry
  /\ Cardinality(node.pend) <= MaxPending
  /\ issued \in Nat /\ lastTok \in Nat /\ due \in BOOLEAN
  /\ active \in Conn \cup {NoConn}
  /\ sess \in [Conn -> Session]
  /\ toAgent \in [Conn -> Seq(Cred)]
  /\ toServer \in [Conn -> Seq([tok : Nat, persisted : BOOLEAN])]
  /\ mem \in Nat /\ disk \in Nat /\ durable \in Nat
  /\ link \in Conn \cup {NoConn} /\ task \in Write
  /\ faults \in Nat

(* SavedTokenAccepted: whatever token the agent would present, after a     *)
(* reconnection, a restart or a crash of its host, the registry accepts    *)
(* for good, unless an operator has revoked it since: no renewal, however  *)
(* it was interrupted, locks the agent out (renewal.rs activates only      *)
(* confirmed candidates and keeps the others).                             *)
SavedTokenAccepted ==
  \A t \in {mem, disk, durable} : t >= issued => \E k \in Lasting(node) : k.tok = t

(* ActivatedWhenDurable: renewal makes a candidate the current credential  *)
(* only when the agent would survive a crash with it (refresh.rs: staging  *)
(* is not activation).                                                     *)
ActivatedWhenDurable ==
  [][node'.cur # node.cur => node'.cur.tok = issued' \/ node'.cur.tok = durable]_vars

(* RevokedStaysRevoked: a token the registry has stopped accepting is      *)
(* never accepted again; late acknowledgements revive nothing.             *)
RevokedStaysRevoked ==
  [][\A t \in 1..lastTok : Knows(node', t) => Knows(node, t)]_vars

(* GenerationsDistinct: sessions are told apart by the generation of their *)
(* token, so no two accepted tokens share one (renewal.rs counts from the  *)
(* newest candidate).                                                      *)
GenerationsDistinct ==
  \A j, k \in Live(node) : j.gen = k.gen => j = k

(* FreshIsValid: a session that skips the check because the registry has   *)
(* the revision it last saw holds a token that is accepted, under its      *)
(* generation (refresh.rs ensure_current_token).                           *)
FreshIsValid ==
  \A c \in Conn : sess[c].fresh =>
    [tok |-> sess[c].tok, gen |-> sess[c].gen] \in Live(view)

(* CommitsTheSavedOne: between an acknowledgement and the write that acts  *)
(* on it the agent may reconnect and be renewed again; a candidate that is *)
(* still staged then is still the one the agent has saved (ws/refresh.rs   *)
(* handle_refresh_ack awaits between its checks and its write).            *)
CommitsTheSavedOne ==
  \A c \in Conn : sess[c].st = "committing" /\ sess[c].cand \in node.pend =>
    disk = sess[c].cand.tok /\ durable = disk

(* SessionsKnowTheirTokens: what a session takes for granted about tokens  *)
(* across its awaits is true: the three above.                             *)
SessionsKnowTheirTokens == GenerationsDistinct /\ FreshIsValid /\ CommitsTheSavedOne

(* TokensOnlyAdvance: a token is staged, saved, current and gone, in this  *)
(* order: the two action properties above.                                 *)
TokensOnlyAdvance == ActivatedWhenDurable /\ RevokedStaysRevoked

(* RenewalCompletes: a credential about to expire is renewed before long,  *)
(* whatever fails on the way, if the faults end (and as long as the bound  *)
(* leaves a token to stage or a session that can send the last one).       *)
Exhausted == lastTok = MaxToken /\ \A c \in Conn : sess[c].cand \notin node.pend

RenewalCompletes ==
  due /\ disk >= issued ~> ~due \/ disk < issued \/ Exhausted
=============================================================================
