-------------------------- MODULE OperationsProofs --------------------------
(***************************************************************************)
(* Proofs about operation.  Every request to renew a node's token is       *)
(* answered at most once, and the permit of a session is taken exactly     *)
(* while a request holds it (SessionCommands).  What the panel shows of an *)
(* agent's update is about the request made last, and true                 *)
(* (UpdateRequests).  Settings in force are those that a restart loads     *)
(* (ServerSettings).                                                       *)
(***************************************************************************)
EXTENDS ServerSettings, SessionCommands, UpdateRequests, SequenceTheorems, TLAPS

(* ---- the commands of a session ---- *)

(* What a session is.  Of the pings only their number matters elsewhere.   *)
Stages == {"none", "registered", "running", "closed", "ending", "over"}
Commands == Ask \cup {Update}
Session(pings) ==
  [stage : Stages, queue : Seq(Commands), permit : BOOLEAN, job : Jobs,
   pending : [id : Nat, retry : Int, reply : AskOrNone], prepared : Nat, retry : Int,
   acks : BOOLEAN, due : BOOLEAN, pings : {pings}, nonce : Int]

(* The place of a request in a session: its queue, the hand of its loop,   *)
(* or the refresh that waits for the agent.  A hand that only answers has  *)
(* given the permit back.                                                  *)
Queued(k, r) == \E i \in DOMAIN r.queue : r.queue[i] = k
Users(r) ==
  {k \in Ask : Queued(k, r) \/ (r.job.hand = k /\ r.job.do # "reply") \/ r.pending.reply = k}
Held(r) == {k \in Ask : k \in Users(r) \/ r.job.hand = k}

NoneQueued(q) == \A i \in DOMAIN q : q[i] = Update
OneQueued(q) == \A i, j \in DOMAIN q : q[i] # Update /\ q[j] # Update => i = j

(* At most one request uses the session, and from one place.               *)
OneUser(r) ==
  /\ OneQueued(r.queue)
  /\ r.job.hand # NoAsk /\ r.job.do # "reply" => NoneQueued(r.queue) /\ r.pending.reply = NoAsk
  /\ r.pending.reply # NoAsk => NoneQueued(r.queue)

(* What the step of a loop has in hand.                                    *)
Hand(r) ==
  /\ r.job.do \in {"none", "ping"} => r.job.hand = NoAsk
  /\ r.job.do \in {"prepare", "send", "failed"} => (r.job.by = "manual" <=> r.job.hand # NoAsk)
  /\ r.job.do \in {"release", "reply"} =>
       r.job.hand # NoAsk /\ r.job.result \in {"error", "renewed", "dropped"}
  /\ r.job.do = "reply" => ~Queued(r.job.hand, r) /\ r.pending.reply # r.job.hand
  /\ r.job.do = "prepare" => r.pending.id = 0
  /\ r.job.do = "send" => r.pending.id # 0
  /\ r.pending.id = 0 => r.pending.reply = NoAsk

(* A session that has not begun, and one that is over, has nothing left.   *)
AtRest(r) ==
  /\ r.stage \in {"none", "registered", "ending"} =>
       /\ r.queue = <<>> /\ ~r.permit
       /\ r.job.do = "none" /\ r.job.hand = NoAsk /\ r.pending.reply = NoAsk
  /\ r.stage = "over" =>
       /\ r.queue = <<>> /\ r.pending.reply = NoAsk
       /\ r.job.do \in {"none", "release", "reply"} /\ r.job.then = "none"

Whole(r) == r \in Session(r.pings) /\ OneUser(r) /\ Hand(r) /\ AtRest(r)

(* The entry leads to a session that has begun.                            *)
Begun == {"running", "closed", "over"}
EntryLeads ==
  /\ minute \in Nat /\ made \in 0..SessionsMade
  /\ handle \in {0, active} /\ active \in 0..SessionsMade
  /\ handle # 0 => sess[handle].stage \in {"running", "closed"}
  /\ \A s \in Sessions : s > made => sess[s].stage = "none"

(* A request that has gone to a session.                                   *)
AskStages == {"idle", "calling", "permitted", "waiting", "refused", "gone",
              "error", "renewed", "dropped"}
AskTypes == ask \in [Ask -> [on : 0..SessionsMade, stage : AskStages]]
AsksGo ==
  \A k \in Ask : ask[k].stage \in {"calling", "permitted", "waiting", "gone"} =>
    ask[k].on \in Sessions /\ sess[ask[k].on].stage \in Begun

(* Who is held can be answered, and who waits is held.                     *)
HeldCallers ==
  /\ \A s \in Sessions : \A k \in Held(sess[s]) :
       ask[k].stage \in {"waiting", "gone"} /\ ask[k].on = s
  /\ \A k \in Ask : ask[k].stage = "waiting" => k \in Held(sess[ask[k].on])

(* The permit is taken exactly while someone has it.                       *)
Takers(s) == {k \in Ask : ask[k].stage = "permitted" /\ ask[k].on = s}
Permits ==
  \A s \in Sessions :
    /\ sess[s].permit <=> Takers(s) \cup Users(sess[s]) # {}
    /\ \A j \in Takers(s), k \in Takers(s) \cup Users(sess[s]) : j = k

CommandsInv ==
  /\ DOMAIN sess = Sessions /\ \A s \in Sessions : Whole(sess[s])
  /\ EntryLeads /\ AskTypes /\ AsksGo /\ HeldCallers /\ Permits

-----------------------------------------------------------------------------
(* Requests are neither commands to update nor nobody.                     *)
LEMMA Names == NoAsk \notin Ask /\ Update \notin Ask /\ SessionsMade \in Nat
BY SessionCommandsAssumption DEF Update

(* A session's record of its type, read field by field.                    *)
LEMMA Fields ==
  ASSUME NEW r, Whole(r)
  PROVE  /\ r.stage \in Stages /\ r.queue \in Seq(Commands) /\ r.permit \in BOOLEAN
         /\ r.job \in Jobs /\ r.job.hand \in AskOrNone /\ r.pending.reply \in AskOrNone
         /\ r.pending \in [id : Nat, retry : Int, reply : AskOrNone]
         /\ r.prepared \in Nat /\ r.acks \in BOOLEAN /\ r.due \in BOOLEAN
BY DEF Whole, Session, Jobs

(* The head of a queue leaves it: a command to update changes no request's *)
(* place, and a request was the only one.                                  *)
LEMMA HeadLeaves ==
  ASSUME NEW r, Whole(r), r.queue # <<>>
  PROVE  /\ Tail(r.queue) \in Seq(Commands) /\ OneQueued(Tail(r.queue))
         /\ Head(r.queue) \in Commands
         /\ NoneQueued(r.queue) => NoneQueued(Tail(r.queue)) /\ Head(r.queue) = Update
         /\ Head(r.queue) # Update => NoneQueued(Tail(r.queue))
         /\ \A k \in Ask : Queued(k, r) <=>
              Head(r.queue) = k \/ \E i \in DOMAIN Tail(r.queue) : Tail(r.queue)[i] = k
<1> DEFINE q == r.queue
<1>1. q \in Seq(Commands) /\ OneQueued(q)
  BY Fields DEF Whole, OneUser
<1>2. q # <<>> => /\ Tail(q) \in Seq(Commands) /\ Head(q) \in Commands /\ Head(q) = q[1]
                  /\ DOMAIN q = 1..Len(q) /\ Len(q) \in Nat \ {0}
                  /\ DOMAIN Tail(q) = 1..(Len(q) - 1)
                  /\ \A i \in 1..(Len(q) - 1) : Tail(q)[i] = q[i + 1]
  BY <1>1
<1>3. \A k : Queued(k, r) <=> \E i \in DOMAIN q : q[i] = k
  BY DEF Queued
<1> HIDE DEF q
<1>4. \A i \in DOMAIN q : i = 1 \/ (i - 1 \in DOMAIN Tail(q) /\ Tail(q)[i - 1] = q[i])
  BY <1>2 DEF q
<1>5. \A i \in DOMAIN Tail(q) : i + 1 \in DOMAIN q /\ i + 1 # 1 /\ Tail(q)[i] = q[i + 1]
  BY <1>2 DEF q
<1>6. 1 \in DOMAIN q /\ Head(q) = q[1]
  BY <1>2 DEF q
<1>7. OneQueued(Tail(q))
  <2> SUFFICES ASSUME NEW i \in DOMAIN Tail(q), NEW j \in DOMAIN Tail(q),
                      Tail(q)[i] # Update, Tail(q)[j] # Update
               PROVE i = j
    BY DEF OneQueued
  <2>1. i + 1 = j + 1
    BY <1>1, <1>5 DEF OneQueued
  <2> QED
    BY <2>1, <1>2 DEF q
<1>8. NoneQueued(q) => NoneQueued(Tail(q)) /\ Head(q) = Update
  BY <1>5, <1>6 DEF NoneQueued
<1>9. Head(q) # Update => NoneQueued(Tail(q))
  BY <1>1, <1>5, <1>6 DEF OneQueued, NoneQueued
<1>10. \A k : (\E i \in DOMAIN q : q[i] = k) <=> (Head(q) = k \/ \E i \in DOMAIN Tail(q) : Tail(q)[i] = k)
  BY <1>4, <1>5, <1>6
<1> QED
  BY <1>2, <1>3, <1>7, <1>8, <1>9, <1>10 DEF q

(* A command joins the queue of a session.                                 *)
LEMMA Joins ==
  ASSUME NEW q \in Seq(Commands), NEW c \in Commands
  PROVE  /\ Append(q, c) \in Seq(Commands)
         /\ \A k : (\E i \in DOMAIN Append(q, c) : Append(q, c)[i] = k)
                     <=> (c = k \/ \E i \in DOMAIN q : q[i] = k)
         /\ OneQueued(q) /\ (c = Update \/ NoneQueued(q)) => OneQueued(Append(q, c))
         /\ NoneQueued(q) /\ c = Update => NoneQueued(Append(q, c))
<1>1. /\ Append(q, c) \in Seq(Commands) /\ Len(q) \in Nat
      /\ DOMAIN Append(q, c) = 1..(Len(q) + 1) /\ DOMAIN q = 1..Len(q)
      /\ Append(q, c)[Len(q) + 1] = c
      /\ \A i \in 1..Len(q) : Append(q, c)[i] = q[i]
  OBVIOUS
<1>2. \A i \in DOMAIN Append(q, c) :
         (i = Len(q) + 1 /\ Append(q, c)[i] = c) \/ (i \in DOMAIN q /\ Append(q, c)[i] = q[i])
  BY <1>1
<1>3. \A i \in DOMAIN q : i \in DOMAIN Append(q, c) /\ Append(q, c)[i] = q[i]
  BY <1>1
<1>4. Len(q) + 1 \in DOMAIN Append(q, c)
  BY <1>1
<1>5. \A k : (\E i \in DOMAIN Append(q, c) : Append(q, c)[i] = k)
               <=> (c = k \/ \E i \in DOMAIN q : q[i] = k)
  BY <1>1, <1>2, <1>3, <1>4
<1>6. OneQueued(q) /\ (c = Update \/ NoneQueued(q)) => OneQueued(Append(q, c))
  BY <1>2 DEF OneQueued, NoneQueued
<1>7. NoneQueued(q) /\ c = Update => NoneQueued(Append(q, c))
  BY <1>2 DEF NoneQueued
<1> QED
  BY <1>1, <1>5, <1>6, <1>7

-----------------------------------------------------------------------------
(* A step of a session that leaves its requests where they are.            *)
Same(q, r) == q.permit = r.permit /\ Users(q) = Users(r) /\ Held(q) = Held(r)
Goes(q, r) == r.stage \in Begun /\ q.stage \in Begun /\ (q.stage = "over" => r.stage = "over")
Steps(q, r) == Whole(q) /\ Same(q, r) /\ Goes(q, r)

(* Whoever has a job has begun, and most jobs are of one that goes on.     *)
LEMMA BusyHasBegun ==
  ASSUME NEW r, Whole(r)
  PROVE  /\ r.job.do # "none" => r.stage \in Begun
         /\ r.job.do \notin {"none", "release", "reply"} => r.stage \in {"running", "closed"}
BY Fields DEF Whole, AtRest, Begun, Stages

(* Any step of a loop: the rest of the state stays as it is.               *)
LEMMA LoopKeeps ==
  ASSUME CommandsInv, NEW s \in Sessions, NEW q, Becomes(s, q), Steps(q, sess[s]), Only(s)
  PROVE  CommandsInv'
<1>1. /\ sess' = [sess EXCEPT ![s] = q]
      /\ ask' = ask /\ minute' = minute /\ made' = made /\ active' = active /\ handle' = handle
  BY DEF Becomes, Only, entryVars
<1>2. /\ DOMAIN sess' = Sessions /\ sess'[s] = q
      /\ \A p \in Sessions : p # s => sess'[p] = sess[p]
  BY <1>1 DEF CommandsInv
<1>3. \A p \in Sessions : Whole(sess'[p])
  BY <1>2 DEF CommandsInv, Steps
<1>4. EntryLeads'
  BY <1>1, <1>2, Names DEF CommandsInv, EntryLeads, Steps, Goes, Begun, Sessions
<1>5. AskTypes' /\ AsksGo'
  BY <1>1, <1>2 DEF CommandsInv, AskTypes, AsksGo, Steps, Goes
<1>6. \A p \in Sessions : /\ Users(sess'[p]) = Users(sess[p])
                            /\ Held(sess'[p]) = Held(sess[p])
                            /\ sess'[p].permit = sess[p].permit
  BY <1>2 DEF Steps, Same
<1>7. \A p : Takers(p)' = Takers(p)
  BY <1>1 DEF Takers
<1>8. HeldCallers'
  BY <1>1, <1>6 DEF CommandsInv, HeldCallers, AsksGo
<1>9. Permits'
  BY <1>6, <1>7 DEF CommandsInv, Permits
<1> QED
  BY <1>2, <1>3, <1>4, <1>5, <1>8, <1>9 DEF CommandsInv

-----------------------------------------------------------------------------
(* What the steps of the loop make of a session.                           *)

(* A refresh begins, for a request or for none.                            *)
LEMMA RefreshStarts ==
  ASSUME NEW r, Whole(r), r.stage \in {"running", "closed"}, r.job.hand = NoAsk, minute \in Nat,
         NEW by \in {"manual", "tick", "agent"}, NEW hand \in AskOrNone,
         by = "manual" <=> hand # NoAsk,
         hand # NoAsk => NoneQueued(r.queue) /\ r.pending.reply = NoAsk
  PROVE  LET q == StartsRefresh(r, by, hand) IN
         /\ Whole(q)
         /\ q.stage = r.stage /\ q.permit = r.permit /\ q.queue = r.queue
         /\ q.pending = r.pending /\ q.job.hand = hand /\ q.job.do # "reply"
<1>1. PICK q : q = StartsRefresh(r, by, hand)
  OBVIOUS
<1>2. PICK p : p = r.pings
  OBVIOUS
<1>3. r \in Session(p) /\ r.pings = p
  BY <1>2 DEF Whole
<1>4. PICK job : job = JobOf(IF ~r.acks THEN "failed"
                             ELSE IF r.pending.id = 0 THEN "prepare" ELSE "send", by, hand)
  OBVIOUS
<1>5. /\ job \in Jobs /\ job.hand = hand /\ job.by = by
      /\ job.do = "failed" \/ (job.do = "prepare" /\ r.pending.id = 0)
                           \/ (job.do = "send" /\ r.pending.id # 0)
  BY <1>4 DEF JobOf, Resting, Jobs
<1>6. CASE ~r.acks
  <2>1. q = [r EXCEPT !.job = job]
    BY <1>1, <1>4, <1>6 DEF StartsRefresh
  <2>2. /\ q \in Session(p) /\ q.pings = p /\ q.job = job
        /\ q.stage = r.stage /\ q.permit = r.permit /\ q.queue = r.queue /\ q.pending = r.pending
    BY <1>3, <1>5, <2>1 DEF Session
  <2>3. OneUser(q) /\ Hand(q) /\ AtRest(q)
    BY <1>5, <2>2 DEF Whole, OneUser, Hand, AtRest
  <2> QED
    BY <1>1, <1>5, <2>2, <2>3 DEF Whole
<1>7. CASE r.acks
  <2>0. PICK m \in Int : m = minute + 1
    OBVIOUS
  <2>1. q = [r EXCEPT !.retry = m, !.job = job]
    BY <1>1, <1>4, <1>7, <2>0 DEF StartsRefresh
  <2>2. /\ q \in Session(p) /\ q.pings = p /\ q.job = job
        /\ q.stage = r.stage /\ q.permit = r.permit /\ q.queue = r.queue /\ q.pending = r.pending
    BY <1>3, <1>5, <2>1 DEF Session
  <2>3. OneUser(q) /\ Hand(q) /\ AtRest(q)
    BY <1>5, <2>2 DEF Whole, OneUser, Hand, AtRest
  <2> QED
    BY <1>1, <1>5, <2>2, <2>3 DEF Whole
<1> QED
  BY <1>6, <1>7

-----------------------------------------------------------------------------
(* The steps of the loop, one by one.                                      *)

(* Without its head, a queue is that of a session of its own.              *)
LEMMA HeadTaken ==
  ASSUME NEW r, Whole(r), r.queue # <<>>, NEW q, q = [r EXCEPT !.queue = Tail(r.queue)]
  PROVE  /\ Whole(q) /\ q.stage = r.stage /\ q.permit = r.permit /\ q.job = r.job
         /\ q.pending = r.pending /\ q.queue = Tail(r.queue)
         /\ \A k \in Ask : Queued(k, r) <=> Head(r.queue) = k \/ Queued(k, q)
<1>1. PICK p : p = r.pings
  OBVIOUS
<1>2. r \in Session(p)
  BY <1>1 DEF Whole
<1>3. PICK t : t = Tail(r.queue)
  OBVIOUS
<1>4. /\ t \in Seq(Commands) /\ OneQueued(t)
      /\ NoneQueued(r.queue) => NoneQueued(t)
      /\ \A k \in Ask : Queued(k, r) <=> Head(r.queue) = k \/ \E i \in DOMAIN t : t[i] = k
  BY <1>3, HeadLeaves
<1>5. q = [r EXCEPT !.queue = t]
  BY <1>3
<1>6. /\ q \in Session(p) /\ q.pings = p
      /\ q.stage = r.stage /\ q.permit = r.permit /\ q.job = r.job
      /\ q.pending = r.pending /\ q.queue = t
  BY <1>2, <1>4, <1>5 DEF Session
<1>7. \A k \in Ask : Queued(k, r) <=> Head(r.queue) = k \/ Queued(k, q)
  BY <1>4, <1>6 DEF Queued
<1>8. OneUser(q)
  BY <1>4, <1>6 DEF Whole, OneUser
<1>9. Hand(q)
  <2>1. q.job.do = "reply" => r.job.hand \in Ask
    BY <1>6, Fields DEF Whole, Hand, AskOrNone
  <2> QED
    BY <1>6, <1>7, <2>1 DEF Whole, Hand
<1>10. AtRest(q)
  BY <1>6 DEF Whole, AtRest
<1> QED
  BY <1>3, <1>6, <1>7, <1>8, <1>9, <1>10 DEF Whole

(* A session that has begun and rests is closed with what it has.          *)
LEMMA Closing ==
  ASSUME NEW r, Whole(r), r.stage \in {"running", "closed"}, NEW q, q = [r EXCEPT !.stage = "closed"]
  PROVE  /\ Whole(q) /\ q.stage = "closed" /\ q.permit = r.permit /\ q.queue = r.queue
         /\ q.job = r.job /\ q.pending = r.pending
         /\ Users(q) = Users(r) /\ Held(q) = Held(r) /\ Goes(q, r)
<1>1. PICK p : p = r.pings
  OBVIOUS
<1>2. r \in Session(p)
  BY <1>1 DEF Whole
<1>3. /\ q \in Session(p) /\ q.pings = p
      /\ q.stage = "closed" /\ q.permit = r.permit /\ q.queue = r.queue
      /\ q.job = r.job /\ q.pending = r.pending
  BY <1>2 DEF Session, Stages
<1>4. OneUser(q) /\ Hand(q) /\ AtRest(q)
  BY <1>3 DEF Whole, OneUser, Hand, Queued, AtRest
<1> QED
  BY <1>3, <1>4 DEF Whole, Users, Held, Queued, Goes, Begun

LEMMA TakeRefreshCommandStep ==
  ASSUME CommandsInv, NEW s \in Sessions, TakeRefreshCommand(s)
  PROVE  CommandsInv'
<1>1. PICK r : r = sess[s]
  OBVIOUS
<1>2. Whole(r) /\ minute \in Nat
  BY <1>1 DEF CommandsInv, EntryLeads
<1>3. /\ r.stage = "running" /\ r.job.do = "none" /\ r.queue # <<>> /\ Head(r.queue) # Update
      /\ Becomes(s, StartsRefresh([r EXCEPT !.queue = Tail(@)], "manual", Head(r.queue)))
      /\ Only(s)
  BY <1>1, Zenon DEF TakeRefreshCommand, Free, Doing
<1>4. PICK t : t = [r EXCEPT !.queue = Tail(r.queue)]
  OBVIOUS
<1>5. /\ Whole(t) /\ t.stage = r.stage /\ t.permit = r.permit /\ t.job = r.job
      /\ t.pending = r.pending /\ t.queue = Tail(r.queue)
      /\ \A k \in Ask : Queued(k, r) <=> Head(r.queue) = k \/ Queued(k, t)
  BY <1>2, <1>3, <1>4, HeadTaken
<1>6. PICK hand : hand = Head(r.queue)
  OBVIOUS
<1>7. hand \in Ask /\ NoneQueued(t.queue) /\ ~NoneQueued(r.queue)
  BY <1>2, <1>3, <1>5, <1>6, HeadLeaves DEF Commands
<1>8. t.pending.reply = NoAsk /\ t.job.hand = NoAsk /\ t.stage = "running"
  BY <1>2, <1>3, <1>5, <1>7 DEF Whole, OneUser, Hand, Begun
<1>9. PICK q : q = StartsRefresh(t, "manual", hand)
  OBVIOUS
<1>10. hand \in AskOrNone /\ hand # NoAsk
  BY <1>7, Names DEF AskOrNone
<1>11. /\ Whole(q) /\ q.stage = t.stage /\ q.permit = t.permit /\ q.queue = t.queue
       /\ q.pending = t.pending /\ q.job.hand = hand /\ q.job.do # "reply"
  BY <1>2, <1>5, <1>7, <1>8, <1>9, <1>10, RefreshStarts
<1>12. Users(q) = Users(r) /\ Held(q) = Held(r)
  BY <1>3, <1>5, <1>6, <1>7, <1>8, <1>10, <1>11, Names DEF Users, Held, Queued
<1>13. Becomes(s, q)
  BY <1>3, <1>4, <1>6, <1>9, Zenon
<1>14. Steps(q, r)
  BY <1>3, <1>5, <1>11, <1>12 DEF Steps, Same, Goes, Begun
<1> QED
  BY <1>1, <1>3, <1>13, <1>14, LoopKeeps

LEMMA TakeUpdateCommandStep ==
  ASSUME CommandsInv, NEW s \in Sessions, TakeUpdateCommand(s)
  PROVE  CommandsInv'
<1>1. PICK r : r = sess[s]
  OBVIOUS
<1>2. Whole(r)
  BY <1>1 DEF CommandsInv
<1>3. /\ r.stage = "running" /\ r.job.do = "none" /\ r.queue # <<>> /\ Head(r.queue) = Update
      /\ \/ Becomes(s, [r EXCEPT !.queue = Tail(r.queue)])
         \/ Becomes(s, [r EXCEPT !.queue = Tail(r.queue), !.stage = "closed"])
      /\ Only(s)
  BY <1>1, Zenon DEF TakeUpdateCommand, Free, Doing
<1>4. PICK t : t = [r EXCEPT !.queue = Tail(r.queue)]
  OBVIOUS
<1>5. /\ Whole(t) /\ t.stage = r.stage /\ t.permit = r.permit /\ t.job = r.job
      /\ t.pending = r.pending /\ t.queue = Tail(r.queue)
      /\ \A k \in Ask : Queued(k, r) <=> Head(r.queue) = k \/ Queued(k, t)
  BY <1>2, <1>3, <1>4, HeadTaken
<1>6. Users(t) = Users(r) /\ Held(t) = Held(r)
  BY <1>3, <1>5, Names DEF Users, Held
<1>7. Steps(t, r)
  BY <1>3, <1>5, <1>6 DEF Steps, Same, Goes, Begun
<1>8. CASE Becomes(s, [r EXCEPT !.queue = Tail(r.queue)])
  BY <1>1, <1>3, <1>4, <1>7, <1>8, LoopKeeps
<1>9. CASE Becomes(s, [r EXCEPT !.queue = Tail(r.queue), !.stage = "closed"])
  <2>1. PICK q : q = [t EXCEPT !.stage = "closed"]
    OBVIOUS
  <2>2. q = [r EXCEPT !.queue = Tail(r.queue), !.stage = "closed"]
    BY <2>1, <1>2, <1>4 DEF Whole, Session
  <2>3. Steps(q, r)
    BY <1>3, <1>5, <1>7, <2>1, Closing DEF Steps, Same, Goes, Begun
  <2> QED
    BY <1>1, <1>3, <1>9, <2>2, <2>3, LoopKeeps
<1> QED
  BY <1>3, <1>8, <1>9

(* A step that touches neither the queue nor the permit, and moves the     *)
(* request it has, if any, between the hand and the refresh that waits.    *)
LEMMA Moves ==
  ASSUME NEW r, Whole(r), r.stage \in {"running", "closed"}, r.job.do # "reply",
         NEW q, q \in Session(q.pings), Hand(q), q.job.do # "reply",
         q.stage \in {r.stage, "closed"},
         q.permit = r.permit, q.queue = r.queue,
         \/ q.job.hand = r.job.hand /\ q.pending.reply = r.pending.reply
         \/ r.job.hand = NoAsk /\ q.job.hand = r.pending.reply /\ q.pending.reply = NoAsk
         \/ r.pending.reply = NoAsk /\ q.job.hand = NoAsk /\ q.pending.reply = r.job.hand
  PROVE  Steps(q, r)
<1>1. OneUser(q)
  BY DEF Whole, OneUser
<1>2. AtRest(q)
  BY DEF AtRest
<1>3. Users(q) = Users(r) /\ Held(q) = Held(r)
  BY Names DEF Users, Held, Queued
<1>4. Goes(q, r)
  BY DEF Goes, Begun
<1> QED
  BY <1>1, <1>2, <1>3, <1>4 DEF Steps, Whole, Same

LEMMA PrepareCandidateStep ==
  ASSUME CommandsInv, NEW s \in Sessions, PrepareCandidate(s)
  PROVE  CommandsInv'
<1>1. PICK r : r = sess[s]
  OBVIOUS
<1>2. Whole(r) /\ minute \in Nat
  BY <1>1 DEF CommandsInv, EntryLeads
<1>3. /\ r.job.do = "prepare" /\ Only(s)
      /\ \/ Becomes(s, [r EXCEPT !.job.do = "failed"])
         \/ Becomes(s, [r EXCEPT !.prepared = r.prepared + 1, !.job.do = "send",
                          !.pending = [id |-> r.prepared + 1, retry |-> minute, reply |-> NoAsk]])
  BY <1>1, Zenon DEF PrepareCandidate, Doing
<1>4. PICK p : p = r.pings
  OBVIOUS
<1>5. r \in Session(p) /\ r.stage \in {"running", "closed"}
  BY <1>2, <1>3, <1>4, BusyHasBegun DEF Whole
<1>6. CASE Becomes(s, [r EXCEPT !.job.do = "failed"])
  <2>1. PICK q : q = [r EXCEPT !.job.do = "failed"]
    OBVIOUS
  <2>2. q \in Session(p) /\ q.pings = p
    BY <1>5, <2>1 DEF Session, Jobs
  <2>3. /\ q.stage = r.stage /\ q.permit = r.permit /\ q.queue = r.queue /\ q.pending = r.pending
        /\ q.job.do = "failed" /\ q.job.by = r.job.by /\ q.job.hand = r.job.hand
    BY <1>5, <2>1 DEF Session, Jobs
  <2>4. Hand(q)
    BY <1>2, <1>3, <2>3 DEF Whole, Hand
  <2>5. Steps(q, r)
    BY <1>2, <1>3, <1>5, <2>2, <2>3, <2>4, Moves
  <2> QED
    BY <1>1, <1>3, <1>6, <2>1, <2>5, LoopKeeps
<1>7. CASE Becomes(s, [r EXCEPT !.prepared = r.prepared + 1, !.job.do = "send",
                          !.pending = [id |-> r.prepared + 1, retry |-> minute, reply |-> NoAsk]])
  <2>1. PICK n \in Nat : n = r.prepared + 1
    BY <1>5 DEF Session
  <2>2. PICK e : e = [id |-> n, retry |-> minute, reply |-> NoAsk]
    OBVIOUS
  <2>3. PICK q : q = [r EXCEPT !.prepared = n, !.job.do = "send", !.pending = e]
    OBVIOUS
  <2>4. e \in [id : Nat, retry : Int, reply : AskOrNone] /\ e.id # 0 /\ e.reply = NoAsk
    BY <1>2, <1>5, <2>1, <2>2 DEF AskOrNone, Session
  <2>5. q \in Session(p) /\ q.pings = p
    BY <1>5, <2>3, <2>4 DEF Session, Jobs
  <2>6. /\ q.stage = r.stage /\ q.permit = r.permit /\ q.queue = r.queue /\ q.pending = e
        /\ q.job.do = "send" /\ q.job.by = r.job.by /\ q.job.hand = r.job.hand
    BY <1>5, <2>3 DEF Session, Jobs
  <2>7. Hand(q) /\ r.pending.reply = NoAsk
    BY <1>2, <1>3, <2>4, <2>6 DEF Whole, Hand
  <2>8. Steps(q, r)
    BY <1>2, <1>3, <1>5, <2>4, <2>5, <2>6, <2>7, Moves
  <2> QED
    BY <1>1, <1>3, <1>7, <2>1, <2>2, <2>3, <2>8, LoopKeeps
<1> QED
  BY <1>3, <1>6, <1>7

LEMMA SendCandidateStep ==
  ASSUME CommandsInv, NEW s \in Sessions, SendCandidate(s)
  PROVE  CommandsInv'
<1>1. PICK r : r = sess[s]
  OBVIOUS
<1>2. Whole(r) /\ minute \in Nat
  BY <1>1 DEF CommandsInv, EntryLeads
<1>3. PICK sent : sent = [r EXCEPT !.pending.retry = minute + 1, !.job = Resting]
  OBVIOUS
<1>4. /\ r.job.do = "send" /\ Only(s)
      /\ \/ Becomes(s, [r EXCEPT !.job.do = "failed"])
         \/ r.job.by = "manual" /\ Becomes(s, [sent EXCEPT !.pending.reply = r.job.hand])
         \/ r.job.by # "manual" /\ Becomes(s, [sent EXCEPT !.job.do = "ping"])
         \/ r.job.by # "manual" /\ Becomes(s, sent)
  BY <1>1, <1>3 DEF SendCandidate, Doing
<1>5. PICK p : p = r.pings
  OBVIOUS
<1>6. r \in Session(p) /\ r.stage \in {"running", "closed"}
  BY <1>2, <1>4, <1>5, BusyHasBegun DEF Whole
<1>7. PICK m \in Int : m = minute + 1
  BY <1>2
<1>8. sent = [r EXCEPT !.pending.retry = m, !.job = Resting]
  BY <1>3, <1>7
<1>9. Resting \in Jobs /\ Resting.do = "none" /\ Resting.hand = NoAsk
  BY DEF Resting, Jobs, AskOrNone
<1>10. sent \in Session(p) /\ sent.pings = p
  BY <1>6, <1>8, <1>9 DEF Session
<1>11. /\ sent.stage = r.stage /\ sent.permit = r.permit /\ sent.queue = r.queue
       /\ sent.job = Resting /\ sent.pending.id = r.pending.id
       /\ sent.pending.reply = r.pending.reply
  BY <1>6, <1>8 DEF Session
<1>12. r.pending.id # 0 /\ (r.job.by = "manual" <=> r.job.hand # NoAsk)
  BY <1>2, <1>4 DEF Whole, Hand
<1>13. CASE Becomes(s, [r EXCEPT !.job.do = "failed"])
  <2>1. PICK q : q = [r EXCEPT !.job.do = "failed"]
    OBVIOUS
  <2>2. q \in Session(p) /\ q.pings = p
    BY <1>6, <2>1 DEF Session, Jobs
  <2>3. /\ q.stage = r.stage /\ q.permit = r.permit /\ q.queue = r.queue /\ q.pending = r.pending
        /\ q.job.do = "failed" /\ q.job.by = r.job.by /\ q.job.hand = r.job.hand
    BY <1>6, <2>1 DEF Session, Jobs
  <2>4. Hand(q)
    BY <1>2, <1>4, <2>3 DEF Whole, Hand
  <2>5. Steps(q, r)
    BY <1>2, <1>4, <1>6, <2>2, <2>3, <2>4, Moves
  <2> QED
    BY <1>1, <1>4, <1>13, <2>1, <2>5, LoopKeeps
<1>14. CASE r.job.by = "manual" /\ Becomes(s, [sent EXCEPT !.pending.reply = r.job.hand])
  <2>1. PICK q : q = [sent EXCEPT !.pending.reply = r.job.hand]
    OBVIOUS
  <2>2. r.job.hand \in AskOrNone /\ r.job.hand # NoAsk
    BY <1>2, <1>12, <1>14, Fields
  <2>3. q \in Session(p) /\ q.pings = p
    BY <1>10, <2>1, <2>2 DEF Session
  <2>4. /\ q.stage = r.stage /\ q.permit = r.permit /\ q.queue = r.queue
        /\ q.job = Resting /\ q.pending.id = r.pending.id /\ q.pending.reply = r.job.hand
    BY <1>10, <1>11, <2>1 DEF Session
  <2>5. Hand(q)
    BY <1>9, <1>12, <2>4 DEF Hand
  <2>6. r.pending.reply = NoAsk
    BY <1>2, <1>4, <2>2 DEF Whole, OneUser
  <2>7. Steps(q, r)
    BY <1>2, <1>4, <1>6, <1>9, <2>3, <2>4, <2>5, <2>6, Moves
  <2> QED
    BY <1>1, <1>4, <1>14, <2>1, <2>7, LoopKeeps
<1>15. CASE r.job.by # "manual" /\ Becomes(s, [sent EXCEPT !.job.do = "ping"])
  <2>1. PICK q : q = [sent EXCEPT !.job.do = "ping"]
    OBVIOUS
  <2>2. q \in Session(p) /\ q.pings = p
    BY <1>10, <2>1 DEF Session, Jobs
  <2>3. /\ q.stage = r.stage /\ q.permit = r.permit /\ q.queue = r.queue
        /\ q.pending = sent.pending /\ q.job.do = "ping" /\ q.job.hand = NoAsk
    BY <1>9, <1>10, <1>11, <2>1 DEF Session, Jobs
  <2>4. Hand(q)
    BY <1>11, <1>12, <2>3 DEF Hand
  <2>5. r.job.hand = NoAsk
    BY <1>12, <1>15
  <2>6. Steps(q, r)
    BY <1>2, <1>4, <1>6, <1>11, <2>2, <2>3, <2>4, <2>5, Moves
  <2> QED
    BY <1>1, <1>4, <1>15, <2>1, <2>6, LoopKeeps
<1>16. CASE r.job.by # "manual" /\ Becomes(s, sent)
  <2>1. Hand(sent)
    BY <1>9, <1>11, <1>12 DEF Hand
  <2>2. Steps(sent, r)
    BY <1>2, <1>4, <1>6, <1>9, <1>10, <1>11, <1>12, <1>16, <2>1, Moves
  <2> QED
    BY <1>1, <1>4, <1>16, <2>2, LoopKeeps
<1> QED
  BY <1>4, <1>13, <1>14, <1>15, <1>16

-----------------------------------------------------------------------------
(* A session with another job, or closed with it.                          *)
With(r, stage, job) == [r EXCEPT !.stage = stage, !.job = job]

LEMMA NewJob ==
  ASSUME NEW r, Whole(r), NEW job \in Jobs, NEW stage \in {r.stage, "closed"},
         NEW q, q = With(r, stage, job)
  PROVE  /\ q \in Session(q.pings)
         /\ q.stage = stage /\ q.permit = r.permit /\ q.queue = r.queue
         /\ q.pending = r.pending /\ q.job = job
<1>1. PICK p : p = r.pings
  OBVIOUS
<1>2. r \in Session(p) /\ stage \in Stages
  BY <1>1, Fields DEF Whole, Stages
<1>3. /\ q \in Session(p) /\ q.pings = p
      /\ q.stage = stage /\ q.permit = r.permit /\ q.queue = r.queue
      /\ q.pending = r.pending /\ q.job = job
  BY <1>2 DEF Session, With
<1> QED
  BY <1>3

(* The jobs there are.                                                     *)
LEMMA JobsMade ==
  /\ Resting \in Jobs /\ Resting.do = "none" /\ Resting.hand = NoAsk
  /\ [Resting EXCEPT !.do = "ping"] \in Jobs
  /\ [Resting EXCEPT !.do = "ping"].do = "ping" /\ [Resting EXCEPT !.do = "ping"].hand = NoAsk
  /\ \A hand \in AskOrNone, result \in {"error", "renewed", "dropped"},
        then \in {"none", "refresh", "close"} :
       LET job == Completing(hand, result, then) IN
       /\ job \in Jobs /\ job.do = "release" /\ job.hand = hand
       /\ job.result = result /\ job.then = then
<1>1. Resting \in Jobs /\ Resting.do = "none" /\ Resting.hand = NoAsk
  BY DEF Resting, Jobs, AskOrNone
<1>2. PICK ping : ping = [Resting EXCEPT !.do = "ping"]
  OBVIOUS
<1>3. ping \in Jobs /\ ping.do = "ping" /\ ping.hand = NoAsk
  BY <1>1, <1>2 DEF Jobs
<1>4. ASSUME NEW hand \in AskOrNone, NEW result \in {"error", "renewed", "dropped"},
             NEW then \in {"none", "refresh", "close"}
      PROVE  LET job == Completing(hand, result, then) IN
             /\ job \in Jobs /\ job.do = "release" /\ job.hand = hand
             /\ job.result = result /\ job.then = then
  <2>1. PICK job : job = [Resting EXCEPT !.do = "release", !.hand = hand, !.result = result,
                                         !.then = then]
    OBVIOUS
  <2>2. /\ job \in Jobs /\ job.do = "release" /\ job.hand = hand
        /\ job.result = result /\ job.then = then
    BY <1>1, <2>1 DEF Jobs
  <2> QED
    BY <2>1, <2>2 DEF Completing
<1> QED
  BY <1>1, <1>2, <1>3, <1>4

(* A session that rests after a job, or is closed.                         *)
LEMMA Rests ==
  ASSUME NEW r, Whole(r), r.stage \in {"running", "closed"}, r.job.do # "reply", r.job.hand = NoAsk,
         NEW stage \in {r.stage, "closed"},
         NEW job \in Jobs, job.do \in {"none", "ping"}, job.hand = NoAsk,
         NEW q, q = With(r, stage, job)
  PROVE  Steps(q, r)
<1>1. /\ q \in Session(q.pings)
      /\ q.stage = stage /\ q.permit = r.permit /\ q.queue = r.queue
      /\ q.pending = r.pending /\ q.job = job
  BY NewJob
<1>2. Hand(q)
  BY <1>1 DEF Whole, Hand
<1> QED
  BY <1>1, <1>2, Moves

LEMMA LeaveStep ==
  ASSUME CommandsInv, NEW s \in Sessions, LeaveStale(s) \/ LeaveSession(s)
  PROVE  CommandsInv'
<1>1. PICK r : r = sess[s]
  OBVIOUS
<1>2. PICK q : q = With(r, "closed", Resting)
  OBVIOUS
<1>3. r.stage = "running" /\ r.job.do = "none" /\ Becomes(s, q) /\ Only(s)
  BY <1>1, <1>2 DEF LeaveStale, LeaveSession, Free, Doing, Closes, With
<1>4. Whole(r) /\ r.job.hand = NoAsk
  BY <1>1, <1>3 DEF CommandsInv, Whole, Hand
<1>5. Steps(q, r)
  BY <1>2, <1>3, <1>4, JobsMade, Rests
<1> QED
  BY <1>1, <1>3, <1>5, LoopKeeps

LEMMA RefreshFailsStep ==
  ASSUME CommandsInv, NEW s \in Sessions, RefreshFails(s)
  PROVE  CommandsInv'
<1>1. PICK r : r = sess[s]
  OBVIOUS
<1>2. PICK answer : answer = Completing(r.job.hand, "error", "none")
  OBVIOUS
<1>3. PICK ping : ping = [Resting EXCEPT !.do = "ping"]
  OBVIOUS
<1>4. /\ r.job.do = "failed" /\ Only(s)
      /\ \/ r.job.by = "manual" /\ Becomes(s, [r EXCEPT !.job = answer])
         \/ r.job.by # "manual" /\ Becomes(s, [r EXCEPT !.job = ping])
         \/ r.job.by # "manual" /\ Becomes(s, [r EXCEPT !.job = Resting])
         \/ r.job.by # "manual" /\ Becomes(s, [r EXCEPT !.stage = "closed", !.job = Resting])
  BY <1>1, <1>2, <1>3 DEF RefreshFails, Doing, Closes
<1>5. Whole(r) /\ (r.job.by = "manual" <=> r.job.hand # NoAsk)
  BY <1>1, <1>4 DEF CommandsInv, Whole, Hand
<1>6. r.stage \in {"running", "closed"} /\ r.job.hand \in AskOrNone
  BY <1>4, <1>5, BusyHasBegun, Fields
<1>7. \A job : [r EXCEPT !.job = job] = With(r, r.stage, job)
  BY <1>5 DEF Whole, Session, With
<1>8. CASE r.job.by = "manual" /\ Becomes(s, [r EXCEPT !.job = answer])
  <2>1. /\ answer \in Jobs /\ answer.do = "release" /\ answer.hand = r.job.hand
        /\ answer.result = "error"
    BY <1>2, <1>6, JobsMade
  <2>2. PICK q : q = With(r, r.stage, answer)
    OBVIOUS
  <2>3. /\ q \in Session(q.pings)
        /\ q.stage = r.stage /\ q.permit = r.permit /\ q.queue = r.queue
        /\ q.pending = r.pending /\ q.job = answer
    BY <1>5, <2>1, <2>2, NewJob
  <2>4. Hand(q)
    BY <1>5, <1>8, <2>1, <2>3 DEF Whole, Hand
  <2>5. Steps(q, r)
    BY <1>4, <1>5, <1>6, <2>1, <2>3, <2>4, Moves
  <2> QED
    BY <1>1, <1>4, <1>7, <1>8, <2>2, <2>5, LoopKeeps
<1>9. CASE r.job.by # "manual" /\ Becomes(s, [r EXCEPT !.job = ping])
  <2>1. PICK q : q = With(r, r.stage, ping)
    OBVIOUS
  <2>2. ping \in Jobs /\ ping.do = "ping" /\ ping.hand = NoAsk
    BY <1>3, JobsMade
  <2>3. Steps(q, r)
    BY <1>4, <1>5, <1>6, <1>9, <2>1, <2>2, Rests
  <2> QED
    BY <1>1, <1>4, <1>7, <1>9, <2>1, <2>3, LoopKeeps
<1>10. CASE r.job.by # "manual" /\ Becomes(s, [r EXCEPT !.job = Resting])
  <2>1. PICK q : q = With(r, r.stage, Resting)
    OBVIOUS
  <2>2. Steps(q, r)
    BY <1>4, <1>5, <1>6, <1>10, <2>1, JobsMade, Rests
  <2> QED
    BY <1>1, <1>4, <1>7, <1>10, <2>1, <2>2, LoopKeeps
<1>11. CASE r.job.by # "manual" /\ Becomes(s, [r EXCEPT !.stage = "closed", !.job = Resting])
  <2>1. PICK q : q = With(r, "closed", Resting)
    OBVIOUS
  <2>2. Steps(q, r)
    BY <1>4, <1>5, <1>6, <1>11, <2>1, JobsMade, Rests
  <2> QED
    BY <1>1, <1>4, <1>11, <2>1, <2>2, LoopKeeps DEF With
<1> QED
  BY <1>4, <1>8, <1>9, <1>10, <1>11

(* The caller that waits for the agent goes over to the hand.              *)
LEMMA CallerAnswered ==
  ASSUME NEW r, Whole(r), r.stage = "running", r.job.do = "none", r.pending.reply # NoAsk,
         NEW then \in {"none", "refresh"},
         NEW job, job = Completing(r.pending.reply, "error", then),
         NEW q, q = [r EXCEPT !.pending.reply = NoAsk, !.job = job]
  PROVE  Steps(q, r)
<1>1. PICK p : p = r.pings
  OBVIOUS
<1>2. r \in Session(p) /\ r.job.hand = NoAsk /\ r.pending.reply \in AskOrNone
  BY <1>1, Fields DEF Whole, Hand
<1>3. /\ job \in Jobs /\ job.do = "release" /\ job.hand = r.pending.reply
      /\ job.result = "error"
  BY <1>2, JobsMade
<1>4. q \in Session(p) /\ q.pings = p
  BY <1>2, <1>3 DEF Session, AskOrNone
<1>5. /\ q.stage = r.stage /\ q.permit = r.permit /\ q.queue = r.queue
      /\ q.pending.id = r.pending.id /\ q.pending.reply = NoAsk /\ q.job = job
  BY <1>2 DEF Session
<1>6. Hand(q)
  BY <1>3, <1>5 DEF Whole, Hand
<1> QED
  BY <1>2, <1>3, <1>4, <1>5, <1>6, Moves

LEMMA RefuseTokenStep ==
  ASSUME CommandsInv, NEW s \in Sessions, RefuseToken(s)
  PROVE  CommandsInv'
<1>1. PICK r : r = sess[s]
  OBVIOUS
<1>2. PICK job : job = Completing(r.pending.reply, "error", "none")
  OBVIOUS
<1>3. PICK q : q = [r EXCEPT !.pending.reply = NoAsk, !.job = job]
  OBVIOUS
<1>4. /\ r.stage = "running" /\ r.job.do = "none" /\ r.pending.reply # NoAsk
      /\ Becomes(s, q) /\ Only(s)
  BY <1>3, <1>1, <1>2 DEF RefuseToken, ReadsFrame, Free, Doing
<1>5. Whole(r)
  BY <1>1 DEF CommandsInv
<1>6. Steps(q, r)
  BY <1>3, <1>2, <1>4, <1>5, CallerAnswered
<1> QED
  BY <1>1, <1>4, <1>6, LoopKeeps

LEMMA ConfirmTokenStep ==
  ASSUME CommandsInv, NEW s \in Sessions, ConfirmToken(s)
  PROVE  CommandsInv'
<1>1. PICK r : r = sess[s]
  OBVIOUS
<1>2. PICK job : job = JobOf("commit", "agent", r.pending.reply)
  OBVIOUS
<1>3. PICK q : q = [r EXCEPT !.pending = NoRefresh, !.job = job]
  OBVIOUS
<1>4. r.stage = "running" /\ r.job.do = "none" /\ Becomes(s, q) /\ Only(s)
  BY <1>1, <1>2, <1>3 DEF ConfirmToken, ReadsFrame, Free, Doing
<1>5. PICK p : p = r.pings
  OBVIOUS
<1>6. Whole(r) /\ r \in Session(p) /\ r.job.hand = NoAsk /\ r.pending.reply \in AskOrNone
  BY <1>1, <1>4, <1>5, Fields DEF CommandsInv, Whole, Hand
<1>7. job \in Jobs /\ job.do = "commit" /\ job.hand = r.pending.reply
  BY <1>2, <1>6 DEF JobOf, Resting, Jobs
<1>8. NoRefresh \in [id : Nat, retry : Int, reply : AskOrNone] /\ NoRefresh.reply = NoAsk
  BY DEF NoRefresh, AskOrNone
<1>9. q \in Session(p) /\ q.pings = p
  BY <1>3, <1>6, <1>7, <1>8 DEF Session
<1>10. /\ q.stage = r.stage /\ q.permit = r.permit /\ q.queue = r.queue
       /\ q.pending = NoRefresh /\ q.job = job
  BY <1>3, <1>6 DEF Session
<1>11. Hand(q)
  BY <1>7, <1>8, <1>10 DEF Hand
<1>12. Steps(q, r)
  BY <1>4, <1>6, <1>7, <1>8, <1>9, <1>10, <1>11, Moves
<1> QED
  BY <1>1, <1>4, <1>12, LoopKeeps

LEMMA CommitTokenStep ==
  ASSUME CommandsInv, NEW s \in Sessions, CommitToken(s)
  PROVE  CommandsInv'
<1>1. PICK r : r = sess[s]
  OBVIOUS
<1>2. r.job.do = "commit" /\ Only(s)
  BY <1>1 DEF CommitToken, Doing
<1>3. PICK p : p = r.pings
  OBVIOUS
<1>4. Whole(r) /\ r \in Session(p) /\ r.job.hand \in AskOrNone
  BY <1>1, <1>3, Fields DEF CommandsInv, Whole
<1>5. r.stage \in {"running", "closed"}
  BY <1>2, <1>4, BusyHasBegun
<1>6. PICK ok \in BOOLEAN :
        Becomes(s, IF r.job.hand = NoAsk
                   THEN [r EXCEPT !.job = Resting, !.stage = IF ok THEN @ ELSE "closed",
                                  !.due = @ /\ ~ok]
                   ELSE [r EXCEPT !.due = @ /\ ~ok,
                                  !.job = IF ok THEN Completing(r.job.hand, "renewed", "none")
                                                ELSE Completing(r.job.hand, "dropped", "close")])
  BY <1>1 DEF CommitToken
<1>7. PICK due \in BOOLEAN : due = (r.due /\ ~ok)
  OBVIOUS
<1>8. CASE r.job.hand = NoAsk
  <2>1. PICK stage \in {r.stage, "closed"} : stage = IF ok THEN r.stage ELSE "closed"
    OBVIOUS
  <2>2. PICK q : q = [r EXCEPT !.job = Resting, !.stage = stage, !.due = due]
    OBVIOUS
  <2>3. Becomes(s, q)
    BY <1>6, <1>7, <1>8, <2>1, <2>2
  <2>4. Resting \in Jobs /\ Resting.do = "none" /\ Resting.hand = NoAsk /\ stage \in Stages
    BY <1>4, JobsMade, Fields DEF Stages
  <2>5. q \in Session(p) /\ q.pings = p
    BY <1>4, <2>2, <2>4 DEF Session
  <2>6. /\ q.stage = stage /\ q.permit = r.permit /\ q.queue = r.queue
        /\ q.pending = r.pending /\ q.job = Resting
    BY <1>4, <2>2 DEF Session
  <2>7. Hand(q)
    BY <1>4, <2>4, <2>6 DEF Whole, Hand
  <2>8. Steps(q, r)
    BY <1>2, <1>4, <1>5, <1>8, <2>4, <2>5, <2>6, <2>7, Moves
  <2> QED
    BY <1>1, <1>2, <2>3, <2>8, LoopKeeps
<1>9. CASE r.job.hand # NoAsk
  <2>1. PICK job : job = IF ok THEN Completing(r.job.hand, "renewed", "none")
                               ELSE Completing(r.job.hand, "dropped", "close")
    OBVIOUS
  <2>2. /\ job \in Jobs /\ job.do = "release" /\ job.hand = r.job.hand
        /\ job.result \in {"renewed", "dropped"}
    BY <1>4, <2>1, JobsMade
  <2>3. PICK q : q = [r EXCEPT !.due = due, !.job = job]
    OBVIOUS
  <2>4. Becomes(s, q)
    BY <1>6, <1>7, <1>9, <2>1, <2>3
  <2>5. q \in Session(p) /\ q.pings = p
    BY <1>4, <2>2, <2>3 DEF Session
  <2>6. /\ q.stage = r.stage /\ q.permit = r.permit /\ q.queue = r.queue
        /\ q.pending = r.pending /\ q.job = job
    BY <1>4, <2>3 DEF Session
  <2>7. Hand(q)
    BY <1>4, <1>9, <2>2, <2>6 DEF Whole, Hand
  <2>8. Steps(q, r)
    BY <1>2, <1>4, <1>5, <2>2, <2>5, <2>6, <2>7, Moves
  <2> QED
    BY <1>1, <1>2, <2>4, <2>8, LoopKeeps
<1> QED
  BY <1>8, <1>9

(* A refresh that no request asked for.                                    *)
LEMMA NothingBegins ==
  ASSUME NEW r, Whole(r), r.stage = "running", r.job.do = "none", minute \in Nat,
         NEW by \in {"tick", "agent"}, NEW q, q = StartsRefresh(r, by, NoAsk)
  PROVE  Steps(q, r)
<1>1. r.job.hand = NoAsk /\ NoAsk \in AskOrNone
  BY DEF Whole, Hand, AskOrNone
<1>2. /\ Whole(q)
      /\ q.stage = r.stage /\ q.permit = r.permit /\ q.queue = r.queue
      /\ q.pending = r.pending /\ q.job.hand = NoAsk /\ q.job.do # "reply"
  BY <1>1, RefreshStarts
<1> QED
  BY <1>1, <1>2, Moves DEF Whole

LEMMA AgentAsksRefreshStep ==
  ASSUME CommandsInv, NEW s \in Sessions, AgentAsksRefresh(s)
  PROVE  CommandsInv'
<1>1. PICK r : r = sess[s]
  OBVIOUS
<1>2. PICK q : q = StartsRefresh(r, "agent", NoAsk)
  OBVIOUS
<1>3. r.stage = "running" /\ r.job.do = "none" /\ Becomes(s, q) /\ Only(s)
  BY <1>1, <1>2, Zenon DEF AgentAsksRefresh, ReadsFrame, Free, Doing
<1>4. Whole(r) /\ minute \in Nat
  BY <1>1 DEF CommandsInv, EntryLeads
<1>5. Steps(q, r)
  BY <1>2, <1>3, <1>4, NothingBegins
<1> QED
  BY <1>1, <1>3, <1>5, LoopKeeps

LEMMA TakePongStep ==
  ASSUME CommandsInv, NEW s \in Sessions, TakePong(s)
  PROVE  CommandsInv'
<1>1. PICK r : r = sess[s]
  OBVIOUS
<1>2. PICK n : Becomes(s, [r EXCEPT !.pings = Received(r.pings, n)])
  BY <1>1, Zenon DEF TakePong
<1>3. PICK pings : pings = Received(r.pings, n)
  OBVIOUS
<1>4. PICK q : q = [r EXCEPT !.pings = pings]
  OBVIOUS
<1>5. r.stage = "running" /\ r.job.do = "none" /\ Becomes(s, q) /\ Only(s)
  BY <1>1, <1>2, <1>3, <1>4, Zenon DEF TakePong, ReadsFrame, Free, Doing
<1>6. PICK p : p = r.pings
  OBVIOUS
<1>7. Whole(r) /\ r \in Session(p)
  BY <1>1, <1>6 DEF CommandsInv, Whole
<1>8. q \in Session(pings) /\ q.pings = pings
  BY <1>4, <1>7 DEF Session
<1>9. /\ q.stage = r.stage /\ q.permit = r.permit /\ q.queue = r.queue
      /\ q.pending = r.pending /\ q.job = r.job
  BY <1>4, <1>7 DEF Session
<1>10. Hand(q)
  BY <1>7, <1>9 DEF Whole, Hand, Queued
<1>11. Steps(q, r)
  BY <1>5, <1>7, <1>8, <1>9, <1>10, Moves
<1> QED
  BY <1>1, <1>5, <1>11, LoopKeeps

LEMMA SendPingStep ==
  ASSUME CommandsInv, NEW s \in Sessions, SendPing(s)
  PROVE  CommandsInv'
<1>1. PICK r : r = sess[s]
  OBVIOUS
<1>2. PICK pings : pings = Append(Pruned(r.pings), [nonce |-> r.nonce, at |-> minute])
  OBVIOUS
<1>3. PICK sent : sent = [r EXCEPT !.pings = pings, !.nonce = r.nonce + 1, !.job = Resting]
  OBVIOUS
<1>4. /\ r.job.do = "ping" /\ Only(s)
      /\ Becomes(s, sent) \/ Becomes(s, [sent EXCEPT !.stage = "closed"])
  BY <1>1, <1>2, <1>3, Zenon DEF SendPing, Doing
<1>5. PICK p : p = r.pings
  OBVIOUS
<1>6. Whole(r) /\ r \in Session(p) /\ r.job.hand = NoAsk
  BY <1>1, <1>4, <1>5 DEF CommandsInv, Whole, Hand
<1>7. r.stage \in {"running", "closed"}
  BY <1>4, <1>6, BusyHasBegun
<1>8. PICK n \in Int : n = r.nonce + 1
  BY <1>6 DEF Session
<1>9. sent = [r EXCEPT !.pings = pings, !.nonce = n, !.job = Resting]
  BY <1>3, <1>8
<1>10. sent \in Session(pings) /\ sent.pings = pings
  BY <1>6, <1>9, JobsMade DEF Session
<1>11. /\ sent.stage = r.stage /\ sent.permit = r.permit /\ sent.queue = r.queue
       /\ sent.pending = r.pending /\ sent.job = Resting
  BY <1>6, <1>9 DEF Session
<1>12. Hand(sent)
  BY <1>6, <1>11, JobsMade DEF Whole, Hand
<1>13. Steps(sent, r)
  BY <1>4, <1>6, <1>7, <1>10, <1>11, <1>12, JobsMade, Moves
<1>14. CASE Becomes(s, [sent EXCEPT !.stage = "closed"])
  <2>1. PICK q : q = [sent EXCEPT !.stage = "closed"]
    OBVIOUS
  <2>2. Steps(q, r)
    BY <1>7, <1>11, <1>13, <2>1, Closing DEF Steps, Same, Goes, Begun
  <2> QED
    BY <1>1, <1>4, <1>14, <2>1, <2>2, LoopKeeps
<1> QED
  BY <1>1, <1>4, <1>13, <1>14, LoopKeeps

LEMMA PingTickStep ==
  ASSUME CommandsInv, NEW s \in Sessions, PingTick(s)
  PROVE  CommandsInv'
<1>1. PICK r : r = sess[s]
  OBVIOUS
<1>2. PICK job : job = Completing(r.pending.reply, "error", "refresh")
  OBVIOUS
<1>3. PICK ping : ping = [Resting EXCEPT !.do = "ping"]
  OBVIOUS
<1>4. /\ r.stage = "running" /\ r.job.do = "none" /\ Only(s)
      /\ Becomes(s, TickRefresh(r))
  BY <1>1, Zenon DEF PingTick, ReadsFrame, Free, Doing
<1>5. Whole(r) /\ minute \in Nat /\ r.job.hand = NoAsk
  BY <1>1, <1>4 DEF CommandsInv, EntryLeads, Whole, Hand
<1>6. \/ r.pending.reply # NoAsk /\ TickRefresh(r) = [r EXCEPT !.pending.reply = NoAsk, !.job = job]
      \/ TickRefresh(r) = StartsRefresh(r, "tick", NoAsk)
      \/ TickRefresh(r) = [r EXCEPT !.job = ping]
  BY <1>2, <1>3 DEF TickRefresh
<1>7. CASE r.pending.reply # NoAsk /\ TickRefresh(r) = [r EXCEPT !.pending.reply = NoAsk, !.job = job]
  <2>1. PICK q : q = [r EXCEPT !.pending.reply = NoAsk, !.job = job]
    OBVIOUS
  <2>2. Steps(q, r)
    BY <1>2, <1>4, <1>5, <1>7, <2>1, CallerAnswered
  <2> QED
    BY <1>1, <1>4, <1>7, <2>1, <2>2, LoopKeeps
<1>8. CASE TickRefresh(r) = StartsRefresh(r, "tick", NoAsk)
  <2>1. PICK q : q = StartsRefresh(r, "tick", NoAsk)
    OBVIOUS
  <2>2. Steps(q, r)
    BY <1>4, <1>5, <2>1, NothingBegins
  <2> QED
    BY <1>1, <1>4, <1>8, <2>1, <2>2, LoopKeeps
<1>9. CASE TickRefresh(r) = [r EXCEPT !.job = ping]
  <2>1. PICK q : q = With(r, r.stage, ping)
    OBVIOUS
  <2>2. q = [r EXCEPT !.job = ping]
    BY <1>5, <2>1 DEF Whole, Session, With
  <2>3. ping \in Jobs /\ ping.do = "ping" /\ ping.hand = NoAsk
    BY <1>3, JobsMade
  <2>4. Steps(q, r)
    BY <1>4, <1>5, <2>1, <2>3, Rests
  <2> QED
    BY <1>1, <1>4, <1>9, <2>2, <2>4, LoopKeeps
<1> QED
  BY <1>6, <1>7, <1>8, <1>9

(* What is still queued goes with the receiver.                            *)
LEMMA DropQueuedStep ==
  ASSUME CommandsInv, NEW s \in Sessions, DropQueued(s)
  PROVE  CommandsInv'
<1>1. PICK r : r = sess[s]
  OBVIOUS
<1>2. PICK k : k = Head(r.queue)
  OBVIOUS
<1>3. PICK t : t = [r EXCEPT !.queue = Tail(r.queue)]
  OBVIOUS
<1>4. PICK job : job = Completing(k, "dropped", "none")
  OBVIOUS
<1>5. /\ r.stage = "closed" /\ r.job.do = "none" /\ r.queue # <<>> /\ Only(s)
      /\ Becomes(s, IF k = Update THEN t ELSE [t EXCEPT !.job = job])
  BY <1>1, <1>2, <1>3, <1>4, Zenon DEF DropQueued, Doing
<1>6. Whole(r) /\ r.job.hand = NoAsk
  BY <1>1, <1>5 DEF CommandsInv, Whole, Hand
<1>7. /\ Whole(t) /\ t.stage = r.stage /\ t.permit = r.permit /\ t.job = r.job
      /\ t.pending = r.pending /\ t.queue = Tail(r.queue)
      /\ \A j \in Ask : Queued(j, r) <=> Head(r.queue) = j \/ Queued(j, t)
  BY <1>3, <1>5, <1>6, HeadTaken
<1>8. CASE k = Update
  <2>1. Users(t) = Users(r) /\ Held(t) = Held(r)
    BY <1>2, <1>7, <1>8, Names DEF Users, Held
  <2>2. Steps(t, r)
    BY <1>5, <1>7, <2>1 DEF Steps, Same, Goes, Begun
  <2> QED
    BY <1>1, <1>5, <1>8, <2>2, LoopKeeps
<1>9. CASE k # Update
  <2>1. PICK q : q = With(t, t.stage, job)
    OBVIOUS
  <2>2. Becomes(s, q)
    <3>1. q = [t EXCEPT !.job = job]
      BY <1>7, <2>1 DEF Whole, Session, With
    <3> QED
      BY <1>5, <1>9, <3>1
  <2>3. k \in Ask /\ NoneQueued(t.queue) /\ r.pending.reply = NoAsk
    BY <1>2, <1>5, <1>6, <1>7, <1>9, HeadLeaves DEF Commands, Whole, OneUser
  <2>4. /\ job \in Jobs /\ job.do = "release" /\ job.hand = k /\ job.result = "dropped"
        /\ k # NoAsk
    BY <1>4, <2>3, JobsMade, Names DEF AskOrNone
  <2>5. /\ q \in Session(q.pings)
        /\ q.stage = t.stage /\ q.permit = t.permit /\ q.queue = t.queue
        /\ q.pending = t.pending /\ q.job = job
    BY <1>7, <2>1, <2>4, NewJob
  <2>6. OneUser(q) /\ Hand(q) /\ AtRest(q)
    BY <1>5, <1>7, <2>3, <2>4, <2>5 DEF Whole, OneUser, Hand, AtRest
  <2>7. Users(q) = Users(r) /\ Held(q) = Held(r)
    BY <1>2, <1>6, <1>7, <2>3, <2>4, <2>5, Names DEF Users, Held, Queued
  <2>8. Steps(q, r)
    BY <1>5, <1>7, <2>5, <2>6, <2>7 DEF Steps, Same, Goes, Begun, Whole
  <2> QED
    BY <1>1, <1>5, <2>2, <2>8, LoopKeeps
<1> QED
  BY <1>8, <1>9

-----------------------------------------------------------------------------
(* Steps that change who holds what.                                       *)

LEMMA OneBecomes ==
  ASSUME CommandsInv, NEW s \in Sessions, NEW q, Whole(q), sess' = [sess EXCEPT ![s] = q]
  PROVE  /\ DOMAIN sess' = Sessions /\ sess'[s] = q
         /\ \A p \in Sessions : p # s => sess'[p] = sess[p]
         /\ \A p \in Sessions : Whole(sess'[p])
<1>1. /\ DOMAIN sess' = Sessions /\ sess'[s] = q
      /\ \A p \in Sessions : p # s => sess'[p] = sess[p]
  BY DEF CommandsInv
<1> QED
  BY <1>1 DEF CommandsInv

(* The permit is given back before the caller hears of it; nobody can have *)
(* taken it meanwhile.                                                     *)
LEMMA ReleasePermitStep ==
  ASSUME CommandsInv, NEW s \in Sessions, ReleasePermit(s)
  PROVE  CommandsInv'
<1>1. PICK r : r = sess[s]
  OBVIOUS
<1>2. PICK q : q = [r EXCEPT !.permit = FALSE, !.job.do = "reply"]
  OBVIOUS
<1>3. PICK p : p = r.pings
  OBVIOUS
<1>4. /\ Whole(r) /\ r \in Session(p) /\ r.job.do = "release"
      /\ Only(s) /\ sess' = [sess EXCEPT ![s].permit = FALSE, ![s].job.do = "reply"]
  BY <1>1, <1>3 DEF CommandsInv, Whole, ReleasePermit, Doing
<1>5. sess' = [sess EXCEPT ![s] = q]
  BY <1>1, <1>2, <1>4 DEF CommandsInv
<1>6. q \in Session(p) /\ q.pings = p
  BY <1>2, <1>4 DEF Session, Jobs
<1>7. /\ q.stage = r.stage /\ ~q.permit /\ q.queue = r.queue /\ q.pending = r.pending
      /\ q.job.do = "reply" /\ q.job.hand = r.job.hand /\ q.job.result = r.job.result
      /\ q.job.then = r.job.then
  BY <1>2, <1>4 DEF Session, Jobs
<1>8. r.job.hand \in Ask /\ NoneQueued(r.queue) /\ r.pending.reply = NoAsk /\ r.stage \in Begun
  BY <1>4, Fields, BusyHasBegun DEF Whole, Hand, OneUser, AskOrNone
<1>9. ~Queued(r.job.hand, r) /\ \A k \in Ask : ~Queued(k, q)
  BY <1>7, <1>8, Names DEF NoneQueued, Queued
<1>10. OneUser(q) /\ Hand(q) /\ AtRest(q)
  <2>1. OneUser(q)
    BY <1>4, <1>7, <1>8 DEF Whole, OneUser
  <2>2. Hand(q)
    BY <1>4, <1>7, <1>8, <1>9, Names DEF Whole, Hand, Queued
  <2>3. AtRest(q)
    BY <1>4, <1>7, <1>8 DEF Whole, AtRest, Begun
  <2> QED
    BY <2>1, <2>2, <2>3
<1>11. Users(q) = {} /\ Held(q) = Held(r) /\ r.job.hand \in Users(r) /\ r.job.hand \in Held(r)
  BY <1>4, <1>7, <1>8, <1>9, Names DEF Users, Held, Queued
<1>12. Takers(s) = {}
  <2>1. ask[r.job.hand].stage # "permitted"
    BY <1>1, <1>11 DEF CommandsInv, HeldCallers
  <2>2. \A j \in Takers(s) : j = r.job.hand
    BY <1>1, <1>11 DEF CommandsInv, Permits
  <2> QED
    BY <2>1, <2>2 DEF Takers
<1>13. /\ DOMAIN sess' = Sessions /\ sess'[s] = q
       /\ \A x \in Sessions : x # s => sess'[x] = sess[x]
       /\ \A x \in Sessions : Whole(sess'[x])
  BY <1>5, <1>6, <1>10, OneBecomes DEF Whole
<1>14. ask' = ask /\ minute' = minute /\ made' = made /\ active' = active /\ handle' = handle
  BY <1>4 DEF Only, entryVars
<1>15. EntryLeads' /\ AskTypes' /\ AsksGo'
  <2>1. \A x \in Sessions : sess'[x].stage = sess[x].stage
    BY <1>1, <1>7, <1>13
  <2> QED
    BY <1>14, <2>1, Names DEF CommandsInv, EntryLeads, AskTypes, AsksGo, Sessions
<1>16. HeldCallers'
  <2>1. \A x \in Sessions : Held(sess'[x]) = Held(sess[x])
    BY <1>1, <1>11, <1>13
  <2> QED
    BY <1>14, <2>1 DEF CommandsInv, HeldCallers, AsksGo
<1>17. Permits'
  <2>1. \A x : Takers(x)' = Takers(x)
    BY <1>14 DEF Takers
  <2> QED
    BY <1>7, <1>11, <1>12, <1>13, <2>1 DEF CommandsInv, Permits
<1> QED
  BY <1>13, <1>15, <1>16, <1>17 DEF CommandsInv

(* The caller hears: nobody else holds its command any more.               *)
LEMMA SendReplyStep ==
  ASSUME CommandsInv, NEW s \in Sessions, SendReply(s)
  PROVE  CommandsInv'
<1>1. PICK r : r = sess[s]
  OBVIOUS
<1>2. PICK t : t = With(r, r.stage, Resting)
  OBVIOUS
<1>3. Whole(r) /\ minute \in Nat
  BY <1>1 DEF CommandsInv, EntryLeads
<1>4. /\ r.job.do = "reply" /\ ask' = Answered(r.job.hand, r.job.result)
      /\ minute' = minute /\ made' = made /\ active' = active /\ handle' = handle
      /\ Becomes(s, CASE r.job.then = "refresh" -> StartsRefresh([r EXCEPT !.job = Resting], "tick", NoAsk)
                      [] r.job.then = "close" -> [[r EXCEPT !.job = Resting] EXCEPT !.stage = "closed"]
                      [] OTHER -> [r EXCEPT !.job = Resting])
  BY <1>1, Zenon DEF SendReply, Doing, entryVars
<1>5. t = [r EXCEPT !.job = Resting]
  BY <1>2, <1>3 DEF Whole, Session, With
<1>6. /\ t \in Session(t.pings) /\ t.stage = r.stage /\ t.permit = r.permit
      /\ t.queue = r.queue /\ t.pending = r.pending /\ t.job = Resting
  BY <1>2, <1>3, JobsMade, NewJob
<1>7. /\ r.job.hand \in Ask /\ r.job.result \in {"error", "renewed", "dropped"}
      /\ ~Queued(r.job.hand, r) /\ r.pending.reply # r.job.hand /\ r.stage \in Begun
  BY <1>3, <1>4, Fields, BusyHasBegun DEF Whole, Hand, AskOrNone
<1>8. Whole(t)
  <2>1. OneUser(t)
    BY <1>3, <1>6, JobsMade DEF Whole, OneUser
  <2>2. Hand(t)
    BY <1>3, <1>6, JobsMade DEF Whole, Hand
  <2>3. Resting.then = "none"
    BY DEF Resting
  <2>4. AtRest(t)
    BY <1>3, <1>6, <1>7, <2>3, JobsMade DEF Whole, AtRest, Begun
  <2> QED
    BY <1>6, <2>1, <2>2, <2>4 DEF Whole
<1>9. Users(t) = Users(r) /\ Held(t) = Users(r) /\ Held(r) = Users(r) \cup {r.job.hand}
      /\ r.job.hand \notin Users(r)
  BY <1>4, <1>6, <1>7, JobsMade, Names DEF Users, Held, Queued
<1>10. PICK q : q = IF r.job.then = "refresh" THEN StartsRefresh(t, "tick", NoAsk)
                    ELSE IF r.job.then = "close" THEN [t EXCEPT !.stage = "closed"] ELSE t
  OBVIOUS
<1>11. sess' = [sess EXCEPT ![s] = q]
  BY <1>4, <1>5, <1>10 DEF Becomes
<1>12. Whole(q) /\ Same(q, t) /\ Goes(q, t)
  <2>1. CASE r.job.then = "refresh"
    <3>1. t.stage \in {"running", "closed"} /\ t.job.hand = NoAsk /\ NoAsk \in AskOrNone
      BY <1>3, <1>6, <1>7, <2>1, JobsMade DEF Whole, AtRest, Begun, AskOrNone
    <3>2. /\ Whole(q) /\ q.stage = t.stage /\ q.permit = t.permit /\ q.queue = t.queue
          /\ q.pending = t.pending /\ q.job.hand = NoAsk /\ q.job.do # "reply"
      BY <1>3, <1>8, <1>10, <2>1, <3>1, RefreshStarts
    <3> QED
      BY <3>1, <3>2, Names DEF Same, Goes, Begun, Users, Held, Queued
  <2>2. CASE r.job.then = "close"
    <3>1. t.stage \in {"running", "closed"}
      BY <1>3, <1>6, <1>7, <2>2 DEF Whole, AtRest, Begun
    <3> QED
      BY <1>8, <1>10, <2>2, <3>1, Closing DEF Same
  <2>3. CASE r.job.then \notin {"refresh", "close"}
    BY <1>6, <1>7, <1>8, <1>10, <2>3 DEF Same, Goes
  <2> QED
    BY <2>1, <2>2, <2>3
<1>13. /\ DOMAIN sess' = Sessions /\ sess'[s] = q
       /\ \A x \in Sessions : x # s => sess'[x] = sess[x]
       /\ \A x \in Sessions : Whole(sess'[x])
  BY <1>11, <1>12, OneBecomes
<1>14. q.permit = r.permit /\ Users(q) = Users(r) /\ Held(q) = Held(r) \ {r.job.hand}
  BY <1>6, <1>9, <1>12 DEF Same
<1>15. PICK a \in Ask : a = r.job.hand
  BY <1>7
<1>16. /\ a \in Held(r) /\ ask[a].stage \in {"waiting", "gone"} /\ ask[a].on = s
       /\ ask'[a].stage \in {"gone", "error", "renewed", "dropped"} /\ ask'[a].on = s
       /\ \A k \in Ask : k # a => ask'[k] = ask[k]
       /\ AskTypes'
  <2>1. a \in Held(r) /\ ask[a].stage \in {"waiting", "gone"} /\ ask[a].on = s
    BY <1>1, <1>9, <1>15 DEF CommandsInv, HeldCallers
  <2>2. ask \in [Ask -> [on : 0..SessionsMade, stage : AskStages]]
    BY DEF CommandsInv, AskTypes
  <2>3. CASE ask[a].stage = "waiting"
    <3>1. PICK result \in {"error", "renewed", "dropped"} : result = r.job.result
      BY <1>7
    <3>2. ask' = [ask EXCEPT ![a].stage = result]
      BY <1>4, <1>15, <2>3, <3>1 DEF Answered
    <3>3. ask'[a].stage = result /\ ask'[a].on = ask[a].on /\ \A k \in Ask : k # a => ask'[k] = ask[k]
      BY <2>2, <3>2
    <3>4. result \in AskStages
      BY DEF AskStages
    <3>5. AskTypes'
      BY <2>2, <3>2, <3>4 DEF AskTypes
    <3> QED
      BY <2>1, <3>1, <3>3, <3>5
  <2>4. CASE ask[a].stage = "gone"
    <3>1. ask' = ask
      BY <1>4, <1>15, <2>4 DEF Answered
    <3> QED
      BY <2>1, <2>2, <2>4, <3>1 DEF AskTypes
  <2> QED
    BY <2>1, <2>3, <2>4
<1>17. EntryLeads'
  BY <1>1, <1>4, <1>6, <1>12, <1>13, Names DEF CommandsInv, EntryLeads, Goes, Begun, Sessions
<1>18. AsksGo'
  BY <1>1, <1>6, <1>12, <1>13, <1>16 DEF CommandsInv, AsksGo, Goes
<1>19. HeldCallers'
  <2>1. ASSUME NEW x \in Sessions, NEW k \in Held(sess'[x])
        PROVE  ask'[k].stage \in {"waiting", "gone"} /\ ask'[k].on = x
    <3>1. k \in Held(sess[x]) /\ k \in Ask /\ k # a
      <4>1. CASE x = s
        BY <1>1, <1>13, <1>14, <1>15, <2>1, <4>1 DEF Held
      <4>2. CASE x # s
        BY <1>13, <1>16, <2>1, <4>2 DEF Held, CommandsInv, HeldCallers
      <4> QED
        BY <4>1, <4>2
    <3> QED
      BY <1>16, <3>1 DEF CommandsInv, HeldCallers
  <2>2. ASSUME NEW k \in Ask, ask'[k].stage = "waiting"
        PROVE  k \in Held(sess'[ask'[k].on])
    <3>1. k # a /\ ask'[k] = ask[k] /\ k \in Held(sess[ask[k].on]) /\ ask[k].on \in Sessions
      BY <1>16, <2>2 DEF CommandsInv, HeldCallers, AsksGo
    <3> QED
      BY <1>1, <1>13, <1>14, <1>15, <3>1
  <2> QED
    BY <2>1, <2>2 DEF HeldCallers
<1>20. Permits'
  <2>1. \A x \in Sessions : Takers(x)' = Takers(x)
    BY <1>16 DEF Takers
  <2>2. \A x \in Sessions : Users(sess'[x]) = Users(sess[x]) /\ sess'[x].permit = sess[x].permit
    BY <1>1, <1>13, <1>14
  <2> QED
    BY <2>1, <2>2 DEF CommandsInv, Permits
<1> QED
  BY <1>13, <1>16, <1>17, <1>18, <1>19, <1>20 DEF CommandsInv

(* A session as it is made, and one that was not.                          *)
LEMMA Made ==
  ASSUME NEW acks \in BOOLEAN, NEW due \in BOOLEAN, minute \in Nat,
         NEW q, q = NewSession(acks, due)
  PROVE  /\ q \in Session(<<>>) /\ q.pings = <<>> /\ q.stage = "registered" /\ q.queue = <<>>
         /\ ~q.permit /\ q.job = Resting /\ q.pending = NoRefresh
<1>1. NoRefresh \in [id : Nat, retry : Int, reply : AskOrNone]
  BY DEF NoRefresh, AskOrNone
<1>2. <<>> \in Seq(Commands)
  OBVIOUS
<1>3. PICK job : job = Resting
  OBVIOUS
<1>4. PICK pending : pending = NoRefresh
  OBVIOUS
<1>5. q = [stage |-> "registered", queue |-> <<>>, permit |-> FALSE, job |-> job,
           pending |-> pending, prepared |-> 0, retry |-> minute, acks |-> acks, due |-> due,
           pings |-> <<>>, nonce |-> 1]
  BY <1>3, <1>4 DEF NewSession
<1>6. "registered" \in Stages
  BY DEF Stages
<1> QED
  BY <1>1, <1>2, <1>3, <1>4, <1>5, <1>6, JobsMade DEF Session

LEMMA NotMade ==
  ASSUME minute \in Nat, NEW q, q = NoSession
  PROVE  /\ q \in Session(<<>>) /\ q.stage = "none" /\ q.queue = <<>>
         /\ ~q.permit /\ q.job = Resting /\ q.pending = NoRefresh
<1>1. PICK new : new = NewSession(FALSE, FALSE)
  OBVIOUS
<1>2. /\ new \in Session(<<>>) /\ new.queue = <<>>
      /\ ~new.permit /\ new.job = Resting /\ new.pending = NoRefresh
  BY <1>1, Made
<1>3. PICK at \in Int : at = 0
  OBVIOUS
<1>4. q = [new EXCEPT !.stage = "none", !.retry = at]
  BY <1>1, <1>3 DEF NoSession
<1>5. "none" \in Stages
  BY DEF Stages
<1>6. PICK pings : pings = <<>>
  OBVIOUS
<1>7. new \in Session(pings)
  BY <1>2, <1>6
<1>8. q \in Session(pings)
  BY <1>5, <1>7, <1>4 DEF Session
<1>9. /\ q.stage = "none" /\ q.queue = <<>>
      /\ ~q.permit /\ q.job = Resting /\ q.pending = NoRefresh
  BY <1>2, <1>7, <1>4 DEF Session
<1> QED
  BY <1>6, <1>8, <1>9

(* The session ends with the caller that waited for the agent.             *)
LEMMA DisconnectStep ==
  ASSUME CommandsInv, NEW s \in Sessions, Disconnect(s)
  PROVE  CommandsInv'
<1>1. PICK r : r = sess[s]
  OBVIOUS
<1>2. PICK over : over = [NoSession EXCEPT !.stage = "over", !.permit = r.permit]
  OBVIOUS
<1>3. PICK job : job = Completing(r.pending.reply, "dropped", "none")
  OBVIOUS
<1>4. PICK q : q = IF r.pending.reply = NoAsk THEN over ELSE [over EXCEPT !.job = job]
  OBVIOUS
<1>5. /\ r.stage = "ending" \/ (r.stage = "closed" /\ r.queue = <<>>)
      /\ r.job.do = "none" /\ sess' = [sess EXCEPT ![s] = q]
      /\ IF active = s THEN active' = 0 /\ handle' = 0 ELSE UNCHANGED <<active, handle>>
      /\ minute' = minute /\ made' = made /\ ask' = ask
  BY <1>1, <1>2, <1>3, <1>4, Zenon DEF Disconnect, Doing, Becomes
<1>6. Whole(r) /\ minute \in Nat /\ r.queue = <<>> /\ r.job.hand = NoAsk
  BY <1>1, <1>5 DEF CommandsInv, EntryLeads, Whole, Hand, AtRest
<1>7. /\ NoRefresh \in [id : Nat, retry : Int, reply : AskOrNone]
      /\ NoRefresh.reply = NoAsk /\ <<>> \in Seq(Commands)
  BY DEF NoRefresh, AskOrNone
<1>8. PICK none : none = NoSession
  OBVIOUS
<1>9. none \in Session(<<>>)
  BY <1>6, <1>8, NotMade
<1>10. /\ none.queue = <<>> /\ none.job = Resting /\ none.pending = NoRefresh
  BY <1>6, <1>8, NotMade
<1>11. /\ over \in Session(<<>>) /\ over.pings = <<>>
  BY <1>2, <1>6, <1>8, <1>9, Fields DEF Session, Stages
<1>12. /\ over.stage = "over" /\ over.permit = r.permit /\ over.queue = <<>>
       /\ over.job = Resting /\ over.pending = NoRefresh
  BY <1>2, <1>8, <1>9, <1>10 DEF Session
<1>13. Resting.then = "none" /\ NoRefresh.id = 0
  BY DEF Resting, NoRefresh
<1>14. Whole(q) /\ q.stage = "over" /\ q.permit = r.permit /\ Users(q) = Users(r) /\ Held(q) = Held(r)
  <2>1. CASE r.pending.reply = NoAsk
    <3>1. q = over
      BY <1>4, <2>1
    <3>2. OneUser(q) /\ Hand(q) /\ AtRest(q)
      BY <1>7, <1>12, <1>13, <3>1, JobsMade DEF OneUser, OneQueued, Hand, AtRest
    <3> QED
      BY <1>6, <1>7, <1>11, <1>12, <2>1, <3>1, <3>2, JobsMade, Names DEF Whole, Users, Held, Queued
  <2>2. CASE r.pending.reply # NoAsk
    <3>1. PICK reply \in Ask : reply = r.pending.reply
      BY <1>6, <2>2, Fields DEF AskOrNone
    <3>2. /\ job \in Jobs /\ job.do = "release" /\ job.hand = reply
          /\ job.result = "dropped" /\ job.then = "none"
      BY <1>3, <3>1, JobsMade DEF AskOrNone
    <3>3. q = [over EXCEPT !.job = job]
      BY <1>4, <2>2
    <3>4. q \in Session(<<>>) /\ q.pings = <<>>
      BY <1>11, <3>2, <3>3 DEF Session
    <3>5. /\ q.stage = "over" /\ q.permit = r.permit /\ q.queue = <<>>
          /\ q.job = job /\ q.pending = NoRefresh
      BY <1>11, <1>12, <3>3 DEF Session
    <3>6. OneUser(q) /\ Hand(q) /\ AtRest(q)
      BY <1>7, <1>13, <3>1, <3>2, <3>5, Names DEF OneUser, OneQueued, NoneQueued, Hand, AtRest
    <3> QED
      BY <1>6, <1>7, <3>1, <3>2, <3>4, <3>5, <3>6, Names DEF Whole, Users, Held, Queued
  <2> QED
    BY <2>1, <2>2
<1>15. /\ DOMAIN sess' = Sessions /\ sess'[s] = q
       /\ \A x \in Sessions : x # s => sess'[x] = sess[x]
       /\ \A x \in Sessions : Whole(sess'[x])
  BY <1>5, <1>14, OneBecomes
<1>16. EntryLeads'
  BY <1>1, <1>5, <1>14, <1>15, Names DEF CommandsInv, EntryLeads, Sessions
<1>17. AskTypes' /\ AsksGo'
  BY <1>5, <1>14, <1>15 DEF CommandsInv, AskTypes, AsksGo, Begun
<1>18. \A x \in Sessions : /\ Users(sess'[x]) = Users(sess[x]) /\ Held(sess'[x]) = Held(sess[x])
                           /\ sess'[x].permit = sess[x].permit
  BY <1>1, <1>14, <1>15
<1>19. HeldCallers'
  BY <1>5, <1>18 DEF CommandsInv, HeldCallers, AsksGo
<1>20. Permits'
  <2>1. \A x : Takers(x)' = Takers(x)
    BY <1>5 DEF Takers
  <2> QED
    BY <1>18, <2>1 DEF CommandsInv, Permits
<1> QED
  BY <1>15, <1>16, <1>17, <1>19, <1>20 DEF CommandsInv

(* The session's channel becomes the node's, if it is still the current.   *)
LEMMA AttachControlStep ==
  ASSUME CommandsInv, NEW s \in Sessions, AttachControl(s)
  PROVE  CommandsInv'
<1>1. PICK r : r = sess[s]
  OBVIOUS
<1>2. PICK stage : stage = IF active = s THEN "running" ELSE "ending"
  OBVIOUS
<1>3. PICK q : q = With(r, stage, r.job)
  OBVIOUS
<1>4. PICK p : p = r.pings
  OBVIOUS
<1>5. Whole(r) /\ r \in Session(p)
  BY <1>1, <1>4 DEF CommandsInv, Whole
<1>6. /\ r.stage = "registered" /\ sess' = [sess EXCEPT ![s].stage = stage]
      /\ IF active = s THEN handle' = s ELSE UNCHANGED handle
      /\ minute' = minute /\ made' = made /\ active' = active /\ ask' = ask
  BY <1>1, <1>2 DEF AttachControl
<1>7. sess' = [sess EXCEPT ![s] = q]
  <2>1. q = [r EXCEPT !.stage = stage]
    BY <1>3, <1>5 DEF Session, With
  <2> QED
    BY <1>1, <1>6, <2>1
<1>8. stage \in {"running", "ending"} /\ stage \in Stages
  BY <1>2 DEF Stages
<1>9. /\ q \in Session(p) /\ q.pings = p /\ q.stage = stage /\ q.permit = r.permit
      /\ q.queue = r.queue /\ q.pending = r.pending /\ q.job = r.job
  BY <1>3, <1>5, <1>8 DEF Session, With
<1>10. Whole(q) /\ Users(q) = Users(r) /\ Held(q) = Held(r)
  BY <1>5, <1>6, <1>8, <1>9 DEF Whole, OneUser, Hand, Queued, AtRest, Users, Held
<1>11. /\ DOMAIN sess' = Sessions /\ sess'[s] = q
       /\ \A x \in Sessions : x # s => sess'[x] = sess[x]
       /\ \A x \in Sessions : Whole(sess'[x])
  BY <1>7, <1>10, OneBecomes
<1>12. EntryLeads'
  BY <1>1, <1>2, <1>6, <1>9, <1>11, Names DEF CommandsInv, EntryLeads, Sessions
<1>13. AskTypes' /\ AsksGo'
  BY <1>1, <1>6, <1>11 DEF CommandsInv, AskTypes, AsksGo, Begun
<1>14. \A x \in Sessions : /\ Users(sess'[x]) = Users(sess[x]) /\ Held(sess'[x]) = Held(sess[x])
                           /\ sess'[x].permit = sess[x].permit
  BY <1>1, <1>9, <1>10, <1>11
<1>15. HeldCallers'
  BY <1>6, <1>14 DEF CommandsInv, HeldCallers, AsksGo
<1>16. Permits'
  <2>1. \A x : Takers(x)' = Takers(x)
    BY <1>6 DEF Takers
  <2> QED
    BY <1>14, <2>1 DEF CommandsInv, Permits
<1> QED
  BY <1>11, <1>12, <1>13, <1>15, <1>16 DEF CommandsInv

LEMMA RegisterSessionStep ==
  ASSUME CommandsInv, RegisterSession
  PROVE  CommandsInv'
<1>1. /\ made < SessionsMade /\ made \in Nat /\ minute \in Nat
      /\ made' = made + 1 /\ active' = made + 1 /\ handle' = 0 /\ minute' = minute /\ ask' = ask
  BY Names DEF CommandsInv, EntryLeads, RegisterSession
<1>2. PICK s \in Sessions : s = made + 1
  BY <1>1, Names DEF Sessions
<1>3. PICK acks \in BOOLEAN, due \in BOOLEAN : sess' = [sess EXCEPT ![s] = NewSession(acks, due)]
  BY <1>2 DEF RegisterSession
<1>4. PICK q : q = NewSession(acks, due)
  OBVIOUS
<1>5. PICK r : r = sess[s]
  OBVIOUS
<1>6. /\ q \in Session(<<>>) /\ q.pings = <<>> /\ q.stage = "registered" /\ q.queue = <<>>
      /\ ~q.permit /\ q.job = Resting /\ q.pending = NoRefresh
  BY <1>1, <1>4, Made
<1>7. NoRefresh.reply = NoAsk /\ NoRefresh.id = 0
  BY DEF NoRefresh
<1>8. Whole(q)
  BY <1>6, <1>7, JobsMade DEF Whole, OneUser, OneQueued, Hand, AtRest
<1>9. Whole(r) /\ r.stage = "none"
  BY <1>1, <1>2, <1>5, Names DEF CommandsInv, EntryLeads, Sessions
<1>10. Users(q) = {} /\ Held(q) = {} /\ Users(r) = {} /\ Held(r) = {} /\ ~r.permit
  BY <1>6, <1>7, <1>9, JobsMade, Names DEF Users, Held, Queued, Whole, AtRest
<1>11. /\ DOMAIN sess' = Sessions /\ sess'[s] = q
       /\ \A x \in Sessions : x # s => sess'[x] = sess[x]
       /\ \A x \in Sessions : Whole(sess'[x])
  BY <1>3, <1>4, <1>8, OneBecomes
<1>12. EntryLeads'
  BY <1>1, <1>2, <1>11, Names DEF CommandsInv, EntryLeads, Sessions
<1>13. AskTypes' /\ AsksGo'
  BY <1>1, <1>5, <1>9, <1>11 DEF CommandsInv, AskTypes, AsksGo, Begun
<1>14. \A x \in Sessions : /\ Users(sess'[x]) = Users(sess[x]) /\ Held(sess'[x]) = Held(sess[x])
                           /\ sess'[x].permit <=> sess[x].permit
  BY <1>5, <1>6, <1>10, <1>11
<1>15. HeldCallers'
  BY <1>1, <1>14 DEF CommandsInv, HeldCallers, AsksGo
<1>16. Permits'
  <2>1. \A x : Takers(x)' = Takers(x)
    BY <1>1 DEF Takers
  <2> QED
    BY <1>14, <2>1 DEF CommandsInv, Permits
<1> QED
  BY <1>11, <1>12, <1>13, <1>15, <1>16 DEF CommandsInv

-----------------------------------------------------------------------------
(* The permit of a session that has begun, and its queue.                  *)
LEMMA PermitSet ==
  ASSUME NEW r, Whole(r), r.stage \in Begun, NEW b \in BOOLEAN, NEW q, q = [r EXCEPT !.permit = b]
  PROVE  /\ Whole(q) /\ q.stage = r.stage /\ q.permit = b
         /\ Users(q) = Users(r) /\ Held(q) = Held(r)
<1>1. PICK p : p = r.pings
  OBVIOUS
<1>2. r \in Session(p)
  BY <1>1 DEF Whole
<1>3. /\ q \in Session(p) /\ q.pings = p /\ q.stage = r.stage /\ q.permit = b
      /\ q.queue = r.queue /\ q.job = r.job /\ q.pending = r.pending
  BY <1>2 DEF Session
<1> QED
  BY <1>3 DEF Whole, OneUser, Hand, AtRest, Begun, Users, Held, Queued

LEMMA CommandQueued ==
  ASSUME NEW r, Whole(r), r.stage \in {"running", "closed"}, NEW c \in Commands,
         c \in Ask => Users(r) = {} /\ c \notin Held(r),
         NEW q, q = [r EXCEPT !.queue = Append(r.queue, c)]
  PROVE  /\ Whole(q) /\ q.stage = r.stage /\ q.permit = r.permit
         /\ Users(q) = Users(r) \cup ({c} \cap Ask) /\ Held(q) = Held(r) \cup ({c} \cap Ask)
<1>1. PICK p : p = r.pings
  OBVIOUS
<1>2. r \in Session(p) /\ r.queue \in Seq(Commands)
  BY <1>1, Fields DEF Whole
<1>3. PICK t : t = Append(r.queue, c)
  OBVIOUS
<1>4. /\ t \in Seq(Commands)
      /\ \A k : (\E i \in DOMAIN t : t[i] = k) <=> (c = k \/ \E i \in DOMAIN r.queue : r.queue[i] = k)
      /\ OneQueued(r.queue) /\ (c = Update \/ NoneQueued(r.queue)) => OneQueued(t)
      /\ NoneQueued(r.queue) /\ c = Update => NoneQueued(t)
  BY <1>2, <1>3, Joins
<1>5. /\ q \in Session(p) /\ q.pings = p /\ q.stage = r.stage /\ q.permit = r.permit
      /\ q.queue = t /\ q.job = r.job /\ q.pending = r.pending
  <2>1. q = [r EXCEPT !.queue = t]
    BY <1>3
  <2> QED
    BY <1>2, <1>4, <2>1 DEF Session
<1>6. \A k : Queued(k, q) <=> c = k \/ Queued(k, r)
  BY <1>4, <1>5 DEF Queued
<1>7. r.job.hand \in Ask \cup {NoAsk} /\ r.pending.reply \in Ask \cup {NoAsk}
  BY Fields DEF AskOrNone
<1>8. c # Update => /\ c \in Ask /\ NoneQueued(r.queue) /\ r.pending.reply = NoAsk
                    /\ r.job.hand # NoAsk => r.job.do = "reply" /\ r.job.hand # c
  <2>1. ASSUME c # Update
        PROVE  c \in Ask /\ Users(r) = {} /\ c \notin Held(r)
    BY <2>1 DEF Commands
  <2>2. \A i \in DOMAIN r.queue : r.queue[i] \in Commands
    BY <1>2
  <2>3. c # Update => NoneQueued(r.queue)
    BY <2>1, <2>2 DEF NoneQueued, Commands, Users, Queued
  <2> QED
    BY <1>7, <2>1, <2>3 DEF Users, Held
<1>9. OneUser(q)
  BY <1>4, <1>5, <1>8 DEF Whole, OneUser
<1>10. Hand(q)
  <2>1. r.job.do = "reply" => r.job.hand \in Ask /\ r.job.hand # c
    BY <1>7, <1>8, Names DEF Whole, Hand
  <2> QED
    BY <1>5, <1>6, <2>1 DEF Whole, Hand
<1>11. AtRest(q)
  BY <1>5 DEF Whole, AtRest
<1>12. Users(q) = Users(r) \cup ({c} \cap Ask) /\ Held(q) = Held(r) \cup ({c} \cap Ask)
  BY <1>5, <1>6 DEF Users, Held
<1> QED
  BY <1>5, <1>9, <1>10, <1>11, <1>12 DEF Whole

LEMMA EnqueueUpdateStep ==
  ASSUME CommandsInv, EnqueueUpdate
  PROVE  CommandsInv'
<1>1. PICK s \in Sessions : s = handle
  BY Names DEF CommandsInv, EntryLeads, EnqueueUpdate, Sessions
<1>2. PICK r : r = sess[s]
  OBVIOUS
<1>3. PICK q : q = [r EXCEPT !.queue = Append(r.queue, Update)]
  OBVIOUS
<1>4. /\ r.stage = "running" /\ sess' = [sess EXCEPT ![s] = q]
      /\ minute' = minute /\ made' = made /\ active' = active /\ handle' = handle /\ ask' = ask
  BY <1>1, <1>2, <1>3 DEF CommandsInv, EntryLeads, EnqueueUpdate, Fits, Closed, entryVars
<1>5. Whole(r) /\ Update \in Commands /\ {Update} \cap Ask = {}
  BY <1>2, Names DEF CommandsInv, Commands
<1>6. /\ Whole(q) /\ q.stage = r.stage /\ q.permit = r.permit
      /\ Users(q) = Users(r) \cup ({Update} \cap Ask) /\ Held(q) = Held(r) \cup ({Update} \cap Ask)
  BY <1>3, <1>4, <1>5, Names, CommandQueued
<1>7. Users(q) = Users(r) /\ Held(q) = Held(r)
  BY <1>5, <1>6
<1>8. /\ DOMAIN sess' = Sessions /\ sess'[s] = q
      /\ \A x \in Sessions : x # s => sess'[x] = sess[x]
      /\ \A x \in Sessions : Whole(sess'[x])
  BY <1>4, <1>6, OneBecomes
<1>9. \A x \in Sessions : /\ Users(sess'[x]) = Users(sess[x]) /\ Held(sess'[x]) = Held(sess[x])
                          /\ sess'[x].permit = sess[x].permit /\ sess'[x].stage = sess[x].stage
  BY <1>2, <1>6, <1>7, <1>8
<1>10. EntryLeads' /\ AskTypes' /\ AsksGo'
  BY <1>4, <1>9, Names DEF CommandsInv, EntryLeads, AskTypes, AsksGo, Sessions
<1>11. HeldCallers'
  BY <1>4, <1>9 DEF CommandsInv, HeldCallers, AsksGo
<1>12. Permits'
  <2>1. \A x : Takers(x)' = Takers(x)
    BY <1>4 DEF Takers
  <2> QED
    BY <1>9, <2>1 DEF CommandsInv, Permits
<1> QED
  BY <1>8, <1>10, <1>11, <1>12 DEF CommandsInv

-----------------------------------------------------------------------------
(* The administrators' steps.  One request has another stage.              *)
LEMMA AskBecomes ==
  ASSUME CommandsInv, NEW k \in Ask, NEW stage \in AskStages,
         ask' = [ask EXCEPT ![k].stage = stage]
  PROVE  /\ AskTypes' /\ ask'[k].stage = stage /\ ask'[k].on = ask[k].on
         /\ \A j \in Ask : j # k => ask'[j] = ask[j]
BY DEF CommandsInv, AskTypes

(* A stage that no session knows of.                                       *)
LEMMA AskAlone ==
  ASSUME CommandsInv, NEW k \in Ask, ask'[k].stage \in AskStages \ {"waiting", "permitted"}, AskTypes',
         ask[k].stage # "permitted", UNCHANGED <<minute, made, active, handle, sess>>,
         \A j \in Ask : j # k => ask'[j] = ask[j],
         ask'[k].stage \in {"calling", "gone"} =>
           ask'[k].on \in Sessions /\ sess[ask'[k].on].stage \in Begun,
         ask[k].stage \in {"waiting", "gone"} => ask'[k].stage = "gone" /\ ask'[k].on = ask[k].on
  PROVE  CommandsInv'
<1>1. EntryLeads' /\ AsksGo'
  BY DEF CommandsInv, EntryLeads, AsksGo
<1>2. HeldCallers'
  <2>1. ASSUME NEW x \in Sessions, NEW j \in Held(sess[x])
        PROVE  ask'[j].stage \in {"waiting", "gone"} /\ ask'[j].on = x
    <3>1. j \in Ask /\ ask[j].stage \in {"waiting", "gone"} /\ ask[j].on = x
      BY <2>1 DEF CommandsInv, HeldCallers, Held
    <3> QED
      BY <3>1
  <2>2. ASSUME NEW j \in Ask, ask'[j].stage = "waiting"
        PROVE  j \in Held(sess[ask'[j].on])
    BY <2>2 DEF CommandsInv, HeldCallers
  <2> QED
    BY <2>1, <2>2 DEF HeldCallers
<1>3. Permits'
  <2>1. \A x : Takers(x)' = Takers(x)
    BY DEF Takers
  <2> QED
    BY <2>1 DEF CommandsInv, Permits
<1> QED
  BY <1>1, <1>2, <1>3 DEF CommandsInv

LEMMA RequestRefreshStep ==
  ASSUME CommandsInv, NEW k \in Ask, RequestRefresh(k)
  PROVE  CommandsInv'
<1>1. ask[k].stage = "idle" /\ UNCHANGED <<minute, made, active, handle, sess>>
  BY DEF RequestRefresh, entryVars
<1>2. CASE handle = 0
  <2>1. ask' = [ask EXCEPT ![k].stage = "refused"] /\ "refused" \in AskStages
    BY <1>2 DEF RequestRefresh, AskRefused, AskStages
  <2> QED
    BY <1>1, <2>1, AskBecomes, AskAlone
<1>3. CASE handle # 0
  <2>1. PICK s \in Sessions : s = handle
    BY <1>3, Names DEF CommandsInv, EntryLeads, Sessions
  <2>2. ask' = [ask EXCEPT ![k] = [stage |-> "calling", on |-> s]] /\ sess[s].stage \in Begun
    BY <1>3, <2>1 DEF CommandsInv, EntryLeads, RequestRefresh, Begun
  <2>3. PICK a : a = [stage |-> "calling", on |-> s]
    OBVIOUS
  <2>4. a \in [on : 0..SessionsMade, stage : AskStages] /\ a.stage = "calling" /\ a.on = s
    BY <2>1, <2>3, Names DEF AskStages, Sessions
  <2>5. /\ AskTypes' /\ ask'[k] = a
        /\ \A j \in Ask : j # k => ask'[j] = ask[j]
    BY <2>2, <2>3, <2>4 DEF CommandsInv, AskTypes
  <2>6. "calling" \in AskStages
    BY DEF AskStages
  <2> QED
    BY <1>1, <2>2, <2>4, <2>5, <2>6, AskAlone
<1> QED
  BY <1>2, <1>3

LEMMA StopWaitingStep ==
  ASSUME CommandsInv, NEW k \in Ask, StopWaiting(k)
  PROVE  CommandsInv'
<1>1. /\ ask[k].stage = "waiting" /\ ask' = [ask EXCEPT ![k].stage = "gone"]
      /\ UNCHANGED <<minute, made, active, handle, sess>> /\ "gone" \in AskStages
  BY DEF StopWaiting, entryVars, AskStages
<1>2. ask[k].on \in Sessions /\ sess[ask[k].on].stage \in Begun
  BY <1>1 DEF CommandsInv, AsksGo
<1> QED
  BY <1>1, <1>2, AskBecomes, AskAlone

(* Only one caller finds the permit free.                                  *)
LEMMA AcquirePermitStep ==
  ASSUME CommandsInv, NEW k \in Ask, AcquirePermit(k)
  PROVE  CommandsInv'
<1>1. PICK s : s = ask[k].on
  OBVIOUS
<1>2. /\ ask[k].stage = "calling" /\ s \in Sessions /\ sess[s].stage \in Begun
      /\ minute' = minute /\ made' = made /\ active' = active /\ handle' = handle
  BY <1>1 DEF CommandsInv, AsksGo, AcquirePermit, entryVars
<1>3. CASE sess[s].permit
  <2>1. ask' = [ask EXCEPT ![k].stage = "refused"] /\ sess' = sess /\ "refused" \in AskStages
    BY <1>1, <1>3 DEF AcquirePermit, AskRefused, AskStages
  <2> QED
    BY <1>2, <2>1, AskBecomes, AskAlone
<1>4. CASE ~sess[s].permit
  <2>1. PICK r : r = sess[s]
    OBVIOUS
  <2>2. PICK q : q = [r EXCEPT !.permit = TRUE]
    OBVIOUS
  <2>3. Whole(r)
    BY <1>2, <2>1 DEF CommandsInv
  <2>4. ask' = [ask EXCEPT ![k].stage = "permitted"] /\ sess' = [sess EXCEPT ![s] = q]
    BY <1>1, <1>2, <1>4, <2>1, <2>2 DEF AcquirePermit
  <2>5. /\ Whole(q) /\ q.stage = r.stage /\ q.permit = TRUE
        /\ Users(q) = Users(r) /\ Held(q) = Held(r)
    BY <1>2, <2>1, <2>2, <2>3, PermitSet
  <2>6. /\ AskTypes' /\ ask'[k].stage = "permitted" /\ ask'[k].on = s
        /\ \A j \in Ask : j # k => ask'[j] = ask[j]
    <3>1. "permitted" \in AskStages
      BY DEF AskStages
    <3> QED
      BY <1>1, <2>4, <3>1, AskBecomes
  <2>7. /\ DOMAIN sess' = Sessions /\ sess'[s] = q
        /\ \A x \in Sessions : x # s => sess'[x] = sess[x]
        /\ \A x \in Sessions : Whole(sess'[x])
    BY <1>2, <2>4, <2>5, OneBecomes
  <2>8. \A x \in Sessions : /\ Users(sess'[x]) = Users(sess[x]) /\ Held(sess'[x]) = Held(sess[x])
                            /\ sess'[x].stage = sess[x].stage
    BY <2>1, <2>5, <2>7
  <2>9. EntryLeads'
    BY <1>2, <2>8, Names DEF CommandsInv, EntryLeads, Sessions
  <2>10. AsksGo'
    BY <1>2, <2>6, <2>8 DEF CommandsInv, AsksGo
  <2>11. HeldCallers'
    <3>1. ASSUME NEW x \in Sessions, NEW j \in Held(sess[x])
          PROVE  ask'[j].stage \in {"waiting", "gone"} /\ ask'[j].on = x
      <4>1. j \in Ask /\ ask[j].stage \in {"waiting", "gone"} /\ ask[j].on = x
        BY <3>1 DEF CommandsInv, HeldCallers, Held
      <4> QED
        BY <1>2, <2>6, <4>1
    <3>2. ASSUME NEW j \in Ask, ask'[j].stage = "waiting"
          PROVE  j \in Held(sess[ask'[j].on]) /\ ask'[j].on \in Sessions
      BY <2>6, <3>2 DEF CommandsInv, HeldCallers, AsksGo
    <3> QED
      BY <2>8, <3>1, <3>2 DEF HeldCallers
  <2>12. Takers(s) = {} /\ Users(r) = {}
    BY <1>2, <1>4, <2>1 DEF CommandsInv, Permits
  <2>13. Takers(s)' = {k} /\ \A x \in Sessions : x # s => Takers(x)' = Takers(x)
    BY <1>1, <1>2, <2>6, <2>12 DEF Takers
  <2>14. Permits'
    <3>1. ASSUME NEW x \in Sessions, x # s
          PROVE  /\ sess'[x].permit <=> Takers(x)' \cup Users(sess'[x]) # {}
                 /\ \A i \in Takers(x)', j \in Takers(x)' \cup Users(sess'[x]) : i = j
      BY <2>7, <2>13, <3>1 DEF CommandsInv, Permits
    <3>2. /\ sess'[s].permit <=> Takers(s)' \cup Users(sess'[s]) # {}
          /\ \A i \in Takers(s)', j \in Takers(s)' \cup Users(sess'[s]) : i = j
      BY <2>5, <2>7, <2>12, <2>13
    <3> QED
      BY <3>1, <3>2 DEF Permits
  <2> QED
    BY <2>6, <2>7, <2>9, <2>10, <2>11, <2>14 DEF CommandsInv
<1> QED
  BY <1>3, <1>4

(* Whoever has the permit is the only one, and held by nobody yet.         *)
LEMMA TakerAlone ==
  ASSUME CommandsInv, NEW k \in Ask, ask[k].stage = "permitted"
  PROVE  /\ ask[k].on \in Sessions /\ sess[ask[k].on].stage \in Begun
         /\ Takers(ask[k].on) = {k} /\ Users(sess[ask[k].on]) = {} /\ sess[ask[k].on].permit
         /\ \A x \in Sessions : k \notin Held(sess[x])
<1>1. ask[k].on \in Sessions /\ sess[ask[k].on].stage \in Begun
  BY DEF CommandsInv, AsksGo
<1>2. k \in Takers(ask[k].on)
  BY DEF Takers
<1>3. \A x \in Sessions : k \notin Held(sess[x])
  BY DEF CommandsInv, HeldCallers
<1>4. /\ \A j \in Takers(ask[k].on) \cup Users(sess[ask[k].on]) : j = k
      /\ sess[ask[k].on].permit
  BY <1>1, <1>2 DEF CommandsInv, Permits
<1>5. k \notin Users(sess[ask[k].on])
  BY <1>1, <1>3 DEF Held
<1> QED
  BY <1>1, <1>2, <1>3, <1>4, <1>5

LEMMA EnqueueRefreshStep ==
  ASSUME CommandsInv, NEW k \in Ask, EnqueueRefresh(k)
  PROVE  CommandsInv'
<1>1. PICK s : s = ask[k].on
  OBVIOUS
<1>2. PICK r : r = sess[s]
  OBVIOUS
<1>3. /\ ask[k].stage = "permitted"
      /\ minute' = minute /\ made' = made /\ active' = active /\ handle' = handle
  BY DEF EnqueueRefresh, entryVars
<1>4. /\ s \in Sessions /\ r.stage \in Begun /\ Takers(s) = {k} /\ Users(r) = {} /\ r.permit
      /\ \A x \in Sessions : k \notin Held(sess[x])
  BY <1>1, <1>2, <1>3, TakerAlone
<1>5. Whole(r)
  BY <1>2, <1>4 DEF CommandsInv
<1>6. CASE Fits(s)
  <2>1. PICK q : q = [r EXCEPT !.queue = Append(r.queue, k)]
    OBVIOUS
  <2>2. ask' = [ask EXCEPT ![k].stage = "waiting"] /\ sess' = [sess EXCEPT ![s] = q]
    BY <1>1, <1>2, <1>6, <2>1 DEF EnqueueRefresh
  <2>3. r.stage \in {"running", "closed"} /\ k \in Commands /\ k \notin Held(r)
    BY <1>2, <1>4, <1>6 DEF Fits, Closed, Begun, Commands
  <2>4. /\ Whole(q) /\ q.stage = r.stage /\ q.permit = r.permit
        /\ Users(q) = Users(r) \cup ({k} \cap Ask) /\ Held(q) = Held(r) \cup ({k} \cap Ask)
    BY <1>4, <1>5, <2>1, <2>3, CommandQueued
  <2>5. Users(q) = {k} /\ Held(q) = Held(r) \cup {k}
    BY <1>4, <2>4
  <2>6. /\ AskTypes' /\ ask'[k].stage = "waiting" /\ ask'[k].on = s
        /\ \A j \in Ask : j # k => ask'[j] = ask[j]
    <3>1. "waiting" \in AskStages
      BY DEF AskStages
    <3> QED
      BY <1>1, <2>2, <3>1, AskBecomes
  <2>7. /\ DOMAIN sess' = Sessions /\ sess'[s] = q
        /\ \A x \in Sessions : x # s => sess'[x] = sess[x]
        /\ \A x \in Sessions : Whole(sess'[x])
    BY <1>4, <2>2, <2>4, OneBecomes
  <2>8. \A x \in Sessions : sess'[x].stage = sess[x].stage
    BY <1>2, <2>4, <2>7
  <2>9. EntryLeads'
    BY <1>3, <2>8, Names DEF CommandsInv, EntryLeads, Sessions
  <2>10. AsksGo'
    BY <1>2, <1>4, <2>6, <2>8 DEF CommandsInv, AsksGo
  <2>11. HeldCallers'
    <3>1. ASSUME NEW x \in Sessions, NEW j \in Held(sess'[x])
          PROVE  ask'[j].stage \in {"waiting", "gone"} /\ ask'[j].on = x
      <4>1. CASE j = k
        BY <1>4, <2>6, <2>7, <3>1, <4>1
      <4>2. CASE j # k
        <5>1. j \in Held(sess[x])
          BY <1>2, <2>5, <2>7, <3>1, <4>2
        <5>2. j \in Ask /\ ask[j].stage \in {"waiting", "gone"} /\ ask[j].on = x
          BY <5>1 DEF CommandsInv, HeldCallers, Held
        <5> QED
          BY <2>6, <4>2, <5>2
      <4> QED
        BY <4>1, <4>2
    <3>2. ASSUME NEW j \in Ask, ask'[j].stage = "waiting"
          PROVE  j \in Held(sess'[ask'[j].on])
      <4>1. CASE j = k
        BY <2>5, <2>6, <2>7, <4>1
      <4>2. CASE j # k
        <5>1. ask'[j] = ask[j] /\ j \in Held(sess[ask[j].on]) /\ ask[j].on \in Sessions
          BY <2>6, <3>2, <4>2 DEF CommandsInv, HeldCallers, AsksGo
        <5> QED
          BY <1>2, <2>5, <2>7, <5>1
      <4> QED
        BY <4>1, <4>2
    <3> QED
      BY <3>1, <3>2 DEF HeldCallers
  <2>12. Takers(s)' = {} /\ \A x \in Sessions : x # s => Takers(x)' = Takers(x)
    <3>1. \A j \in Ask : ask[j].stage = "permitted" /\ ask[j].on = s => j = k
      BY <1>4 DEF Takers
    <3> QED
      BY <1>1, <2>6, <3>1 DEF Takers
  <2>13. Permits'
    <3>1. ASSUME NEW x \in Sessions, x # s
          PROVE  /\ sess'[x].permit <=> Takers(x)' \cup Users(sess'[x]) # {}
                 /\ \A i \in Takers(x)', j \in Takers(x)' \cup Users(sess'[x]) : i = j
      BY <2>7, <2>12, <3>1 DEF CommandsInv, Permits
    <3>2. /\ sess'[s].permit <=> Takers(s)' \cup Users(sess'[s]) # {}
          /\ \A i \in Takers(s)', j \in Takers(s)' \cup Users(sess'[s]) : i = j
      BY <1>4, <2>4, <2>5, <2>7, <2>12
    <3> QED
      BY <3>1, <3>2 DEF Permits
  <2> QED
    BY <2>6, <2>7, <2>9, <2>10, <2>11, <2>13 DEF CommandsInv
<1>7. CASE ~Fits(s)
  <2>1. PICK q : q = [r EXCEPT !.permit = FALSE]
    OBVIOUS
  <2>2. ask' = [ask EXCEPT ![k].stage = "refused"] /\ sess' = [sess EXCEPT ![s] = q]
    BY <1>1, <1>2, <1>7, <2>1 DEF EnqueueRefresh, AskRefused
  <2>3. /\ Whole(q) /\ q.stage = r.stage /\ q.permit = FALSE
        /\ Users(q) = Users(r) /\ Held(q) = Held(r)
    BY <1>4, <1>5, <2>1, PermitSet
  <2>4. /\ AskTypes' /\ ask'[k].stage = "refused" /\ ask'[k].on = s
        /\ \A j \in Ask : j # k => ask'[j] = ask[j]
    <3>1. "refused" \in AskStages
      BY DEF AskStages
    <3> QED
      BY <1>1, <2>2, <3>1, AskBecomes
  <2>5. /\ DOMAIN sess' = Sessions /\ sess'[s] = q
        /\ \A x \in Sessions : x # s => sess'[x] = sess[x]
        /\ \A x \in Sessions : Whole(sess'[x])
    BY <1>4, <2>2, <2>3, OneBecomes
  <2>6. \A x \in Sessions : /\ Users(sess'[x]) = Users(sess[x]) /\ Held(sess'[x]) = Held(sess[x])
                            /\ sess'[x].stage = sess[x].stage
    BY <1>2, <2>3, <2>5
  <2>7. EntryLeads'
    BY <1>3, <2>6, Names DEF CommandsInv, EntryLeads, Sessions
  <2>8. AsksGo'
    BY <2>4, <2>6 DEF CommandsInv, AsksGo
  <2>9. HeldCallers'
    <3>1. ASSUME NEW x \in Sessions, NEW j \in Held(sess[x])
          PROVE  ask'[j].stage \in {"waiting", "gone"} /\ ask'[j].on = x
      <4>1. j # k /\ j \in Ask /\ ask[j].stage \in {"waiting", "gone"} /\ ask[j].on = x
        BY <1>4, <3>1 DEF CommandsInv, HeldCallers, Held
      <4> QED
        BY <2>4, <4>1
    <3>2. ASSUME NEW j \in Ask, ask'[j].stage = "waiting"
          PROVE  j \in Held(sess[ask'[j].on]) /\ ask'[j].on \in Sessions
      BY <2>4, <3>2 DEF CommandsInv, HeldCallers, AsksGo
    <3> QED
      BY <2>6, <3>1, <3>2 DEF HeldCallers
  <2>10. Takers(s)' = {} /\ \A x \in Sessions : x # s => Takers(x)' = Takers(x)
    <3>1. \A j \in Ask : ask[j].stage = "permitted" /\ ask[j].on = s => j = k
      BY <1>4 DEF Takers
    <3> QED
      BY <1>1, <2>4, <3>1 DEF Takers
  <2>11. Permits'
    <3>1. ASSUME NEW x \in Sessions, x # s
          PROVE  /\ sess'[x].permit <=> Takers(x)' \cup Users(sess'[x]) # {}
                 /\ \A i \in Takers(x)', j \in Takers(x)' \cup Users(sess'[x]) : i = j
      BY <2>5, <2>10, <3>1 DEF CommandsInv, Permits
    <3>2. /\ sess'[s].permit <=> Takers(s)' \cup Users(sess'[s]) # {}
          /\ \A i \in Takers(s)', j \in Takers(s)' \cup Users(sess'[s]) : i = j
      BY <1>4, <2>3, <2>5, <2>10
    <3> QED
      BY <3>1, <3>2 DEF Permits
  <2> QED
    BY <2>4, <2>5, <2>7, <2>8, <2>9, <2>11 DEF CommandsInv
<1> QED
  BY <1>6, <1>7

(* Time, the registry, and nothing.                                        *)
LEMMA OtherSteps ==
  ASSUME CommandsInv, UNCHANGED <<entryVars, sess, ask>>, minute' \in Nat
  PROVE  CommandsInv'
<1>1. made' = made /\ active' = active /\ handle' = handle /\ sess' = sess /\ ask' = ask
  BY DEF entryVars
<1>2. Permits'
  <2>1. \A x : Takers(x)' = Takers(x)
    BY <1>1 DEF Takers
  <2> QED
    BY <1>1, <2>1 DEF CommandsInv, Permits
<1>3. HeldCallers'
  BY <1>1 DEF CommandsInv, HeldCallers
<1> QED
  BY <1>1, <1>2, <1>3 DEF CommandsInv, EntryLeads, AskTypes, AsksGo

-----------------------------------------------------------------------------
(* Where a request's channel is, in the words of the property.             *)
LEMMA OnePlace ==
  ASSUME NEW r, Whole(r), NEW k \in Ask
  PROVE  /\ Queued(k, r) => r.job.hand # k /\ r.pending.reply # k
         /\ r.job.hand = k => r.pending.reply # k
<1>1. Queued(k, r) => ~NoneQueued(r.queue)
  BY Names DEF Queued, NoneQueued
<1> QED
  BY <1>1, Names DEF Whole, OneUser, Hand

LEMMA HoldersAre ==
  ASSUME NEW k
  PROVE  \A h : h \in Holders(k) <=>
           \E s \in Sessions : \/ h = <<s, "queue">> /\ Queued(k, sess[s])
                               \/ h = <<s, "hand">> /\ sess[s].job.hand = k
                               \/ h = <<s, "pending">> /\ sess[s].pending.reply = k
<1>1. \A S, p, h : h \in S \X {p} <=> \E s \in S : h = <<s, p>>
  OBVIOUS
<1> DEFINE Q == {s \in Sessions : \E i \in DOMAIN sess[s].queue : sess[s].queue[i] = k}
           H == {s \in Sessions : sess[s].job.hand = k}
           P == {s \in Sessions : sess[s].pending.reply = k}
<1>2. Holders(k) = (Q \X {"queue"}) \cup (H \X {"hand"}) \cup (P \X {"pending"})
  BY DEF Holders
<1>3. \A s : /\ s \in Q <=> s \in Sessions /\ Queued(k, sess[s])
             /\ s \in H <=> s \in Sessions /\ sess[s].job.hand = k
             /\ s \in P <=> s \in Sessions /\ sess[s].pending.reply = k
  BY DEF Queued
<1> HIDE DEF Q, H, P
<1>4. \A h : h \in Holders(k) <=> \/ \E s \in Q : h = <<s, "queue">>
                                  \/ \E s \in H : h = <<s, "hand">>
                                  \/ \E s \in P : h = <<s, "pending">>
  BY <1>1, <1>2
<1> QED
  BY <1>3, <1>4, Zenon

LEMMA HeldBy ==
  ASSUME NEW k \in Ask
  PROVE  {h[1] : h \in Holders(k)} = {s \in Sessions : k \in Held(sess[s])}
<1>1. ASSUME NEW h \in Holders(k)
      PROVE  h[1] \in Sessions /\ k \in Held(sess[h[1]])
  BY <1>1, HoldersAre DEF Held, Users
<1>2. ASSUME NEW s \in Sessions, k \in Held(sess[s])
      PROVE  \E h \in Holders(k) : h[1] = s
  <2>1. <<s, "queue">>[1] = s /\ <<s, "hand">>[1] = s /\ <<s, "pending">>[1] = s
    OBVIOUS
  <2>2. Queued(k, sess[s]) \/ sess[s].job.hand = k \/ sess[s].pending.reply = k
    BY <1>2 DEF Held, Users
  <2>3. <<s, "queue">> \in Holders(k) \/ <<s, "hand">> \in Holders(k) \/ <<s, "pending">> \in Holders(k)
    BY <2>2, HoldersAre
  <2> QED
    BY <2>1, <2>3
<1> QED
  BY <1>1, <1>2

LEMMA PermittedAre ==
  ASSUME NEW s \in Sessions, \A x \in Sessions : Whole(sess[x])
  PROVE  Permitted(s) = Takers(s) \cup Users(sess[s])
<1>1. ASSUME NEW k \in Ask, NEW h \in Holders(k), h[1] = s, ~(h[2] = "hand" /\ Doing(s, "reply"))
      PROVE  k \in Users(sess[s])
  <2>1. \/ Queued(k, sess[s]) \/ sess[s].pending.reply = k
        \/ sess[s].job.hand = k /\ h[2] = "hand"
    BY <1>1, HoldersAre
  <2> QED
    BY <1>1, <2>1 DEF Users, Doing
<1>2. ASSUME NEW k \in Users(sess[s])
      PROVE  \E h \in Holders(k) : h[1] = s /\ ~(h[2] = "hand" /\ Doing(s, "reply"))
  <2>1. /\ <<s, "queue">>[1] = s /\ <<s, "queue">>[2] = "queue"
        /\ <<s, "hand">>[1] = s /\ <<s, "hand">>[2] = "hand"
        /\ <<s, "pending">>[1] = s /\ <<s, "pending">>[2] = "pending"
    OBVIOUS
  <2>2. \/ Queued(k, sess[s]) \/ sess[s].pending.reply = k
        \/ sess[s].job.hand = k /\ ~Doing(s, "reply")
    BY <1>2 DEF Users, Doing
  <2>3. \/ <<s, "queue">> \in Holders(k) \/ <<s, "pending">> \in Holders(k)
        \/ <<s, "hand">> \in Holders(k) /\ ~Doing(s, "reply")
    BY <2>2, HoldersAre
  <2> QED
    BY <2>1, <2>3
<1>3. Users(sess[s]) \subseteq Ask
  BY DEF Users
<1> QED
  BY <1>1, <1>2, <1>3 DEF Permitted, Takers

LEMMA InvAnswers == CommandsInv => CommandsAreAnswered
<1> SUFFICES ASSUME CommandsInv PROVE CommandsAreAnswered
  OBVIOUS
<1>1. ASSUME NEW k \in Ask, ask[k].stage = "waiting"
      PROVE  {h[1] : h \in Holders(k)} = {ask[k].on} /\ \E h \in Holders(k) : Holders(k) = {h}
  <2>1. PICK s \in Sessions : s = ask[k].on /\ k \in Held(sess[s])
    BY <1>1 DEF CommandsInv, HeldCallers, AsksGo
  <2>2. \A x \in Sessions : k \in Held(sess[x]) => x = s
    BY <2>1 DEF CommandsInv, HeldCallers
  <2>3. {h[1] : h \in Holders(k)} = {s}
    BY <2>1, <2>2, HeldBy
  <2>4. \A h \in Holders(k) : \/ h = <<s, "queue">> /\ Queued(k, sess[s])
                              \/ h = <<s, "hand">> /\ sess[s].job.hand = k
                              \/ h = <<s, "pending">> /\ sess[s].pending.reply = k
    <3> SUFFICES ASSUME NEW h \in Holders(k)
                 PROVE  \/ h = <<s, "queue">> /\ Queued(k, sess[s])
                        \/ h = <<s, "hand">> /\ sess[s].job.hand = k
                        \/ h = <<s, "pending">> /\ sess[s].pending.reply = k
      OBVIOUS
    <3>1. PICK x \in Sessions : \/ h = <<x, "queue">> /\ Queued(k, sess[x])
                                \/ h = <<x, "hand">> /\ sess[x].job.hand = k
                                \/ h = <<x, "pending">> /\ sess[x].pending.reply = k
      BY HoldersAre
    <3>2. k \in Held(sess[x])
      BY <3>1 DEF Held, Users
    <3> QED
      BY <2>2, <3>1, <3>2
  <2>5. \A h, g \in Holders(k) : h = g
    <3>1. Whole(sess[s])
      BY DEF CommandsInv
    <3> QED
      BY <2>4, <3>1, OnePlace
  <2>6. PICK h : h \in Holders(k)
    BY <2>3
  <2>7. Holders(k) = {h}
    BY <2>5, <2>6
  <2> QED
    BY <2>1, <2>3, <2>6, <2>7
<1>2. ASSUME NEW k \in Ask, ask[k].stage \in {"refused", "error", "renewed", "dropped"}
      PROVE  {h[1] : h \in Holders(k)} = {}
  <2>1. \A x \in Sessions : k \notin Held(sess[x])
    BY <1>2 DEF CommandsInv, HeldCallers
  <2> QED
    BY <2>1, HeldBy
<1>3. ASSUME NEW s \in 1..made
      PROVE  /\ \A j, k \in Permitted(s) : j = k
             /\ sess[s].permit <=> Permitted(s) # {}
  <2>1. s \in Sessions
    BY <1>3, Names DEF CommandsInv, EntryLeads, Sessions
  <2>2. Permitted(s) = Takers(s) \cup Users(sess[s])
    BY <2>1, PermittedAre DEF CommandsInv
  <2>3. \A j, k \in Users(sess[s]) : j = k
    <3>1. PICK r : r = sess[s]
      OBVIOUS
    <3>2. Whole(r)
      BY <2>1, <3>1 DEF CommandsInv
    <3>3. \A j, k \in Ask : Queued(j, r) /\ Queued(k, r) => j = k
      BY <3>2, Names DEF Whole, OneUser, OneQueued, Queued
    <3>4. \A j \in Ask : Queued(j, r) => ~NoneQueued(r.queue)
      BY Names DEF Queued, NoneQueued
    <3> QED
      BY <3>1, <3>2, <3>3, <3>4, Names DEF Users, Whole, OneUser
  <2> QED
    BY <2>1, <2>2, <2>3 DEF CommandsInv, Permits
<1> QED
  BY <1>1, <1>2, <1>3 DEF CommandsAreAnswered

LEMMA CommandsStart == CommandsInit => CommandsInv
<1> SUFFICES ASSUME CommandsInit PROVE CommandsInv
  OBVIOUS
<1>1. /\ minute = 0 /\ made = 0 /\ active = 0 /\ handle = 0
      /\ sess = [s \in Sessions |-> NoSession] /\ ask = [k \in Ask |-> FreshAsk]
  BY DEF CommandsInit
<1>2. PICK none : none = NoSession
  OBVIOUS
<1>3. /\ none \in Session(<<>>) /\ none.stage = "none" /\ none.queue = <<>>
      /\ ~none.permit /\ none.job = Resting /\ none.pending = NoRefresh
  BY <1>1, <1>2, NotMade
<1>4. NoRefresh.reply = NoAsk /\ NoRefresh.id = 0
  BY DEF NoRefresh
<1>5. none.pings = <<>>
  BY <1>3 DEF Session
<1>6. Whole(none)
  BY <1>3, <1>4, <1>5, JobsMade DEF Whole, OneUser, OneQueued, Hand, AtRest
<1>7. \A s \in Sessions : sess[s] = none
  BY <1>1, <1>2
<1>8. Users(none) = {} /\ Held(none) = {}
  BY <1>3, <1>4, JobsMade, Names DEF Users, Held, Queued
<1>9. EntryLeads
  BY <1>1, <1>3, <1>7, Names DEF EntryLeads
<1>10. \A k \in Ask : ask[k].stage = "idle"
  BY <1>1 DEF FreshAsk
<1>11. AskTypes /\ AsksGo
  BY <1>1, <1>10, Names DEF AskTypes, AskStages, AsksGo, FreshAsk
<1>12. HeldCallers
  BY <1>7, <1>8, <1>10 DEF HeldCallers
<1>13. Permits
  <2>1. \A s : Takers(s) = {}
    BY <1>10 DEF Takers
  <2> QED
    BY <1>3, <1>7, <1>8, <2>1 DEF Permits
<1> QED
  BY <1>1, <1>6, <1>7, <1>9, <1>11, <1>12, <1>13 DEF CommandsInv

LEMMA CommandsGoOn == CommandsInv /\ [CommandsNext]_commandVars => CommandsInv'
<1> SUFFICES ASSUME CommandsInv, [CommandsNext]_commandVars PROVE CommandsInv'
  OBVIOUS
<1>1. minute \in Nat
  BY DEF CommandsInv, EntryLeads
<1>2. CASE RegisterSession
  BY <1>2, RegisterSessionStep
<1>3. CASE MinutePasses
  BY <1>1, <1>3, OtherSteps DEF MinutePasses
<1>4. CASE EnqueueUpdate
  BY <1>4, EnqueueUpdateStep
<1>5. ASSUME NEW k \in Ask,
             RequestRefresh(k) \/ AcquirePermit(k) \/ EnqueueRefresh(k) \/ StopWaiting(k)
      PROVE  CommandsInv'
  BY <1>5, RequestRefreshStep, AcquirePermitStep, EnqueueRefreshStep, StopWaitingStep
<1>6. ASSUME NEW s \in Sessions, RevokeToken(s)
      PROVE  CommandsInv'
  BY <1>1, <1>6, OtherSteps DEF RevokeToken
<1>7. ASSUME NEW s \in Sessions,
             \/ AttachControl(s) \/ TakeRefreshCommand(s) \/ TakeUpdateCommand(s)
             \/ PrepareCandidate(s) \/ SendCandidate(s) \/ RefreshFails(s)
      PROVE  CommandsInv'
  BY <1>7, AttachControlStep, TakeRefreshCommandStep, TakeUpdateCommandStep,
     PrepareCandidateStep, SendCandidateStep, RefreshFailsStep
<1>8. ASSUME NEW s \in Sessions,
             \/ ReleasePermit(s) \/ SendReply(s)
             \/ LeaveStale(s) \/ RefuseToken(s) \/ ConfirmToken(s) \/ CommitToken(s)
      PROVE  CommandsInv'
  BY <1>8, ReleasePermitStep, SendReplyStep, LeaveStep, RefuseTokenStep, ConfirmTokenStep,
     CommitTokenStep
<1>9. ASSUME NEW s \in Sessions,
             \/ AgentAsksRefresh(s) \/ TakePong(s) \/ PingTick(s) \/ SendPing(s)
             \/ LeaveSession(s) \/ DropQueued(s) \/ Disconnect(s)
      PROVE  CommandsInv'
  BY <1>9, AgentAsksRefreshStep, TakePongStep, PingTickStep, SendPingStep, LeaveStep,
     DropQueuedStep, DisconnectStep
<1>10. CASE UNCHANGED commandVars
  BY <1>1, <1>10, OtherSteps DEF commandVars, entryVars
<1> QED
  BY <1>2, <1>3, <1>4, <1>5, <1>6, <1>7, <1>8, <1>9, <1>10 DEF CommandsNext

(* Every request to renew a node's token is answered at most once and by   *)
(* the session it went to, and the permit of a session is taken exactly    *)
(* while one request has it, so that whoever has an answer finds the       *)
(* permit free (state/session_control.rs; ws/session.rs; ws/refresh.rs).   *)
THEOREM CommandsAnswered == CommandsSpec => []CommandsAreAnswered
<1>1. CommandsInit => CommandsInv
  BY CommandsStart
<1>2. CommandsInv /\ [CommandsNext]_commandVars => CommandsInv'
  BY CommandsGoOn
<1>3. CommandsInv => CommandsAreAnswered
  BY InvAnswers
<1> QED
  BY <1>1, <1>2, <1>3, PTL DEF CommandsSpec

(* ---- requests to update an agent ---- *)

(* What is sent, told and kept.                                            *)
SentRequests == [id : 1..UpdateIds, expires : Nat]
Told == [cap : {"ready", "disabled", "manual_recovery"}, phase : RemotePhases,
         id : 0..UpdateIds, next : Nat]
Entries == [session : Int, online : BOOLEAN, reported : BOOLEAN, requested : Int,
            request : SentRequests \cup {NoRequest}, status : Told]
LinkStates == [stage : {"none", "open", "over"}, commands : Seq(SentRequests), down : Seq(SentRequests),
               up : Seq(Told), told : Told]
Updaters == [file : SentRequests \cup {NoRequest}, id : 0..UpdateIds, phase : RemotePhases,
             accepted : Nat, cap : {"ready", "manual_recovery"}]

UpdateTypes ==
  /\ clock \in Nat /\ entry \in Entries
  /\ call \in [stage : {"none", "reserved", "undelivered"}, request : SentRequests \cup {NoRequest}]
  /\ call.stage # "none" => call.request \in SentRequests
  /\ link \in [1..Links -> LinkStates]
  /\ updater \in Updaters /\ reached \in [1..UpdateIds -> SUBSET RemotePhases]

(* A phase that only the updater brings about was reached for its request. *)
Reported == Outcomes \cup {"downloading", "trial"}
Truly(phase, id, had) == phase \in Reported => id \in 1..UpdateIds /\ phase \in had[id]

Truth ==
  /\ Truly(updater.phase, updater.id, reached)
  /\ Truly(entry.status.phase, entry.status.id, reached)
  /\ \A s \in 1..Links : \A i \in DOMAIN link[s].up :
       Truly(link[s].up[i].phase, link[s].up[i].id, reached)

(* What is shown is about the request that was made last.                  *)
OfLast == entry.request # NoRequest => entry.status.id = entry.request.id

UpdatesInv == UpdateTypes /\ Truth /\ OfLast

-----------------------------------------------------------------------------
LEMMA UpdateNames ==
  /\ NoRequest \notin SentRequests /\ Unavailable \in Told /\ Untold \in Told
  /\ NewEntry \in Entries /\ NewEntry.request = NoRequest /\ NewEntry.status.phase = "idle"
  /\ NoUpdates \in Entries /\ NoUpdates.request = NoRequest /\ NoUpdates.status.phase = "idle"
  /\ NewLink \in LinkStates /\ NewLink.up = <<>>
  /\ UpdateCooldown \in Nat /\ Lifetime \in Nat
<1>1. NoRequest \notin SentRequests /\ NoRequest \in SentRequests \cup {NoRequest}
  BY DEF NoRequest, SentRequests
<1>2. Unavailable \in Told /\ Untold \in Told /\ Unavailable.phase = "idle"
  BY UpdateRequestsAssumption DEF Unavailable, Untold, Told, Status, RemotePhases
<1>3. NewEntry \in Entries /\ NewEntry.request = NoRequest /\ NewEntry.status = Unavailable
  BY <1>1, <1>2 DEF NewEntry, Entries, Never
<1>4. PICK n \in Int : n = -1
  OBVIOUS
<1>5. NoUpdates = [NewEntry EXCEPT !.session = n]
  BY <1>4 DEF NoUpdates
<1>6. NoUpdates \in Entries /\ NoUpdates.request = NoRequest /\ NoUpdates.status = Unavailable
  BY <1>3, <1>5 DEF Entries
<1>7. <<>> \in Seq(SentRequests) /\ <<>> \in Seq(Told)
  OBVIOUS
<1>8. NewLink \in LinkStates /\ NewLink.up = <<>>
  BY <1>2, <1>7 DEF NewLink, LinkStates
<1>9. UpdateCooldown \in Nat /\ Lifetime \in Nat
  BY UpdateRequestsAssumption
<1> QED
  BY <1>1, <1>2, <1>3, <1>6, <1>8, <1>9

(* Phases are only ever added for a request.                               *)
Grows == \A i \in 1..UpdateIds : reached[i] \subseteq reached'[i]

LEMMA TruthStays ==
  ASSUME NEW phase, NEW id, Truly(phase, id, reached), Grows
  PROVE  Truly(phase, id, reached')
BY DEF Truly, Grows

(* Reports that were sent stay true while others are read or sent.         *)
LEMMA LinksStayTrue ==
  ASSUME UpdatesInv, Grows,
         \A s \in 1..Links : \A i \in DOMAIN link'[s].up :
           \/ \E j \in DOMAIN link[s].up : link'[s].up[i] = link[s].up[j]
           \/ Truly(link'[s].up[i].phase, link'[s].up[i].id, reached')
  PROVE  \A s \in 1..Links : \A i \in DOMAIN link'[s].up :
           Truly(link'[s].up[i].phase, link'[s].up[i].id, reached')
<1> SUFFICES ASSUME NEW s \in 1..Links, NEW i \in DOMAIN link'[s].up
             PROVE  Truly(link'[s].up[i].phase, link'[s].up[i].id, reached')
  OBVIOUS
<1>1. CASE Truly(link'[s].up[i].phase, link'[s].up[i].id, reached')
  BY <1>1
<1>2. CASE \E j \in DOMAIN link[s].up : link'[s].up[i] = link[s].up[j]
  <2>1. PICK j \in DOMAIN link[s].up : link'[s].up[i] = link[s].up[j]
    BY <1>2
  <2>2. Truly(link[s].up[j].phase, link[s].up[j].id, reached)
    BY DEF UpdatesInv, Truth
  <2> QED
    BY <2>1, <2>2 DEF Truly, Grows
<1> QED
  BY <1>1, <1>2

-----------------------------------------------------------------------------
(* A step that tells of nothing new: what is left of the entry and of each *)
(* session is what it was, or says nothing.                                *)
EntryTrue(e, had) ==
  /\ e \in Entries /\ Truly(e.status.phase, e.status.id, had)
  /\ e.request # NoRequest => e.status.id = e.request.id

LEMMA EntryIsTrue == UpdatesInv => EntryTrue(entry, reached)
BY DEF UpdatesInv, UpdateTypes, Truth, OfLast, EntryTrue

LEMMA NothingKnown == EntryTrue(NoUpdates, reached) /\ EntryTrue(NewEntry, reached)
BY UpdateNames DEF EntryTrue, Truly, Reported, Outcomes

LEMMA ServerStep ==
  ASSUME UpdatesInv, UNCHANGED <<clock, updater, reached>>, EntryTrue(entry', reached),
         call' \in [stage : {"none", "reserved", "undelivered"}, request : SentRequests \cup {NoRequest}],
         call'.stage # "none" => call'.request \in SentRequests,
         link' \in [1..Links -> LinkStates],
         \A s \in 1..Links : \A i \in DOMAIN link'[s].up :
           \/ \E j \in DOMAIN link[s].up : link'[s].up[i] = link[s].up[j]
           \/ Truly(link'[s].up[i].phase, link'[s].up[i].id, reached)
  PROVE  UpdatesInv'
<1>1. Grows /\ reached' = reached
  BY DEF Grows
<1>2. \A s \in 1..Links : \A i \in DOMAIN link'[s].up :
           Truly(link'[s].up[i].phase, link'[s].up[i].id, reached')
  BY <1>1, LinksStayTrue
<1>3. UpdateTypes'
  BY DEF UpdatesInv, UpdateTypes, EntryTrue
<1>4. Truth'
  <2>1. Truly(updater'.phase, updater'.id, reached')
    BY DEF UpdatesInv, Truth
  <2>2. Truly(entry'.status.phase, entry'.status.id, reached')
    BY <1>1 DEF EntryTrue
  <2> QED
    BY <1>2, <2>1, <2>2 DEF Truth
<1>5. OfLast'
  BY DEF OfLast, EntryTrue
<1> QED
  BY <1>3, <1>4, <1>5 DEF UpdatesInv

LEMMA SameLinks ==
  ASSUME UpdatesInv, link' = link
  PROVE  /\ link' \in [1..Links -> LinkStates]
         /\ \A s \in 1..Links : \A i \in DOMAIN link'[s].up :
              \E j \in DOMAIN link[s].up : link'[s].up[i] = link[s].up[j]
BY DEF UpdatesInv, UpdateTypes

LEMMA CallTypes ==
  ASSUME UpdatesInv
  PROVE  /\ call \in [stage : {"none", "reserved", "undelivered"}, request : SentRequests \cup {NoRequest}]
         /\ call.stage # "none" => call.request \in SentRequests
         /\ NoCall \in [stage : {"none", "reserved", "undelivered"}, request : SentRequests \cup {NoRequest}]
         /\ NoCall.stage = "none"
BY DEF UpdatesInv, UpdateTypes, NoCall

(* One session changes; what it tells does not, or is gone.                *)
LEMMA OneLink ==
  ASSUME UpdatesInv, NEW s \in 1..Links, NEW l \in LinkStates, link' = [link EXCEPT ![s] = l],
         \A i \in DOMAIN l.up :
           \/ \E j \in DOMAIN link[s].up : l.up[i] = link[s].up[j]
           \/ Truly(l.up[i].phase, l.up[i].id, reached)
  PROVE  /\ link' \in [1..Links -> LinkStates]
         /\ \A x \in 1..Links : \A i \in DOMAIN link'[x].up :
              \/ \E j \in DOMAIN link[x].up : link'[x].up[i] = link[x].up[j]
              \/ Truly(link'[x].up[i].phase, link'[x].up[i].id, reached)
<1>1. link \in [1..Links -> LinkStates]
  BY DEF UpdatesInv, UpdateTypes
<1>2. link'[s] = l /\ \A x \in 1..Links : x # s => link'[x] = link[x]
  BY <1>1
<1>3. ASSUME NEW x \in 1..Links, NEW i \in DOMAIN link'[x].up
      PROVE  \/ \E j \in DOMAIN link[x].up : link'[x].up[i] = link[x].up[j]
             \/ Truly(link'[x].up[i].phase, link'[x].up[i].id, reached)
  <2>1. CASE x = s
    BY <1>2, <2>1
  <2>2. CASE x # s
    BY <1>2, <2>2
  <2> QED
    BY <2>1, <2>2
<1> QED
  BY <1>1, <1>3

LEMMA RestartServerStep == ASSUME UpdatesInv, RestartServer PROVE UpdatesInv'
<1>1. /\ UNCHANGED <<clock, updater, reached>> /\ entry' = NoUpdates /\ call' = NoCall
      /\ link' = [s \in 1..Links |-> IF link[s].stage = "open"
                                     THEN [NewLink EXCEPT !.stage = "over"] ELSE link[s]]
  BY DEF RestartServer
<1>2. PICK over : over = [NewLink EXCEPT !.stage = "over"]
  OBVIOUS
<1>3. over \in LinkStates /\ over.up = <<>>
  BY <1>2, UpdateNames DEF LinkStates
<1>4. link \in [1..Links -> LinkStates]
  BY DEF UpdatesInv, UpdateTypes
<1>5. \A s \in 1..Links : link'[s] = link[s] \/ link'[s] = over
  BY <1>1, <1>2
<1>6. link' \in [1..Links -> LinkStates]
  BY <1>1, <1>2, <1>3, <1>4
<1>7. \A s \in 1..Links : \A i \in DOMAIN link'[s].up :
           \E j \in DOMAIN link[s].up : link'[s].up[i] = link[s].up[j]
  BY <1>3, <1>5
<1> QED
  BY <1>1, <1>6, <1>7, CallTypes, NothingKnown, ServerStep

LEMMA ForgetUpdatesStep == ASSUME UpdatesInv, ForgetUpdates PROVE UpdatesInv'
<1>1. UNCHANGED <<clock, call, link, updater, reached>> /\ entry' = NoUpdates
  BY DEF ForgetUpdates
<1> QED
  BY <1>1, SameLinks, CallTypes, NothingKnown, ServerStep

LEMMA DeliveryFailedStep == ASSUME UpdatesInv, DeliveryFailed PROVE UpdatesInv'
<1>1. /\ UNCHANGED <<clock, link, updater, reached>> /\ call' = NoCall
      /\ entry' = IF Known THEN FailsOwn(entry, call.request.id) ELSE entry
  BY DEF DeliveryFailed
<1>2. EntryTrue(entry', reached)
  <2>1. EntryTrue(entry, reached)
    BY EntryIsTrue
  <2>2. CASE entry' = entry
    BY <2>1, <2>2
  <2>3. CASE entry' = [entry EXCEPT !.status.phase = "failed"]
    <3>1. PICK e : e = entry
      OBVIOUS
    <3>2. PICK f : f = [e EXCEPT !.status.phase = "failed"]
      OBVIOUS
    <3>3. e \in Entries /\ (e.request # NoRequest => e.status.id = e.request.id)
      BY <2>1, <3>1 DEF EntryTrue
    <3>4. /\ f \in Entries /\ f.request = e.request /\ f.status.phase = "failed"
          /\ f.status.id = e.status.id
      BY <3>2, <3>3 DEF Entries, Told, RemotePhases
    <3> QED
      BY <2>3, <3>1, <3>2, <3>3, <3>4 DEF EntryTrue, Truly, Reported, Outcomes
  <2> QED
    BY <1>1, <2>2, <2>3 DEF FailsOwn
<1> QED
  BY <1>1, <1>2, SameLinks, CallTypes, ServerStep

LEMMA DeliverStep == ASSUME UpdatesInv, Deliver PROVE UpdatesInv'
<1>1. UNCHANGED <<clock, entry, updater, reached>> /\ call.stage = "reserved"
  BY DEF Deliver
<1>2. EntryTrue(entry', reached)
  BY <1>1, EntryIsTrue
<1>3. CASE call' = [call EXCEPT !.stage = "undelivered"] /\ link' = link
  <2>1. /\ call' \in [stage : {"none", "reserved", "undelivered"}, request : SentRequests \cup {NoRequest}]
        /\ call'.request \in SentRequests
    BY <1>1, <1>3, CallTypes
  <2> QED
    BY <1>1, <1>2, <1>3, <2>1, SameLinks, ServerStep
<1>4. ASSUME NEW s \in 1..Links, call' = NoCall,
             link' = [link EXCEPT ![s].commands = Append(@, call.request)]
      PROVE  UpdatesInv'
  <2>1. PICK request \in SentRequests : request = call.request
    BY <1>1, CallTypes
  <2>2. PICK l : l = [link[s] EXCEPT !.commands = Append(link[s].commands, request)]
    OBVIOUS
  <2>3. PICK commands : commands = Append(link[s].commands, request)
    OBVIOUS
  <2>4. PICK k : k = link[s]
    OBVIOUS
  <2>5. k \in LinkStates
    BY <2>4 DEF UpdatesInv, UpdateTypes
  <2>6. k.commands \in Seq(SentRequests)
    BY <2>5 DEF LinkStates
  <2>7. commands \in Seq(SentRequests)
    BY <2>3, <2>4, <2>6
  <2>8. l = [k EXCEPT !.commands = commands]
    BY <2>2, <2>3, <2>4
  <2>9. l \in LinkStates /\ l.up = k.up
    BY <2>5, <2>7, <2>8 DEF LinkStates
  <2>10. link' = [link EXCEPT ![s] = l]
    BY <1>4, <2>1, <2>2
  <2> QED
    BY <1>1, <1>2, <1>4, <2>4, <2>9, <2>10, CallTypes, OneLink, ServerStep
<1> QED
  BY <1>3, <1>4 DEF Deliver

-----------------------------------------------------------------------------
(* Sessions begin, break and end.                                          *)
LEMMA LinkOf ==
  ASSUME UpdatesInv, NEW s \in 1..Links
  PROVE  /\ link[s] \in LinkStates /\ link[s].commands \in Seq(SentRequests)
         /\ link[s].down \in Seq(SentRequests) /\ link[s].up \in Seq(Told)
<1>1. PICK k : k = link[s]
  OBVIOUS
<1>2. k \in LinkStates
  BY <1>1 DEF UpdatesInv, UpdateTypes
<1> QED
  BY <1>1, <1>2 DEF LinkStates

LEMMA Ended ==
  ASSUME UpdatesInv, NEW s, EndsUpdates(s)
  PROVE  EntryTrue(entry', reached)
<1>1. EntryTrue(entry, reached)
  BY EntryIsTrue
<1>2. PICK e : e = entry
  OBVIOUS
<1>3. PICK f : f = [e EXCEPT !.online = FALSE]
  OBVIOUS
<1>4. e \in Entries
  BY <1>1, <1>2 DEF EntryTrue
<1>5. f \in Entries /\ f.request = e.request /\ f.status = e.status
  BY <1>3, <1>4 DEF Entries
<1>6. entry' = e \/ entry' = f
  BY <1>2, <1>3 DEF EndsUpdates
<1> QED
  BY <1>1, <1>2, <1>5, <1>6 DEF EntryTrue

LEMMA OverLink ==
  ASSUME NEW over, over = [NewLink EXCEPT !.stage = "over"]
  PROVE  /\ over \in LinkStates
         /\ \A i \in DOMAIN over.up : FALSE
<1>1. over \in LinkStates /\ over.up = <<>>
  BY UpdateNames DEF LinkStates
<1> QED
  BY <1>1

LEMMA BeginUpdateSessionStep ==
  ASSUME UpdatesInv, NEW s \in 1..Links, BeginUpdateSession(s) PROVE UpdatesInv'
<1>1. PICK e : e = IF Known THEN entry ELSE NewEntry
  OBVIOUS
<1>2. EntryTrue(e, reached) /\ EntryTrue(entry, reached)
  BY <1>1, EntryIsTrue, NothingKnown
<1>3. PICK f : f = [e EXCEPT !.session = s, !.online = TRUE, !.reported = FALSE]
  OBVIOUS
<1>4. /\ entry' \in {entry, e, f} /\ link' = [link EXCEPT ![s].stage = "open"]
      /\ UNCHANGED <<clock, call, updater, reached>>
  BY <1>1, <1>3 DEF BeginUpdateSession
<1>5. EntryTrue(f, reached)
  <2>1. PICK t \in Int : t = s
    OBVIOUS
  <2>2. f = [e EXCEPT !.session = t, !.online = TRUE, !.reported = FALSE] /\ e \in Entries
    BY <1>2, <1>3, <2>1 DEF EntryTrue
  <2>3. f \in Entries /\ f.request = e.request /\ f.status = e.status
    BY <2>2 DEF Entries
  <2> QED
    BY <1>2, <2>3 DEF EntryTrue
<1>6. PICK k : k = link[s]
  OBVIOUS
<1>7. PICK l : l = [k EXCEPT !.stage = "open"]
  OBVIOUS
<1>8. l \in LinkStates /\ l.up = k.up /\ link' = [link EXCEPT ![s] = l]
  BY <1>4, <1>6, <1>7, LinkOf DEF LinkStates
<1>9. EntryTrue(entry', reached)
  BY <1>2, <1>4, <1>5
<1> QED
  BY <1>4, <1>6, <1>8, <1>9, CallTypes, OneLink, ServerStep

LEMMA BreakStep == ASSUME UpdatesInv, NEW s \in 1..Links, Break(s) PROVE UpdatesInv'
<1>1. /\ link' = [link EXCEPT ![s].down = <<>>, ![s].told = Untold]
      /\ UNCHANGED <<clock, call, entry, updater, reached>>
  BY DEF Break, serverVars
<1>2. PICK k : k = link[s]
  OBVIOUS
<1>3. PICK l : l = [k EXCEPT !.down = <<>>, !.told = Untold]
  OBVIOUS
<1>4. k \in LinkStates /\ <<>> \in Seq(SentRequests)
  BY <1>2, LinkOf
<1>5. l \in LinkStates /\ l.up = k.up
  BY <1>3, <1>4, UpdateNames DEF LinkStates
<1>6. link' = [link EXCEPT ![s] = l]
  BY <1>1, <1>2, <1>3 DEF UpdatesInv, UpdateTypes
<1> QED
  BY <1>1, <1>2, <1>5, <1>6, CallTypes, EntryIsTrue, OneLink, ServerStep

LEMMA EndUpdateSessionStep ==
  ASSUME UpdatesInv, NEW s \in 1..Links, EndUpdateSession(s) PROVE UpdatesInv'
<1>1. PICK over : over = [NewLink EXCEPT !.stage = "over"]
  OBVIOUS
<1>2. /\ link' = [link EXCEPT ![s] = over] /\ EndsUpdates(s)
      /\ UNCHANGED <<clock, call, updater, reached>>
  BY <1>1 DEF EndUpdateSession
<1>3. over \in LinkStates /\ \A i \in DOMAIN over.up : FALSE
  BY <1>1, OverLink
<1> QED
  BY <1>2, <1>3, CallTypes, Ended, OneLink, ServerStep

(* The server's loop sends a request, or ends its session.                 *)
LEMMA SendRequestStep == ASSUME UpdatesInv, NEW s \in 1..Links, SendRequest(s) PROVE UpdatesInv'
<1>1. PICK k : k = link[s]
  OBVIOUS
<1>2. k \in LinkStates /\ k.commands \in Seq(SentRequests) /\ k.down \in Seq(SentRequests) /\ k.commands # <<>>
  BY <1>1, LinkOf DEF SendRequest
<1>3. PICK over : over = [NewLink EXCEPT !.stage = "over"]
  OBVIOUS
<1>4. PICK commands : commands = Tail(k.commands)
  OBVIOUS
<1>5. PICK down : down = IF line = s THEN Append(k.down, Head(k.commands)) ELSE k.down
  OBVIOUS
<1>6. PICK l : l = [k EXCEPT !.commands = commands, !.down = down]
  OBVIOUS
<1>7. commands \in Seq(SentRequests) /\ down \in Seq(SentRequests)
  BY <1>2, <1>4, <1>5
<1>8. /\ l \in LinkStates /\ l.up = k.up
      /\ over \in LinkStates /\ \A i \in DOMAIN over.up : FALSE
  BY <1>2, <1>3, <1>6, <1>7, OverLink DEF LinkStates
<1>9. /\ UNCHANGED <<clock, call, updater, reached>>
      /\ \/ link' = [link EXCEPT ![s] = l] /\ entry' = entry
         \/ link' = [link EXCEPT ![s] = over] /\ EndsUpdates(s)
  <2>1. link \in [1..Links -> LinkStates]
    BY DEF UpdatesInv, UpdateTypes
  <2> QED
    BY <1>1, <1>3, <1>4, <1>5, <1>6, <2>1 DEF SendRequest
<1>10. CASE link' = [link EXCEPT ![s] = l] /\ entry' = entry
  BY <1>1, <1>8, <1>9, <1>10, CallTypes, EntryIsTrue, OneLink, ServerStep
<1>11. CASE link' = [link EXCEPT ![s] = over] /\ EndsUpdates(s)
  BY <1>8, <1>9, <1>11, CallTypes, Ended, OneLink, ServerStep
<1> QED
  BY <1>9, <1>10, <1>11

(* A status is recorded only where it is about the request.                *)
LEMMA ReceiveStatusStep == ASSUME UpdatesInv, NEW s \in 1..Links, ReceiveStatus(s) PROVE UpdatesInv'
<1>1. PICK k : k = link[s]
  OBVIOUS
<1>2. k \in LinkStates /\ k.up \in Seq(Told) /\ k.up # <<>>
  BY <1>1, LinkOf DEF ReceiveStatus
<1>3. PICK status : status = Head(k.up)
  OBVIOUS
<1>4. PICK up : up = Tail(k.up)
  OBVIOUS
<1>5. /\ status \in Told /\ status = k.up[1] /\ 1 \in DOMAIN k.up
      /\ up \in Seq(Told) /\ \A i \in DOMAIN up : up[i] = k.up[i + 1] /\ i + 1 \in DOMAIN k.up
  BY <1>2, <1>3, <1>4
<1>6. PICK l : l = [k EXCEPT !.up = up]
  OBVIOUS
<1>7. l \in LinkStates /\ l.up = up
  BY <1>2, <1>5, <1>6 DEF LinkStates
<1>8. /\ UNCHANGED <<clock, call, updater, reached>> /\ link' = [link EXCEPT ![s] = l]
      /\ entry' \in {entry, Recorded(entry, status)}
  BY <1>1, <1>3, <1>4, <1>6 DEF ReceiveStatus
<1>9. Truly(status.phase, status.id, reached)
  <2>1. Truly(k.up[1].phase, k.up[1].id, reached)
    BY <1>1, <1>5 DEF UpdatesInv, Truth
  <2> QED
    BY <1>5, <2>1
<1>10. EntryTrue(Recorded(entry, status), reached)
  <2>1. PICK e : e = entry
    OBVIOUS
  <2>2. EntryTrue(e, reached)
    BY <2>1, EntryIsTrue
  <2>3. PICK told : told = [e EXCEPT !.reported = TRUE]
    OBVIOUS
  <2>4. e \in Entries
    BY <2>2 DEF EntryTrue
  <2>5. told \in Entries /\ told.request = e.request /\ told.status = e.status
    BY <2>3, <2>4 DEF Entries
  <2>6. e.request # NoRequest => e.request.id # 0
    BY <2>4 DEF Entries, SentRequests
  <2>7. CASE e.request.id \in {0, status.id}
    <3>1. PICK f : f = [told EXCEPT !.status = status]
      OBVIOUS
    <3>2. f \in Entries /\ f.request = e.request /\ f.status = status
      BY <1>5, <2>5, <3>1 DEF Entries
    <3>3. Recorded(e, status) = f
      BY <2>3, <2>7, <3>1 DEF Recorded
    <3> QED
      BY <1>9, <2>1, <2>6, <2>7, <3>2, <3>3 DEF EntryTrue
  <2>8. CASE e.request.id \notin {0, status.id}
    <3>1. PICK phase : phase = IF status.cap = "manual_recovery" THEN "manual_recovery"
                               ELSE told.status.phase
      OBVIOUS
    <3>2. PICK f : f = [told EXCEPT !.status.cap = status.cap, !.status.phase = phase]
      OBVIOUS
    <3>3. Recorded(e, status) = f
      BY <2>3, <2>8, <3>1, <3>2 DEF Recorded
    <3>4. phase \in RemotePhases /\ status.cap \in {"ready", "disabled", "manual_recovery"}
      BY <1>5, <2>5, <3>1 DEF Entries, Told, RemotePhases
    <3>5. f \in Entries
      BY <2>5, <3>2, <3>4 DEF Entries, Told
    <3>6. f.request = e.request /\ f.status.phase = phase /\ f.status.id = e.status.id
      BY <2>5, <3>2 DEF Entries, Told
    <3>7. Truly(phase, e.status.id, reached)
      BY <2>2, <2>5, <3>1 DEF EntryTrue, Truly, Reported, Outcomes
    <3> QED
      BY <2>1, <2>2, <3>3, <3>5, <3>6, <3>7 DEF EntryTrue
  <2> QED
    BY <2>7, <2>8
<1>11. EntryTrue(entry', reached)
  BY <1>8, <1>10, EntryIsTrue
<1> QED
  BY <1>1, <1>5, <1>7, <1>8, <1>11, CallTypes, OneLink, ServerStep

-----------------------------------------------------------------------------
(* Steps of the node and of time, and those that begin a request.          *)
LEMMA NodeStep ==
  ASSUME UpdatesInv, Grows, clock' \in Nat, EntryTrue(entry', reached'),
         call' \in [stage : {"none", "reserved", "undelivered"}, request : SentRequests \cup {NoRequest}],
         call'.stage # "none" => call'.request \in SentRequests,
         updater' \in Updaters, Truly(updater'.phase, updater'.id, reached'),
         reached' \in [1..UpdateIds -> SUBSET RemotePhases],
         link' \in [1..Links -> LinkStates],
         \A s \in 1..Links : \A i \in DOMAIN link'[s].up :
           \/ \E j \in DOMAIN link[s].up : link'[s].up[i] = link[s].up[j]
           \/ Truly(link'[s].up[i].phase, link'[s].up[i].id, reached')
  PROVE  UpdatesInv'
<1>1. \A s \in 1..Links : \A i \in DOMAIN link'[s].up :
           Truly(link'[s].up[i].phase, link'[s].up[i].id, reached')
  BY LinksStayTrue
<1>2. UpdateTypes'
  BY DEF UpdateTypes, EntryTrue
<1>3. Truth'
  BY <1>1 DEF Truth, EntryTrue
<1>4. OfLast'
  BY DEF OfLast, EntryTrue
<1> QED
  BY <1>2, <1>3, <1>4 DEF UpdatesInv

LEMMA NodeTypes ==
  ASSUME UpdatesInv
  PROVE  /\ clock \in Nat /\ updater \in Updaters
         /\ Truly(updater.phase, updater.id, reached)
         /\ reached \in [1..UpdateIds -> SUBSET RemotePhases]
BY DEF UpdatesInv, UpdateTypes, Truth

(* What the updater publishes is true.                                     *)
LEMMA PublicIsTrue ==
  ASSUME UpdatesInv, NEW readable \in BOOLEAN
  PROVE  /\ ReadStatus(readable) \in Told
         /\ Truly(ReadStatus(readable).phase, ReadStatus(readable).id, reached)
<1>1. CASE ~readable
  <2>1. ReadStatus(readable) = Unavailable
    BY <1>1 DEF ReadStatus
  <2>2. Unavailable.phase = "idle"
    BY DEF Unavailable, Status
  <2> QED
    BY <2>1, <2>2, UpdateNames DEF Truly, Reported, Outcomes
<1>2. CASE readable
  <2>1. PICK u : u = updater
    OBVIOUS
  <2>2. /\ u.id \in 0..UpdateIds /\ u.phase \in RemotePhases /\ u.accepted \in Nat
        /\ u.cap \in {"ready", "manual_recovery"}
    BY <2>1, NodeTypes DEF Updaters
  <2>3. PICK phase : phase = IF u.cap = "manual_recovery" THEN "manual_recovery" ELSE u.phase
    OBVIOUS
  <2>4. PICK next : next = IF u.id = 0 THEN 0 ELSE u.accepted + UpdateCooldown
    OBVIOUS
  <2>5. phase \in RemotePhases /\ next \in Nat
    BY <2>2, <2>3, <2>4, UpdateNames DEF RemotePhases
  <2>6. ReadStatus(readable) = [cap |-> u.cap, phase |-> phase, id |-> u.id, next |-> next]
    BY <1>2, <2>1, <2>3, <2>4 DEF ReadStatus, Public, Status
  <2>7. Truly(phase, u.id, reached)
    BY <2>1, <2>3, NodeTypes DEF Truly, Reported, Outcomes
  <2> QED
    BY <2>2, <2>5, <2>6, <2>7 DEF Told
<1> QED
  BY <1>1, <1>2

(* One report is added to what a session tells.                            *)
LEMMA TellsMore ==
  ASSUME NEW up \in Seq(Told), NEW status \in Told,
         Truly(status.phase, status.id, reached)
  PROVE  /\ Append(up, status) \in Seq(Told)
         /\ \A i \in DOMAIN Append(up, status) :
              \/ \E j \in DOMAIN up : Append(up, status)[i] = up[j]
              \/ Truly(Append(up, status)[i].phase, Append(up, status)[i].id, reached)
<1>1. PICK more : more = Append(up, status)
  OBVIOUS
<1>2. /\ more \in Seq(Told)
      /\ \A i \in DOMAIN more : (i \in DOMAIN up /\ more[i] = up[i]) \/ more[i] = status
  BY <1>1
<1> QED
  BY <1>1, <1>2

LEMMA ReportStatusStep == ASSUME UpdatesInv, NEW s \in 1..Links, ReportStatus(s) PROVE UpdatesInv'
<1>1. PICK readable \in BOOLEAN :
        link' = [link EXCEPT ![s].up = Append(@, ReadStatus(readable)),
                             ![s].told = ReadStatus(readable)]
  BY DEF ReportStatus
<1>2. UNCHANGED <<clock, entry, call, updater, reached>>
  BY DEF ReportStatus, serverVars
<1>3. PICK status : status = ReadStatus(readable)
  OBVIOUS
<1>4. status \in Told /\ Truly(status.phase, status.id, reached)
  BY <1>3, PublicIsTrue
<1>5. PICK k : k = link[s]
  OBVIOUS
<1>6. k \in LinkStates /\ k.up \in Seq(Told)
  BY <1>5, LinkOf
<1>7. PICK up : up = Append(k.up, status)
  OBVIOUS
<1>8. /\ up \in Seq(Told)
      /\ \A i \in DOMAIN up : \/ \E j \in DOMAIN k.up : up[i] = k.up[j]
                              \/ Truly(up[i].phase, up[i].id, reached)
  BY <1>4, <1>6, <1>7, TellsMore
<1>9. PICK l : l = [k EXCEPT !.up = up, !.told = status]
  OBVIOUS
<1>10. l \in LinkStates /\ l.up = up
  BY <1>4, <1>6, <1>8, <1>9 DEF LinkStates
<1>11. link' = [link EXCEPT ![s] = l]
  BY <1>1, <1>3, <1>5, <1>7, <1>9, NodeTypes DEF UpdatesInv, UpdateTypes
<1> QED
  BY <1>2, <1>5, <1>8, <1>10, <1>11, CallTypes, EntryIsTrue, OneLink, ServerStep

(* An answer of the agent only says that the request waits or failed.      *)
LEMMA TakeRequestStep == ASSUME UpdatesInv, NEW s \in 1..Links, TakeRequest(s) PROVE UpdatesInv'
<1>1. PICK k : k = link[s]
  OBVIOUS
<1>2. k \in LinkStates /\ k.up \in Seq(Told) /\ k.down \in Seq(SentRequests) /\ k.down # <<>>
  BY <1>1, LinkOf DEF TakeRequest
<1>3. PICK r : r = Head(k.down)
  OBVIOUS
<1>4. PICK down : down = Tail(k.down)
  OBVIOUS
<1>5. r \in SentRequests /\ down \in Seq(SentRequests)
  BY <1>2, <1>3, <1>4
<1>6. PICK u : u = updater
  OBVIOUS
<1>7. PICK filed : filed = [u EXCEPT !.file = r]
  OBVIOUS
<1>8. /\ UNCHANGED <<clock, entry, call, reached>>
      /\ \E readable \in BOOLEAN, phase \in {"queued", "failed"} :
           /\ updater' \in {u, filed}
           /\ link' = [link EXCEPT ![s].down = Tail(@),
                         ![s].up = Append(@, [ReadStatus(readable) EXCEPT !.id = r.id, !.phase = phase])]
  BY <1>1, <1>3, <1>6, <1>7, Zenon DEF TakeRequest, serverVars
<1>9. PICK readable \in BOOLEAN, phase \in {"queued", "failed"} :
           /\ updater' \in {u, filed}
           /\ link' = [link EXCEPT ![s].down = Tail(@),
                         ![s].up = Append(@, [ReadStatus(readable) EXCEPT !.id = r.id, !.phase = phase])]
  BY <1>8
<1>10. PICK seen : seen = ReadStatus(readable)
  OBVIOUS
<1>11. PICK status : status = [seen EXCEPT !.id = r.id, !.phase = phase]
  OBVIOUS
<1>12. seen \in Told
  BY <1>10, PublicIsTrue
<1>13. r.id \in 0..UpdateIds
  BY <1>5 DEF SentRequests
<1>14. phase \in RemotePhases
  BY DEF RemotePhases, InProgressPhases
<1>15. status \in Told /\ status.phase = phase
  BY <1>11, <1>12, <1>13, <1>14 DEF Told
<1>16. Truly(status.phase, status.id, reached)
  BY <1>15 DEF Truly, Reported, Outcomes
<1>17. PICK up : up = Append(k.up, status)
  OBVIOUS
<1>18. /\ up \in Seq(Told)
       /\ \A i \in DOMAIN up : \/ \E j \in DOMAIN k.up : up[i] = k.up[j]
                               \/ Truly(up[i].phase, up[i].id, reached)
  BY <1>2, <1>15, <1>16, <1>17, TellsMore
<1>19. PICK l : l = [k EXCEPT !.down = down, !.up = up]
  OBVIOUS
<1>20. l \in LinkStates /\ l.up = up
  BY <1>2, <1>5, <1>18, <1>19 DEF LinkStates
<1>21. link' = [link EXCEPT ![s] = l]
  BY <1>1, <1>4, <1>9, <1>10, <1>11, <1>17, <1>19 DEF UpdatesInv, UpdateTypes
<1>22. updater' \in Updaters /\ Truly(updater'.phase, updater'.id, reached')
  <2>1. u \in Updaters /\ Truly(u.phase, u.id, reached)
    BY <1>6, NodeTypes
  <2>2. filed \in Updaters /\ filed.phase = u.phase /\ filed.id = u.id
    BY <1>5, <1>7, <2>1 DEF Updaters
  <2> QED
    BY <1>8, <1>9, <2>1, <2>2
<1>23. reached' = reached /\ Grows
  BY <1>8 DEF Grows
<1>24. /\ link' \in [1..Links -> LinkStates]
       /\ \A x \in 1..Links : \A i \in DOMAIN link'[x].up :
            \/ \E j \in DOMAIN link[x].up : link'[x].up[i] = link[x].up[j]
            \/ Truly(link'[x].up[i].phase, link'[x].up[i].id, reached)
  BY <1>1, <1>18, <1>20, <1>21, OneLink
<1> QED
  BY <1>8, <1>22, <1>23, <1>24, CallTypes, NodeTypes, EntryIsTrue, NodeStep

(* The updater takes a request, or goes on with it.                        *)
LEMMA PhaseReached ==
  ASSUME UpdatesInv, NEW i \in 1..UpdateIds, NEW phase \in RemotePhases,
         reached' = [reached EXCEPT ![i] = @ \cup {phase}]
  PROVE  /\ reached' \in [1..UpdateIds -> SUBSET RemotePhases]
         /\ Grows /\ Truly(phase, i, reached')
<1>1. reached \in [1..UpdateIds -> SUBSET RemotePhases]
  BY NodeTypes
<1>2. reached'[i] = reached[i] \cup {phase} /\ \A j \in 1..UpdateIds : j # i => reached'[j] = reached[j]
  BY <1>1
<1>3. reached' \in [1..UpdateIds -> SUBSET RemotePhases]
  BY <1>1
<1> QED
  BY <1>2, <1>3 DEF Grows, Truly

(* A step of the updater alone.                                            *)
LEMMA UpdaterStep ==
  ASSUME UpdatesInv, UNCHANGED <<clock, entry, call, link>>, Grows, updater' \in Updaters,
         Truly(updater'.phase, updater'.id, reached'),
         reached' \in [1..UpdateIds -> SUBSET RemotePhases]
  PROVE  UpdatesInv'
<1>1. EntryTrue(entry', reached')
  BY EntryIsTrue DEF EntryTrue, Truly, Grows
<1> QED
  BY <1>1, SameLinks, CallTypes, NodeTypes, NodeStep

LEMMA AcceptRequestStep == ASSUME UpdatesInv, AcceptRequest PROVE UpdatesInv'
<1>1. PICK u : u = updater
  OBVIOUS
<1>2. u \in Updaters /\ Truly(u.phase, u.id, reached)
  BY <1>1, NodeTypes
<1>3. PICK r : r = u.file
  OBVIOUS
<1>4. r \in SentRequests
  BY <1>1, <1>2, <1>3 DEF AcceptRequest, Updaters
<1>5. PICK id \in 1..UpdateIds : id = r.id
  BY <1>4 DEF SentRequests
<1>6. PICK now \in Nat : now = clock
  BY NodeTypes
<1>7. PICK emptied : emptied = [u EXCEPT !.file = NoRequest]
  OBVIOUS
<1>8. PICK taken : taken = [u EXCEPT !.file = NoRequest, !.id = id, !.accepted = now,
                                     !.phase = "downloading"]
  OBVIOUS
<1>9. /\ UNCHANGED <<clock, entry, call, link>>
      /\ \/ updater' = emptied /\ reached' = reached
         \/ updater' = taken /\ reached' = [reached EXCEPT ![id] = @ \cup {"downloading"}]
  BY <1>1, <1>3, <1>5, <1>6, <1>7, <1>8 DEF AcceptRequest, serverVars
<1>10. CASE updater' = emptied /\ reached' = reached
  <2>1. emptied \in Updaters /\ emptied.phase = u.phase /\ emptied.id = u.id
    BY <1>2, <1>7 DEF Updaters
  <2>2. Grows
    BY <1>10 DEF Grows
  <2>3. /\ updater' \in Updaters /\ Truly(updater'.phase, updater'.id, reached')
        /\ reached' \in [1..UpdateIds -> SUBSET RemotePhases]
    BY <1>2, <1>10, <2>1, NodeTypes
  <2> QED
    BY <1>9, <2>2, <2>3, UpdaterStep
<1>11. CASE updater' = taken /\ reached' = [reached EXCEPT ![id] = @ \cup {"downloading"}]
  <2>1. "downloading" \in RemotePhases
    BY DEF RemotePhases, InProgressPhases
  <2>2. id \in 0..UpdateIds
    OBVIOUS
  <2>3. taken \in Updaters /\ taken.phase = "downloading" /\ taken.id = id
    BY <1>2, <1>8, <2>1, <2>2 DEF Updaters
  <2>4. /\ reached' \in [1..UpdateIds -> SUBSET RemotePhases]
        /\ Grows /\ Truly("downloading", id, reached')
    BY <1>11, <2>1, PhaseReached
  <2> QED
    BY <1>9, <1>11, <2>3, <2>4, UpdaterStep
<1> QED
  BY <1>9, <1>10, <1>11

LEMMA ProgressStep == ASSUME UpdatesInv, Progress PROVE UpdatesInv'
<1>1. PICK u : u = updater
  OBVIOUS
<1>2. u \in Updaters /\ Truly(u.phase, u.id, reached)
  BY <1>1, NodeTypes
<1>3. u.phase \in {"downloading", "trial"} /\ UNCHANGED <<clock, entry, call, link>>
  BY <1>1 DEF Progress, serverVars
<1>4. u.id \in 1..UpdateIds
  BY <1>2, <1>3 DEF Truly, Reported
<1>5. CASE updater' = [updater EXCEPT !.cap = "manual_recovery"] /\ reached' = reached
  <2>1. PICK held : held = [u EXCEPT !.cap = "manual_recovery"]
    OBVIOUS
  <2>2. held \in Updaters /\ held.phase = u.phase /\ held.id = u.id
    BY <1>2, <2>1 DEF Updaters
  <2>3. Grows
    BY <1>5 DEF Grows
  <2>4. updater' = held
    BY <1>1, <1>5, <2>1
  <2>5. /\ updater' \in Updaters /\ Truly(updater'.phase, updater'.id, reached')
        /\ reached' \in [1..UpdateIds -> SUBSET RemotePhases]
    BY <1>2, <1>5, <2>2, <2>4, NodeTypes
  <2> QED
    BY <1>3, <2>3, <2>5, UpdaterStep
<1>6. ASSUME NEW phase \in {"trial", "committed", "failed", "rolled_back"}, Publish(phase)
      PROVE  UpdatesInv'
  <2>1. phase \in RemotePhases
    BY DEF RemotePhases, InProgressPhases, Outcomes
  <2>2. PICK moved : moved = [u EXCEPT !.phase = phase]
    OBVIOUS
  <2>3. moved \in Updaters /\ moved.phase = phase /\ moved.id = u.id
    BY <1>2, <2>1, <2>2 DEF Updaters
  <2>4. updater' = moved /\ reached' = [reached EXCEPT ![u.id] = @ \cup {phase}]
    BY <1>1, <1>6, <2>2 DEF Publish
  <2>5. /\ reached' \in [1..UpdateIds -> SUBSET RemotePhases]
        /\ Grows /\ Truly(phase, u.id, reached')
    BY <1>4, <2>1, <2>4, PhaseReached
  <2> QED
    BY <1>3, <2>3, <2>4, <2>5, UpdaterStep
<1> QED
  BY <1>5, <1>6 DEF Progress

LEMMA ElapseStep == ASSUME UpdatesInv, Elapse PROVE UpdatesInv'
<1>1. UNCHANGED <<entry, call, link, updater, reached>> /\ clock' = clock + 1
  BY DEF Elapse, serverVars
<1>2. Grows /\ clock' \in Nat
  BY <1>1, NodeTypes DEF Grows
<1> QED
  BY <1>1, <1>2, SameLinks, CallTypes, NodeTypes, EntryIsTrue, NodeStep

-----------------------------------------------------------------------------
(* An administrator asks: what was shown goes, and the new request waits.  *)
LEMMA LapsedIsTrue == UpdatesInv => EntryTrue(Lapsed(entry), reached)
<1> SUFFICES ASSUME UpdatesInv PROVE EntryTrue(Lapsed(entry), reached)
  OBVIOUS
<1>1. PICK e : e = entry
  OBVIOUS
<1>2. EntryTrue(e, reached)
  BY <1>1, EntryIsTrue
<1>3. PICK f : f = [e EXCEPT !.status.phase = "unknown"]
  OBVIOUS
<1>4. e \in Entries
  BY <1>2 DEF EntryTrue
<1>5. /\ f \in Entries /\ f.request = e.request /\ f.status.phase = "unknown"
      /\ f.status.id = e.status.id
  BY <1>3, <1>4 DEF Entries, Told, RemotePhases
<1>6. EntryTrue(f, reached)
  BY <1>2, <1>5 DEF EntryTrue, Truly, Reported, Outcomes
<1>7. Lapsed(e) \in {e, f}
  BY <1>3 DEF Lapsed
<1> QED
  BY <1>1, <1>2, <1>6, <1>7

LEMMA ReserveStep == ASSUME UpdatesInv, NEW i \in 1..UpdateIds, Reserve(i) PROVE UpdatesInv'
<1>1. PICK e : e = Lapsed(entry)
  OBVIOUS
<1>2. EntryTrue(e, reached)
  BY <1>1, LapsedIsTrue
<1>3. PICK request : request = [id |-> i, expires |-> clock + Lifetime]
  OBVIOUS
<1>4. PICK now \in Int : now = clock
  BY NodeTypes
<1>5. request \in SentRequests /\ request.id = i
  BY <1>3, NodeTypes, UpdateNames DEF SentRequests
<1>6. PICK f : f = [e EXCEPT !.requested = now, !.request = request,
                             !.status.phase = "queued", !.status.id = i]
  OBVIOUS
<1>7. /\ UNCHANGED <<clock, link, updater>> /\ reached[i] = {}
      /\ \/ /\ entry' = f /\ call' = [stage |-> "reserved", request |-> request]
            /\ reached' = [reached EXCEPT ![i] = {"queued"}]
         \/ entry' = e /\ UNCHANGED <<call, reached>>
  BY <1>1, <1>3, <1>4, <1>6 DEF Reserve
<1>8. CASE entry' = e /\ UNCHANGED <<call, reached>>
  BY <1>2, <1>7, <1>8, SameLinks, CallTypes, ServerStep
<1>9. CASE /\ entry' = f /\ call' = [stage |-> "reserved", request |-> request]
           /\ reached' = [reached EXCEPT ![i] = {"queued"}]
  <2>1. "queued" \in RemotePhases
    BY DEF RemotePhases, InProgressPhases
  <2>2. reached' = [reached EXCEPT ![i] = @ \cup {"queued"}]
    BY <1>7, <1>9
  <2>3. /\ reached' \in [1..UpdateIds -> SUBSET RemotePhases] /\ Grows
    BY <2>1, <2>2, PhaseReached
  <2>4. e \in Entries
    BY <1>2 DEF EntryTrue
  <2>5. PICK status : status = [e.status EXCEPT !.phase = "queued", !.id = i]
    OBVIOUS
  <2>6. e.status \in Told /\ i \in 0..UpdateIds
    BY <2>4 DEF Entries
  <2>7. status \in Told /\ status.phase = "queued" /\ status.id = i
    BY <2>1, <2>5, <2>6 DEF Told
  <2>8. f = [e EXCEPT !.requested = now, !.request = request, !.status = status]
    BY <1>6, <2>4, <2>5, <2>6 DEF Entries, Told
  <2>9. f \in Entries /\ f.status = status /\ f.request = request
    <3>1. request \in SentRequests \cup {NoRequest}
      BY <1>5
    <3> QED
      BY <2>4, <2>7, <2>8, <3>1 DEF Entries
  <2>10. EntryTrue(f, reached')
    BY <1>5, <2>7, <2>9 DEF EntryTrue, Truly, Reported, Outcomes
  <2>11. Truly(updater'.phase, updater'.id, reached')
    BY <1>7, <2>3, NodeTypes, TruthStays
  <2>12. /\ call' \in [stage : {"none", "reserved", "undelivered"}, request : SentRequests \cup {NoRequest}]
         /\ call'.request \in SentRequests
    BY <1>5, <1>9
  <2> QED
    BY <1>7, <1>9, <2>3, <2>10, <2>11, <2>12, SameLinks, NodeTypes, NodeStep
<1> QED
  BY <1>7, <1>8, <1>9

LEMMA UpdatesStart == UpdatesInit => UpdatesInv
<1> SUFFICES ASSUME UpdatesInit PROVE UpdatesInv
  OBVIOUS
<1>1. /\ clock = 0 /\ entry = NoUpdates /\ call = NoCall
      /\ link = [s \in 1..Links |-> NewLink] /\ updater = IdleUpdater
      /\ reached = [i \in 1..UpdateIds |-> {}]
  BY DEF UpdatesInit
<1>2. /\ call \in [stage : {"none", "reserved", "undelivered"}, request : SentRequests \cup {NoRequest}]
      /\ call.stage = "none"
  BY <1>1 DEF NoCall
<1>3. updater \in Updaters /\ updater.phase = "idle"
  BY <1>1, UpdateRequestsAssumption DEF IdleUpdater, Updaters, RemotePhases
<1>4. \A s \in 1..Links : link[s] = NewLink /\ link[s].up = <<>>
  BY <1>1, UpdateNames
<1>5. /\ link \in [1..Links -> LinkStates]
      /\ \A s \in 1..Links : \A i \in DOMAIN link[s].up : FALSE
  BY <1>1, <1>4, UpdateNames
<1>6. UpdateTypes
  BY <1>1, <1>2, <1>3, <1>5, UpdateNames DEF UpdateTypes
<1>7. Truth
  BY <1>1, <1>3, <1>5, UpdateNames DEF Truth, Truly, Reported, Outcomes
<1>8. OfLast
  BY <1>1, UpdateNames DEF OfLast
<1> QED
  BY <1>6, <1>7, <1>8 DEF UpdatesInv

LEMMA UpdatesGoOn == UpdatesInv /\ [UpdatesNext]_updateVars => UpdatesInv'
<1> SUFFICES ASSUME UpdatesInv, [UpdatesNext]_updateVars PROVE UpdatesInv'
  OBVIOUS
<1>1. CASE UNCHANGED updateVars
  BY <1>1, SameLinks, CallTypes, EntryIsTrue, ServerStep DEF updateVars
<1>2. CASE UpdatesNext
  BY <1>2, RestartServerStep, ForgetUpdatesStep, ReserveStep, DeliverStep, DeliveryFailedStep,
     BeginUpdateSessionStep, BreakStep, EndUpdateSessionStep, SendRequestStep, ReceiveStatusStep,
     ReportStatusStep, TakeRequestStep, AcceptRequestStep, ProgressStep, ElapseStep, Zenon
     DEF UpdatesNext
<1> QED
  BY <1>1, <1>2

(* The button is offered exactly when the next request would be taken.     *)
LEMMA ButtonIsHonest == UpdatesInv => (CanUpdate(entry) <=> Reservable(Lapsed(entry)))
<1> SUFFICES ASSUME UpdatesInv PROVE CanUpdate(entry) <=> Reservable(Lapsed(entry))
  OBVIOUS
<1>1. PICK e : e = entry
  OBVIOUS
<1>2. e \in Entries /\ clock \in Nat
  BY <1>1 DEF UpdatesInv, UpdateTypes
<1>3. e.status.next \in Nat /\ e.requested \in Int
  BY <1>2 DEF Entries, Told
<1>4. CASE Expired(e)
  <2>1. PICK f : f = [e EXCEPT !.status.phase = "unknown"]
    OBVIOUS
  <2>2. /\ f.online = e.online /\ f.reported = e.reported /\ f.requested = e.requested
        /\ f.status.cap = e.status.cap /\ f.status.next = e.status.next
        /\ f.status.phase = "unknown"
    BY <1>2, <2>1 DEF Entries, Told
  <2>3. Lapsed(e) = f /\ ShownPhase(e) = "unknown"
    BY <1>4, <2>1 DEF Lapsed, ShownPhase
  <2>4. Lapsed(f) = f
    BY <2>2 DEF Lapsed, Expired
  <2>5. ~Busy(f) /\ ShownPhase(e) \notin InProgressPhases
    BY <2>2, <2>3 DEF Busy, InProgressPhases
  <2>6. Available(f) <=> Available(e)
    BY <2>2 DEF Available
  <2>7. RateLimited(f) <=> RateLimited(e)
    BY <2>2 DEF RateLimited
  <2>8. ~RateLimited(e) <=> CoolAt(e.requested) /\ clock >= e.status.next
    BY <1>2, <1>3 DEF RateLimited
  <2>9. CanUpdate(e) <=> Available(e) /\ ~RateLimited(e)
    BY <2>5, <2>8, Zenon DEF CanUpdate, Available
  <2>10. Reservable(f) <=> Available(e) /\ ~RateLimited(e)
    BY <2>4, <2>5, <2>6, <2>7 DEF Reservable
  <2> QED
    BY <1>1, <2>3, <2>9, <2>10
<1>5. CASE ~Expired(e)
  <2>1. Lapsed(e) = e /\ ShownPhase(e) = e.status.phase
    BY <1>5 DEF Lapsed, ShownPhase
  <2> QED
    BY <1>1, <1>2, <1>3, <2>1 DEF CanUpdate, Reservable, Available, Busy, RateLimited
<1> QED
  BY <1>4, <1>5

(* Every status the panel shows is about the request made last, an outcome *)
(* it shows was reached for that request, and the button is honest: of     *)
(* UpdatesSpec, whatever the number of requests, sessions, restarts and    *)
(* however late reports arrive (agent_updates.rs, record, view, reserve).  *)
THEOREM OutcomesTrue == UpdatesSpec => []OutcomesAreTrue
<1>1. UpdatesInv => OutcomesAreTrue
  <2> SUFFICES ASSUME UpdatesInv PROVE OutcomesAreTrue
    OBVIOUS
  <2>1. entry.request # NoRequest => entry.status.id = entry.request.id
    BY DEF UpdatesInv, OfLast
  <2>2. PICK shown : shown = ShownPhase(entry)
    OBVIOUS
  <2>3. shown \in Reported => shown = entry.status.phase
    BY <2>2 DEF ShownPhase, Reported, Outcomes
  <2>4. Truly(entry.status.phase, entry.status.id, reached)
    BY EntryIsTrue DEF EntryTrue
  <2>5. shown \in Reported => entry.status.id # 0 /\ shown \in reached[entry.status.id]
    BY <2>3, <2>4 DEF Truly
  <2>6. CanUpdate(entry) <=> Reservable(Lapsed(entry))
    BY ButtonIsHonest
  <2> QED
    BY <2>1, <2>2, <2>5, <2>6, Zenon DEF OutcomesAreTrue, Reported
<1> QED
  BY <1>1, UpdatesStart, UpdatesGoOn, PTL DEF UpdatesSpec

(* ---- the settings and their file ---- *)

(* A rule and an alerts section, as far as what follows goes.              *)
IsRule(r) == r \in [id : {r.id}, padded : BOOLEAN, window : Int, scope : {r.scope}]
IsRules(rules) ==
  /\ rules \in Seq({rules[i] : i \in DOMAIN rules})
  /\ \A i \in DOMAIN rules : IsRule(rules[i])
IsAlerts(a) ==
  /\ a \in [channel : {a.channel}, secret : {a.secret}, rules : {a.rules}, lookback : Int]
  /\ IsRules(a.rules)

Filled(ch) == [c \in Channels |-> IF ch[c] = "padded" THEN "filled" ELSE ch[c]]

(* The rules change each by itself.                                        *)
PlainRules(rules) == [i \in DOMAIN rules |-> Plain(rules[i])]
ClampedRules(rules) == [i \in DOMAIN rules |-> ClampedRule(rules[i])]

LEMMA PartsOfAlerts ==
  ASSUME NEW a, IsAlerts(a)
  PROVE  /\ Clamped(a) = [a EXCEPT !.rules = ClampedRules(a.rules), !.lookback = Clamp(a.lookback)]
         /\ Validated(a) = [a EXCEPT !.channel = Filled(a.channel), !.rules = PlainRules(a.rules)]
BY DEF IsAlerts, Clamped, ClampedRules, Validated, Filled, PlainRules

LEMMA WindowsClamp ==
  ASSUME NEW n \in Int
  PROVE  /\ Clamp(n) \in Int /\ Clamp(Clamp(n)) = Clamp(n)
         /\ n > 0 => Clamp(n) > 0
BY SettingsAssumption DEF Clamp

LEMMA RulesPart ==
  ASSUME NEW r, IsRule(r)
  PROVE  /\ IsRule(Plain(r)) /\ Plain(r).window = r.window /\ Plain(r).scope = r.scope
         /\ Plain(Plain(r)) = Plain(r)
         /\ IsRule(ClampedRule(r)) /\ ClampedRule(r).window = Clamp(r.window)
         /\ ClampedRule(r).scope = r.scope
         /\ ClampedRule(ClampedRule(r)) = ClampedRule(r)
         /\ Plain(ClampedRule(Plain(r))) = ClampedRule(Plain(r))
         /\ ClampedRule(r) = r => ClampedRule(Plain(r)) = Plain(r)
<1>1. PICK w \in Int : w = Clamp(r.window)
  BY WindowsClamp DEF IsRule
<1>2. Clamp(w) = w
  BY <1>1, WindowsClamp DEF IsRule
<1>3. PICK p : p = [r EXCEPT !.padded = FALSE]
  OBVIOUS
<1>4. PICK c : c = [r EXCEPT !.window = w]
  OBVIOUS
<1>5. PICK b : b = [p EXCEPT !.window = w]
  OBVIOUS
<1>6. Plain(r) = p /\ ClampedRule(r) = c
  BY <1>1, <1>3, <1>4 DEF Plain, ClampedRule
<1>7. /\ IsRule(p) /\ p.window = r.window /\ p.scope = r.scope /\ p.id = r.id /\ ~p.padded
      /\ IsRule(c) /\ c.window = w /\ c.scope = r.scope /\ c.id = r.id /\ c.padded = r.padded
  BY <1>3, <1>4 DEF IsRule
<1>8. /\ IsRule(b) /\ b.window = w /\ b.scope = r.scope /\ b.id = r.id /\ ~b.padded
  BY <1>5, <1>7 DEF IsRule
<1>9. ClampedRule(p) = b
  BY <1>1, <1>5, <1>7 DEF ClampedRule
<1>10. Plain(p) = p /\ Plain(b) = b
  BY <1>7, <1>8 DEF Plain, IsRule
<1>11. ClampedRule(c) = c
  BY <1>2, <1>7 DEF ClampedRule, IsRule
<1>12. c = r => b = p
  BY <1>5, <1>7 DEF IsRule
<1> QED
  BY <1>1, <1>6, <1>7, <1>9, <1>8, <1>10, <1>11, <1>12

(* A function is what it is at each place.                                 *)
LEMMA Alike ==
  ASSUME NEW f, NEW g, f = [i \in DOMAIN f |-> f[i]], g = [i \in DOMAIN g |-> g[i]],
         DOMAIN f = DOMAIN g, \A i \in DOMAIN f : f[i] = g[i]
  PROVE  f = g
OBVIOUS

LEMMA EveryRule ==
  ASSUME NEW rules, rules = [i \in DOMAIN rules |-> rules[i]],
         \A i \in DOMAIN rules : IsRule(rules[i])
  PROVE  LET p == PlainRules(rules) c == ClampedRules(rules) b == ClampedRules(p) IN
         /\ \A q \in {p, c, b} : /\ DOMAIN q = DOMAIN rules /\ q = [i \in DOMAIN q |-> q[i]]
                                 /\ \A i \in DOMAIN q : IsRule(q[i]) /\ q[i].scope = rules[i].scope
         /\ \A i \in DOMAIN rules : /\ p[i].window = rules[i].window
                                    /\ b[i].window = Clamp(rules[i].window)
         /\ PlainRules(p) = p /\ PlainRules(b) = b /\ ClampedRules(b) = b
         /\ c = rules => b = p
<1> DEFINE p == PlainRules(rules)
           c == ClampedRules(rules)
           b == ClampedRules(p)
<1>1. /\ DOMAIN p = DOMAIN rules /\ p = [i \in DOMAIN p |-> p[i]]
      /\ \A i \in DOMAIN rules : p[i] = Plain(rules[i])
  BY DEF PlainRules
<1>2. /\ DOMAIN c = DOMAIN rules /\ c = [i \in DOMAIN c |-> c[i]]
      /\ \A i \in DOMAIN rules : c[i] = ClampedRule(rules[i])
  BY DEF ClampedRules
<1>3. /\ DOMAIN b = DOMAIN rules /\ b = [i \in DOMAIN b |-> b[i]]
      /\ \A i \in DOMAIN rules : b[i] = ClampedRule(Plain(rules[i]))
  BY <1>1 DEF ClampedRules
<1>4. /\ DOMAIN PlainRules(p) = DOMAIN rules
      /\ PlainRules(p) = [i \in DOMAIN PlainRules(p) |-> PlainRules(p)[i]]
      /\ \A i \in DOMAIN rules : PlainRules(p)[i] = Plain(p[i])
  BY <1>1 DEF PlainRules
<1>5. /\ DOMAIN PlainRules(b) = DOMAIN rules
      /\ PlainRules(b) = [i \in DOMAIN PlainRules(b) |-> PlainRules(b)[i]]
      /\ \A i \in DOMAIN rules : PlainRules(b)[i] = Plain(b[i])
  BY <1>3 DEF PlainRules
<1>6. /\ DOMAIN ClampedRules(b) = DOMAIN rules
      /\ ClampedRules(b) = [i \in DOMAIN ClampedRules(b) |-> ClampedRules(b)[i]]
      /\ \A i \in DOMAIN rules : ClampedRules(b)[i] = ClampedRule(b[i])
  BY <1>3 DEF ClampedRules
<1> HIDE DEF p, c, b
<1>7. \A i \in DOMAIN rules :
        /\ IsRule(p[i]) /\ p[i].window = rules[i].window /\ p[i].scope = rules[i].scope
        /\ Plain(p[i]) = p[i]
  BY <1>1, RulesPart
<1>8. \A i \in DOMAIN rules :
        /\ IsRule(b[i]) /\ b[i].window = Clamp(rules[i].window) /\ b[i].scope = rules[i].scope
        /\ Plain(b[i]) = b[i] /\ ClampedRule(b[i]) = b[i]
  BY <1>1, <1>3, <1>7, RulesPart
<1>9. \A i \in DOMAIN rules : IsRule(c[i]) /\ c[i].scope = rules[i].scope
  BY <1>2, RulesPart
<1>10. PlainRules(p) = p
  BY <1>1, <1>4, <1>7, Alike
<1>11. PlainRules(b) = b
  BY <1>3, <1>5, <1>8, Alike
<1>12. ClampedRules(b) = b
  BY <1>3, <1>6, <1>8, Alike
<1>13. ASSUME c = rules PROVE b = p
  <2>1. \A i \in DOMAIN rules : ClampedRule(rules[i]) = rules[i]
    BY <1>2, <1>13
  <2>2. \A i \in DOMAIN rules : b[i] = p[i]
    BY <1>1, <1>3, <2>1, RulesPart
  <2> QED
    BY <1>1, <1>3, <2>2, Alike
<1> QED
  BY <1>1, <1>2, <1>3, <1>7, <1>8, <1>9, <1>10, <1>11, <1>12, <1>13 DEF p, c, b

LEMMA SameLength ==
  ASSUME NEW rules, IsRules(rules), NEW q, DOMAIN q = DOMAIN rules, q = [i \in DOMAIN q |-> q[i]],
         \A i \in DOMAIN q : IsRule(q[i])
  PROVE  IsRules(q) /\ Len(q) = Len(rules)
<1> DEFINE T == {q[i] : i \in DOMAIN q}
<1>1. PICK n \in Nat : n = Len(rules) /\ DOMAIN rules = 1..n
  BY LenProperties DEF IsRules
<1>2. q \in [1..n -> T]
  BY <1>1
<1>3. q \in Seq(T)
  BY <1>2
<1>4. Len(q) \in Nat /\ DOMAIN q = 1..Len(q)
  BY <1>3, LenProperties
<1>5. Len(q) = n
  BY <1>1, <1>4
<1> QED
  BY <1>1, <1>3, <1>5 DEF IsRules

LEMMA ChannelsFill ==
  ASSUME NEW ch
  PROVE  /\ Filled(Filled(ch)) = Filled(ch)
         /\ \A c \in Channels : Filled(ch)[c] = "blank" <=> ch[c] = "blank"
<1>1. \A c \in Channels : Filled(ch)[c] = IF ch[c] = "padded" THEN "filled" ELSE ch[c]
  BY DEF Filled
<1>2. \A c \in Channels : Filled(ch)[c] # "padded"
  BY <1>1
<1> QED
  BY <1>1, <1>2 DEF Filled

(* What loading makes of a section stays as it is when it is loaded again, *)
(* and is accepted if the section was.                                     *)
LEMMA AlertsLoad ==
  ASSUME NEW a, IsAlerts(a)
  PROVE  /\ IsAlerts(LoadedAlerts(a))
         /\ Clamped(LoadedAlerts(a)) = LoadedAlerts(a)
         /\ Validated(LoadedAlerts(a)) = LoadedAlerts(a)
         /\ AcceptsAlerts(a) => AcceptsAlerts(LoadedAlerts(a))
         /\ Clamped(a) = a => LoadedAlerts(a) = Validated(a)
<1>1. PICK rules : rules = a.rules
  OBVIOUS
<1>2. IsRules(rules) /\ a \in [channel : {a.channel}, secret : {a.secret}, rules : {rules}, lookback : Int]
  BY <1>1 DEF IsAlerts
<1>3. PICK p : p = PlainRules(rules)
  OBVIOUS
<1>4. PICK b : b = ClampedRules(p)
  OBVIOUS
<1>5. rules = [i \in DOMAIN rules |-> rules[i]]
  BY <1>2 DEF IsRules
<1>6. /\ \A q \in {p, b} : /\ DOMAIN q = DOMAIN rules /\ q = [i \in DOMAIN q |-> q[i]]
                           /\ \A i \in DOMAIN q : IsRule(q[i]) /\ q[i].scope = rules[i].scope
      /\ \A i \in DOMAIN rules : b[i].window = Clamp(rules[i].window)
      /\ PlainRules(p) = p /\ PlainRules(b) = b /\ ClampedRules(b) = b
      /\ ClampedRules(rules) = rules => b = p
  BY <1>2, <1>3, <1>4, <1>5, EveryRule DEF IsRules
<1>7. IsRules(p) /\ IsRules(b) /\ Len(b) = Len(rules)
  BY <1>2, <1>6, SameLength
<1>8. PICK ch : ch = Filled(a.channel)
  OBVIOUS
<1>9. PICK n \in Int : n = Clamp(a.lookback)
  BY <1>2, WindowsClamp
<1>10. PICK v : v = [a EXCEPT !.channel = ch, !.rules = p]
  OBVIOUS
<1>11. PICK l : l = [v EXCEPT !.rules = b, !.lookback = n]
  OBVIOUS
<1>12. /\ v \in [channel : {ch}, secret : {a.secret}, rules : {p}, lookback : Int]
       /\ v.channel = ch /\ v.rules = p /\ v.lookback = a.lookback /\ v.secret = a.secret
  BY <1>2, <1>10
<1>13. /\ l \in [channel : {ch}, secret : {a.secret}, rules : {b}, lookback : Int]
       /\ l.channel = ch /\ l.rules = b /\ l.lookback = n /\ l.secret = a.secret
  BY <1>11, <1>12
<1>14. IsAlerts(v) /\ IsAlerts(l)
  BY <1>7, <1>12, <1>13 DEF IsAlerts
<1>15. Validated(a) = v
  BY <1>1, <1>3, <1>8, <1>10, PartsOfAlerts
<1>16. Clamped(v) = l
  BY <1>4, <1>9, <1>11, <1>12, <1>14, PartsOfAlerts
<1>17. LoadedAlerts(a) = l
  BY <1>15, <1>16 DEF LoadedAlerts
<1>18. Clamped(l) = l
  <2>1. Clamp(n) = n
    BY <1>2, <1>9, WindowsClamp
  <2>2. Clamped(l) = [l EXCEPT !.rules = b, !.lookback = n]
    BY <1>6, <1>13, <1>14, <2>1, PartsOfAlerts
  <2> QED
    BY <1>13, <2>2
<1>19. Validated(l) = l
  <2>1. Filled(l.channel) = ch
    BY <1>8, <1>13, ChannelsFill
  <2>2. PlainRules(l.rules) = b
    BY <1>6, <1>13
  <2>3. Validated(l) = [l EXCEPT !.channel = ch, !.rules = b]
    BY <1>14, <2>1, <2>2, PartsOfAlerts
  <2> QED
    BY <1>13, <2>3
<1>20. ASSUME AcceptsAlerts(a) PROVE AcceptsAlerts(l)
  <2>1. AcceptsSmtp(l) /\ AcceptsWebhook(l)
    BY <1>8, <1>13, <1>20, ChannelsFill DEF AcceptsAlerts, AcceptsSmtp, AcceptsWebhook, Channels
  <2>2. AcceptsInspection(l)
    BY <1>2, <1>9, <1>13, <1>20, WindowsClamp DEF AcceptsAlerts, AcceptsInspection
  <2>3. AcceptsRules(l.rules)
    <3>1. \A i \in DOMAIN rules : rules[i].window \in Int /\ rules[i].window > 0 /\ rules[i].scope # "nobody"
      BY <1>1, <1>2, <1>20 DEF AcceptsAlerts, AcceptsRules, AcceptsRule, IsRules, IsRule
    <3>2. \A i \in DOMAIN b : b[i].window > 0 /\ b[i].scope # "nobody"
      BY <1>6, <3>1, WindowsClamp
    <3> QED
      BY <1>1, <1>7, <1>13, <1>20, <3>2 DEF AcceptsAlerts, AcceptsRules, AcceptsRule
  <2> QED
    BY <2>1, <2>2, <2>3 DEF AcceptsAlerts
<1>21. ASSUME Clamped(a) = a PROVE l = v
  <2>1. a = [a EXCEPT !.rules = ClampedRules(rules), !.lookback = n]
    BY <1>1, <1>9, <1>21, PartsOfAlerts
  <2>2. ClampedRules(rules) = rules /\ n = a.lookback
    BY <1>1, <1>2, <2>1
  <2>3. b = p
    BY <1>6, <2>2
  <2> QED
    BY <1>11, <1>12, <2>2, <2>3
<1> QED
  BY <1>14, <1>15, <1>17, <1>18, <1>19, <1>20, <1>21

(* A login section: loading drops the space around its password.           *)
LEMMA PasswordsTrim ==
  ASSUME NEW p \in Password \cup {NoPassword}
  PROVE  /\ Trim(p) \in Password \cup {NoPassword} /\ Trim(Trim(p)) = Trim(p)
         /\ ~p.padded => Trim(p) = p
         /\ ~Trim(p).padded
<1>1. CASE p \in Password
  <2>1. PICK t : t = [p EXCEPT !.padded = FALSE]
    OBVIOUS
  <2>2. t \in Password /\ t.word = p.word /\ t.padded = FALSE
    BY <1>1, <2>1 DEF Password
  <2>3. [t EXCEPT !.padded = FALSE] = t
    BY <2>2 DEF Password
  <2>4. ~p.padded => t = p
    BY <1>1, <2>1, <2>2 DEF Password
  <2> QED
    BY <2>1, <2>2, <2>3, <2>4 DEF Trim
<1>2. CASE p = NoPassword
  <2>1. p = [word |-> "none", padded |-> FALSE]
    BY <1>2 DEF NoPassword
  <2>2. p \in [word : {"none"}, padded : BOOLEAN] /\ p.padded = FALSE
    BY <2>1
  <2>3. [p EXCEPT !.padded = FALSE] = p
    BY <2>2
  <2> QED
    BY <2>2, <2>3 DEF Trim
<1> QED
  BY <1>1, <1>2

LEMMA LoginsLoad ==
  ASSUME NEW a \in AuthSection
  PROVE  /\ LoadedAuth(a) \in AuthSection /\ LoadedAuth(LoadedAuth(a)) = LoadedAuth(a)
         /\ LoadedAuth(a).user = a.user /\ LoadedAuth(a).twofa = a.twofa
         /\ LoadedAuth(a).totp = a.totp /\ LoadedAuth(a).password = Trim(a.password)
         /\ ~a.password.padded => LoadedAuth(a) = a
<1>1. PICK p : p = Trim(a.password)
  OBVIOUS
<1>2. PICK l : l = [a EXCEPT !.password = p]
  OBVIOUS
<1>3. LoadedAuth(a) = l
  BY <1>1, <1>2 DEF LoadedAuth
<1>4. a.password \in Password \cup {NoPassword}
  BY DEF AuthSection
<1>5. p \in Password \cup {NoPassword} /\ Trim(p) = p /\ (~a.password.padded => p = a.password)
  BY <1>1, <1>4, PasswordsTrim
<1>6. /\ l \in AuthSection /\ l.user = a.user /\ l.twofa = a.twofa /\ l.totp = a.totp
      /\ l.password = p
  BY <1>2, <1>5 DEF AuthSection
<1>7. LoadedAuth(l) = [l EXCEPT !.password = p]
  BY <1>5, <1>6 DEF LoadedAuth
<1>8. LoadedAuth(l) = l
  BY <1>6, <1>7 DEF AuthSection
<1>9. ~a.password.padded => l = a
  BY <1>2, <1>5 DEF AuthSection
<1> QED
  BY <1>1, <1>3, <1>6, <1>8, <1>9

(* Two sections that load alike still do when both are changed alike.      *)
LEMMA PasswordChanges ==
  ASSUME NEW a \in AuthSection, NEW b \in AuthSection, NEW p \in Password
  PROVE  /\ [a EXCEPT !.password = p] \in AuthSection
         /\ LoadedAuth(a) = LoadedAuth(b) =>
              LoadedAuth([a EXCEPT !.password = p]) = LoadedAuth([b EXCEPT !.password = p])
         /\ [a EXCEPT !.password = p].user = a.user /\ [a EXCEPT !.password = p].twofa = a.twofa
         /\ [a EXCEPT !.password = p].totp = a.totp /\ [a EXCEPT !.password = p].password = p
<1>1. PICK u : u = [a EXCEPT !.password = p]
  OBVIOUS
<1>2. PICK v : v = [b EXCEPT !.password = p]
  OBVIOUS
<1>3. /\ u \in AuthSection /\ u.user = a.user /\ u.twofa = a.twofa /\ u.totp = a.totp
      /\ u.password = p
  BY <1>1 DEF AuthSection
<1>4. /\ v \in AuthSection /\ v.user = b.user /\ v.twofa = b.twofa /\ v.totp = b.totp
      /\ v.password = p
  BY <1>2 DEF AuthSection
<1>5. ASSUME LoadedAuth(a) = LoadedAuth(b) PROVE u = v
  <2>1. a.user = b.user /\ a.twofa = b.twofa /\ a.totp = b.totp
    BY <1>5, LoginsLoad
  <2> QED
    BY <1>3, <1>4, <2>1 DEF AuthSection
<1> QED
  BY <1>1, <1>2, <1>3, <1>5

WithCodes(a, on) == [a EXCEPT !.twofa = on, !.totp = on]

LEMMA CodesChange ==
  ASSUME NEW a \in AuthSection, NEW b \in AuthSection, NEW on \in BOOLEAN
  PROVE  /\ WithCodes(a, on) \in AuthSection /\ WithCodes(a, on).user = a.user
         /\ WithCodes(a, on).password = a.password
         /\ WithCodes(a, on).twofa => WithCodes(a, on).totp
         /\ LoadedAuth(a) = LoadedAuth(b) =>
              LoadedAuth(WithCodes(a, on)) = LoadedAuth(WithCodes(b, on))
<1>1. PICK u : u = [a EXCEPT !.twofa = on, !.totp = on]
  OBVIOUS
<1>2. PICK v : v = [b EXCEPT !.twofa = on, !.totp = on]
  OBVIOUS
<1>3. /\ u \in AuthSection /\ u.user = a.user /\ u.twofa = on /\ u.totp = on
      /\ u.password = a.password
  BY <1>1 DEF AuthSection
<1>4. /\ v \in AuthSection /\ v.user = b.user /\ v.twofa = on /\ v.totp = on
      /\ v.password = b.password
  BY <1>2 DEF AuthSection
<1>5. ASSUME LoadedAuth(a) = LoadedAuth(b) PROVE LoadedAuth(u) = LoadedAuth(v)
  <2>1. a.user = b.user /\ Trim(a.password) = Trim(b.password)
    BY <1>5, LoginsLoad
  <2>2. PICK x : x = LoadedAuth(u)
    OBVIOUS
  <2>3. PICK y : y = LoadedAuth(v)
    OBVIOUS
  <2>4. /\ x \in AuthSection /\ x.user = a.user /\ x.twofa = on /\ x.totp = on
        /\ x.password = Trim(a.password)
    BY <1>3, <2>2, LoginsLoad
  <2>5. /\ y \in AuthSection /\ y.user = b.user /\ y.twofa = on /\ y.totp = on
        /\ y.password = Trim(b.password)
    BY <1>4, <2>3, LoginsLoad
  <2>6. x = y
    BY <2>1, <2>4, <2>5 DEF AuthSection
  <2> QED
    BY <2>2, <2>3, <2>6
<1>6. WithCodes(a, on) = u /\ WithCodes(b, on) = v
  BY <1>1, <1>2 DEF WithCodes
<1> QED
  BY <1>3, <1>5, <1>6

(* What the operator writes and what a page asks for are such sections.    *)
LEMMA LoginsGiven == GoodAuth \in AuthSection /\ \A a \in AuthChoices : a \in AuthSection
<1>1. PICK p \in Password : p = [word |-> "strong", padded |-> FALSE]
  BY DEF Password
<1>2. PICK g : g = GoodAuth
  OBVIOUS
<1>3. g = [user |-> TRUE, password |-> p, twofa |-> FALSE, totp |-> FALSE]
  BY <1>1, <1>2 DEF GoodAuth
<1>4. g \in AuthSection
  BY <1>3 DEF AuthSection
<1>5. \A q \in Password : [g EXCEPT !.password = q] \in AuthSection
  BY <1>4 DEF AuthSection
<1>6. \A t \in BOOLEAN : [g EXCEPT !.twofa = TRUE, !.totp = t] \in AuthSection
  BY <1>4 DEF AuthSection
<1>7. [g EXCEPT !.user = FALSE, !.password = NoPassword] \in AuthSection
  <2>1. PICK none : none = NoPassword
    OBVIOUS
  <2>2. none \in Password \cup {NoPassword}
    BY <2>1
  <2>3. [g EXCEPT !.user = FALSE, !.password = none] \in AuthSection
    BY <1>4, <2>2 DEF AuthSection
  <2> QED
    BY <2>1, <2>3
<1>8. ASSUME NEW a \in AuthChoices PROVE a \in AuthSection
  BY <1>2, <1>5, <1>6, <1>7, <1>8 DEF AuthChoices
<1> QED
  BY <1>2, <1>4, <1>8

LEMMA RulesGiven ==
  /\ IsRules(<<GoodRule>>)
  /\ \A rules \in RuleChoices : IsRules(rules)
<1>1. GoodRule = [id |-> "a", padded |-> FALSE, window |-> 1, scope |-> "all"]
  BY DEF GoodRule, RuleOf
<1>2. IsRule(GoodRule) /\ GoodRule \in [id : {"a"}, padded : BOOLEAN, window : Int, scope : {"all"}]
  BY <1>1 DEF IsRule
<1>3. \A r : IsRule(r) => IsRules(<<r>>)
  BY DEF IsRules
<1>4. \A r, q : IsRule(r) /\ IsRule(q) => IsRules(<<r, q>>)
  BY DEF IsRules
<1>5. IsRules(<<>>)
  BY DEF IsRules
<1>6. \A w \in Int : IsRule([GoodRule EXCEPT !.window = w])
  BY <1>2 DEF IsRule
<1>7. IsRule([GoodRule EXCEPT !.scope = "nobody"])
  BY <1>2 DEF IsRule
<1>8. \A p \in BOOLEAN : IsRule([GoodRule EXCEPT !.padded = p])
  BY <1>2 DEF IsRule
<1>9. IsRules([i \in 1 .. MaxRules + 1 |-> RuleOf(<<"r", i>>, FALSE, 1, "all")])
  <2>1. PICK n \in Nat : n = MaxRules + 1
    BY SettingsAssumption
  <2>2. PICK rules : rules = [i \in 1..n |-> RuleOf(<<"r", i>>, FALSE, 1, "all")]
    OBVIOUS
  <2>3. \A i \in 1..n : IsRule(rules[i])
    BY <2>2 DEF IsRule, RuleOf
  <2>4. rules \in [1..n -> {rules[i] : i \in DOMAIN rules}]
    BY <2>2
  <2>5. rules \in Seq({rules[i] : i \in DOMAIN rules})
    BY <2>4
  <2> QED
    BY <2>1, <2>2, <2>3, <2>5 DEF IsRules
<1>10. MaxWindow \in Int /\ MaxWindow + 1 \in Int
  BY SettingsAssumption
<1>11. ASSUME NEW rules \in RuleChoices PROVE IsRules(rules)
  <2>1. CASE rules \in {<<>>} \/ rules = <<[GoodRule EXCEPT !.scope = "nobody"]>>
    BY <1>3, <1>5, <1>7, <2>1
  <2>2. ASSUME NEW w \in Int, rules = <<[GoodRule EXCEPT !.window = w]>> PROVE IsRules(rules)
    BY <1>3, <1>6, <2>2
  <2>3. ASSUME NEW p \in BOOLEAN, rules = <<GoodRule, [GoodRule EXCEPT !.padded = p]>> PROVE IsRules(rules)
    BY <1>2, <1>4, <1>8, <2>3
  <2>4. \/ rules \in {<<>>} \/ rules = <<[GoodRule EXCEPT !.scope = "nobody"]>>
        \/ \E w \in Int : rules = <<[GoodRule EXCEPT !.window = w]>>
        \/ \E p \in BOOLEAN : rules = <<GoodRule, [GoodRule EXCEPT !.padded = p]>>
        \/ rules = [i \in 1 .. MaxRules + 1 |-> RuleOf(<<"r", i>>, FALSE, 1, "all")]
    <3>1. \/ rules \in {<<>>}
          \/ rules \in {<<[GoodRule EXCEPT !.window = w]>> : w \in {0, MaxWindow, MaxWindow + 1}}
          \/ rules \in {<<[GoodRule EXCEPT !.scope = "nobody"]>>}
          \/ rules \in {<<GoodRule, [GoodRule EXCEPT !.padded = p]>> : p \in BOOLEAN}
          \/ rules \in {[i \in 1 .. MaxRules + 1 |-> RuleOf(<<"r", i>>, FALSE, 1, "all")]}
      BY <1>11, Zenon DEF RuleChoices
    <3>2. CASE rules \in {<<[GoodRule EXCEPT !.window = w]>> : w \in {0, MaxWindow, MaxWindow + 1}}
      <4>1. PICK w \in {0, MaxWindow, MaxWindow + 1} : rules = <<[GoodRule EXCEPT !.window = w]>>
        BY <3>2, Zenon
      <4>2. w \in Int
        BY <1>10
      <4> QED
        BY <4>1, <4>2, Zenon
    <3>3. CASE rules \in {<<GoodRule, [GoodRule EXCEPT !.padded = p]>> : p \in BOOLEAN}
      BY <3>3, Zenon
    <3> QED
      BY <3>1, <3>2, <3>3, Zenon
  <2> QED
    BY <1>9, <2>1, <2>2, <2>3, <2>4
<1> QED
  BY <1>2, <1>3, <1>11

LEMMA AlertsChange ==
  ASSUME NEW a, IsAlerts(a)
  PROVE  /\ \A rules : IsRules(rules) => IsAlerts([a EXCEPT !.rules = rules])
         /\ \A ch : IsAlerts([a EXCEPT !.channel = ch])
         /\ \A n \in Int : IsAlerts([a EXCEPT !.lookback = n])
         /\ \A s : IsAlerts([a EXCEPT !.secret = s])
BY DEF IsAlerts

LEMMA AlertsGiven ==
  /\ IsAlerts(GoodAlerts)
  /\ \A a \in AlertChoices : IsAlerts(a)
  /\ \A a \in AlertRequests : IsAlerts(Merged(a))
<1>1. IsAlerts(GoodAlerts)
  <2>1. PICK rules : rules = <<GoodRule>>
    OBVIOUS
  <2>2. PICK ch : ch = Given("filled")
    OBVIOUS
  <2>3. PICK g : g = [channel |-> ch, secret |-> "old", rules |-> rules, lookback |-> 1]
    OBVIOUS
  <2>4. GoodAlerts = g /\ IsRules(rules)
    BY <2>1, <2>2, <2>3, RulesGiven DEF GoodAlerts
  <2>5. IsAlerts(g)
    BY <2>3, <2>4 DEF IsAlerts
  <2> QED
    BY <2>4, <2>5
<1>2. ASSUME NEW a \in AlertChoices PROVE IsAlerts(a)
  <2>1. \/ \E rules \in RuleChoices : a = [GoodAlerts EXCEPT !.rules = rules]
        \/ \E ch : a = [GoodAlerts EXCEPT !.channel = ch]
        \/ \E n \in Int : a = [GoodAlerts EXCEPT !.lookback = n]
        \/ a = [GoodAlerts EXCEPT !.secret = "none"]
    BY <1>2, SettingsAssumption DEF AlertChoices
  <2> QED
    BY <1>1, <2>1, RulesGiven, AlertsChange
<1>3. \A a : \E s : Merged(a) = [a EXCEPT !.secret = s]
  BY DEF Merged
<1>4. ASSUME NEW a \in AlertRequests PROVE IsAlerts(a)
  <2>1. \/ \E b \in AlertChoices : a = [b EXCEPT !.secret = "keep"]
        \/ \E s : a = [GoodAlerts EXCEPT !.secret = s]
    BY <1>4 DEF AlertRequests, Shown
  <2> QED
    BY <1>1, <1>2, <2>1, AlertsChange
<1> QED
  BY <1>1, <1>2, <1>3, <1>4, AlertsChange

-----------------------------------------------------------------------------
(* The file, or the settings in force.                                     *)
IsToml(t) ==
  /\ t \in [auth : AuthSection, alerts : {t.alerts}, other : {t.other}]
  /\ IsAlerts(t.alerts)

(* A file loads as the settings f, but for the sections in ed.             *)
Agree(t, f, ed) ==
  /\ "alerts" \notin ed => LoadedAlerts(t.alerts) = Validated(f.alerts)
  /\ "auth" \notin ed => LoadedAuth(t.auth) = LoadedAuth(f.auth)
  /\ ed = {} => Parses(t)

(* Settings that may be in force.                                          *)
SoundSettings(f) ==
  /\ f.other.listen = "public" => f.auth.user
  /\ f.auth.twofa => f.auth.totp
  /\ AcceptsAlerts(f.alerts) /\ Clamped(f.alerts) = f.alerts
  /\ f.auth.user => Strong(f.auth.password)

(* A change under way: what it asks for, the settings once it is made, and *)
(* the operator's edits that it leaves.                                    *)
Changing == update # NoUpdate
MadeFrom(u, f) ==
  /\ u.kind = "password" =>
       \E p \in Password : Strong(p) /\ u.next = [f.auth EXCEPT !.password = p]
  /\ u.kind = "twofa" =>
       \E on \in BOOLEAN : u.next = WithCodes(f.auth, on)
  /\ u.kind = "alerts" => IsAlerts(u.next) /\ Clamped(u.next) = u.next
After(u, f) ==
  IF u.kind = "alerts" THEN [f EXCEPT !.alerts = u.next] ELSE [f EXCEPT !.auth = u.next]
Left(u, ed) == IF u.kind = "alerts" THEN ed \ {"alerts"} ELSE ed

ChangeTypes ==
  Changing =>
    /\ update \in [kind : {"password", "twofa", "alerts"}, next : {update.next},
                   at : {"asked", "written", "renamed"}, content : {update.content}]
    /\ running = "up" /\ MadeFrom(update, inForce) /\ IsToml(After(update, inForce))

SettingsTypes == IsToml(toml) /\ IsToml(inForce) /\ edited \subseteq DOMAIN SectionChoices

(* Until the file is replaced it agrees with what is in force; what is     *)
(* about to replace it, with what will be.                                 *)
InForceKept ==
  running = "up" /\ (Changing => update.at \in {"asked", "written"}) =>
    Agree(toml, inForce, edited)
ChangeKept ==
  Changing =>
    /\ update.at = "written" =>
         /\ IsToml(update.content) /\ Parses(update.content)
         /\ Agree(update.content, After(update, inForce), Left(update, edited))
         /\ SoundSettings(After(update, inForce))
    /\ update.at = "renamed" =>
         /\ Agree(toml, After(update, inForce), edited)
         /\ SoundSettings(After(update, inForce))

SettingsInv ==
  /\ SettingsTypes /\ ChangeTypes /\ InForceKept /\ ChangeKept
  /\ running = "up" => SoundSettings(inForce)

-----------------------------------------------------------------------------
LEMMA Sections == /\ DOMAIN SectionChoices = {"auth", "alerts", "other"}
                  /\ SectionChoices["auth"] = AuthChoices /\ SectionChoices["alerts"] = AlertChoices
BY DEF SectionChoices

LEMMA FirstFile == IsToml(GoodToml)
<1>1. PICK auth : auth = GoodAuth
  OBVIOUS
<1>2. PICK alerts : alerts = GoodAlerts
  OBVIOUS
<1>3. PICK other : other = GoodOther
  OBVIOUS
<1>4. PICK t : t = [auth |-> auth, alerts |-> alerts, other |-> other]
  OBVIOUS
<1>5. GoodToml = t /\ auth \in AuthSection /\ IsAlerts(alerts)
  BY <1>1, <1>2, <1>3, <1>4, LoginsGiven, AlertsGiven DEF GoodToml
<1>6. IsToml(t)
  BY <1>4, <1>5 DEF IsToml
<1> QED
  BY <1>5, <1>6

LEMMA FileLoads ==
  ASSUME NEW t, IsToml(t)
  PROVE  /\ IsToml(Loaded(t)) /\ Loaded(t).other = t.other
         /\ Loaded(t).auth = LoadedAuth(t.auth) /\ Loaded(t).alerts = LoadedAlerts(t.alerts)
<1>1. PICK auth : auth = LoadedAuth(t.auth)
  OBVIOUS
<1>2. PICK alerts : alerts = LoadedAlerts(t.alerts)
  OBVIOUS
<1>3. PICK other : other = t.other
  OBVIOUS
<1>4. PICK l : l = [auth |-> auth, alerts |-> alerts, other |-> other]
  OBVIOUS
<1>5. t.auth \in AuthSection /\ IsAlerts(t.alerts)
  BY DEF IsToml
<1>6. auth \in AuthSection /\ IsAlerts(alerts)
  BY <1>1, <1>2, <1>5, LoginsLoad, AlertsLoad
<1>7. Loaded(t) = l
  BY <1>1, <1>2, <1>3, <1>4 DEF Loaded
<1>8. IsToml(l) /\ l.auth = auth /\ l.alerts = alerts /\ l.other = other
  BY <1>4, <1>6 DEF IsToml
<1> QED
  BY <1>1, <1>2, <1>3, <1>7, <1>8

(* A server that starts runs what the file says, soundly.                  *)
LEMMA StartIsSound ==
  ASSUME NEW t, IsToml(t), Starts(t)
  PROVE  SoundSettings(Loaded(t)) /\ Agree(t, Loaded(t), {})
<1>1. PICK f : f = Loaded(t)
  OBVIOUS
<1>2. t.auth \in AuthSection /\ IsAlerts(t.alerts)
  BY DEF IsToml
<1>3. f.other = t.other /\ f.auth = LoadedAuth(t.auth) /\ f.alerts = LoadedAlerts(t.alerts)
  BY <1>1, FileLoads
<1>4. Parses(t) /\ AcceptsAuth(t.auth, t.other) /\ AcceptsAlerts(t.alerts)
  BY DEF Starts, Parses
<1>5. f.auth.user = t.auth.user /\ f.auth.twofa = t.auth.twofa /\ f.auth.totp = t.auth.totp
  BY <1>2, <1>3, LoginsLoad
<1>6. f.other.listen = "public" => f.auth.user
  BY <1>3, <1>4, <1>5 DEF AcceptsAuth
<1>7. f.auth.twofa => f.auth.totp
  BY <1>4, <1>5 DEF AcceptsAuth, TwoFactorFits
<1>8. /\ AcceptsAlerts(f.alerts) /\ Clamped(f.alerts) = f.alerts
      /\ LoadedAlerts(t.alerts) = Validated(f.alerts)
  BY <1>2, <1>3, <1>4, AlertsLoad
<1>9. f.auth.user => Strong(f.auth.password)
  BY <1>3, <1>5 DEF Starts
<1>10. LoadedAuth(t.auth) = LoadedAuth(f.auth)
  BY <1>2, <1>3, LoginsLoad
<1> QED
  BY <1>1, <1>4, <1>6, <1>7, <1>8, <1>9, <1>10 DEF SoundSettings, Agree

(* Edits only take from what is claimed.                                   *)
LEMMA EditsOnlyTake ==
  ASSUME NEW t, NEW f, NEW ed, NEW more, ed \subseteq more, Agree(t, f, ed)
  PROVE  Agree(t, f, more)
BY DEF Agree

LEMMA SavedSection ==
  ASSUME NEW t, IsToml(t), NEW section \in DOMAIN SectionChoices,
         NEW v \in SectionChoices[section]
  PROVE  /\ IsToml([t EXCEPT ![section] = v])
         /\ \A f, ed : Agree(t, f, ed) => Agree([t EXCEPT ![section] = v], f, ed \cup {section})
<1>1. PICK s : s = [t EXCEPT ![section] = v]
  OBVIOUS
<1>2. t \in [auth : AuthSection, alerts : {t.alerts}, other : {t.other}] /\ IsAlerts(t.alerts)
  BY DEF IsToml
<1>3. CASE section = "auth"
  <2>1. v \in AuthSection
    BY <1>3, Sections, LoginsGiven
  <2>2. s = [t EXCEPT !.auth = v]
    BY <1>1, <1>3
  <2>3. /\ s \in [auth : AuthSection, alerts : {t.alerts}, other : {t.other}]
        /\ s.alerts = t.alerts /\ s.other = t.other
    BY <1>2, <2>1, <2>2
  <2> QED
    BY <1>1, <1>2, <1>3, <2>3 DEF IsToml, Agree
<1>4. CASE section = "alerts"
  <2>1. IsAlerts(v)
    BY <1>4, Sections, AlertsGiven
  <2>2. s = [t EXCEPT !.alerts = v]
    BY <1>1, <1>4
  <2>3. /\ s \in [auth : AuthSection, alerts : {v}, other : {t.other}]
        /\ s.auth = t.auth /\ s.other = t.other /\ s.alerts = v
    BY <1>2, <2>2
  <2> QED
    BY <1>1, <1>2, <1>4, <2>1, <2>3 DEF IsToml, Agree
<1>5. CASE section = "other"
  <2>1. s = [t EXCEPT !.other = v]
    BY <1>1, <1>5
  <2>2. /\ s \in [auth : AuthSection, alerts : {t.alerts}, other : {v}]
        /\ s.auth = t.auth /\ s.alerts = t.alerts /\ s.other = v
    BY <1>2, <2>1
  <2> QED
    BY <1>1, <1>2, <1>5, <2>2 DEF IsToml, Agree
<1> QED
  BY <1>3, <1>4, <1>5, Sections

(* A change, made in the file and in the settings, keeps them alike.       *)
LEMMA LoginChanges ==
  ASSUME NEW t, IsToml(t), NEW a \in AuthSection
  PROVE  LET s == [t EXCEPT !.auth = a] IN
         IsToml(s) /\ s.auth = a /\ s.alerts = t.alerts /\ s.other = t.other
<1>1. PICK s : s = [t EXCEPT !.auth = a]
  OBVIOUS
<1>2. t \in [auth : AuthSection, alerts : {t.alerts}, other : {t.other}] /\ IsAlerts(t.alerts)
  BY DEF IsToml
<1>3. /\ s \in [auth : AuthSection, alerts : {t.alerts}, other : {t.other}]
      /\ s.auth = a /\ s.alerts = t.alerts /\ s.other = t.other
  BY <1>1, <1>2
<1>4. IsToml(s)
  BY <1>2, <1>3 DEF IsToml
<1> QED
  BY <1>1, <1>3, <1>4

LEMMA AlertsReplaced ==
  ASSUME NEW t, IsToml(t), NEW a, IsAlerts(a)
  PROVE  LET s == [t EXCEPT !.alerts = a] IN
         IsToml(s) /\ s.auth = t.auth /\ s.alerts = a /\ s.other = t.other
<1>1. PICK s : s = [t EXCEPT !.alerts = a]
  OBVIOUS
<1>2. t \in [auth : AuthSection, alerts : {t.alerts}, other : {t.other}] /\ t.auth \in AuthSection
  BY DEF IsToml
<1>3. /\ s \in [auth : AuthSection, alerts : {a}, other : {t.other}]
      /\ s.auth = t.auth /\ s.alerts = a /\ s.other = t.other
  BY <1>1, <1>2
<1>4. IsToml(s)
  BY <1>3 DEF IsToml
<1> QED
  BY <1>1, <1>3, <1>4

LEMMA ChangeApplies ==
  ASSUME NEW t, NEW f, NEW u, NEW ed, IsToml(t), IsToml(f),
         u.kind \in {"password", "twofa", "alerts"}, MadeFrom(u, f), Agree(t, f, ed),
         SoundSettings(f), Parses(WithSection(t, u))
  PROVE  /\ IsToml(WithSection(t, u)) /\ Agree(WithSection(t, u), After(u, f), Left(u, ed))
         /\ SoundSettings(After(u, f))
<1>1. t.auth \in AuthSection /\ f.auth \in AuthSection
  BY DEF IsToml
<1>2. CASE u.kind = "alerts"
  <2>1. PICK a : a = u.next
    OBVIOUS
  <2>2. IsAlerts(a) /\ Clamped(a) = a
    BY <1>2, <2>1 DEF MadeFrom
  <2>3. PICK s : s = [t EXCEPT !.alerts = a]
    OBVIOUS
  <2>4. PICK g : g = [f EXCEPT !.alerts = a]
    OBVIOUS
  <2>5. WithSection(t, u) = s /\ After(u, f) = g /\ Left(u, ed) = ed \ {"alerts"}
    BY <1>2, <2>1, <2>3, <2>4 DEF WithSection, After, Left
  <2>6. IsToml(s) /\ s.auth = t.auth /\ s.alerts = a
    BY <2>2, <2>3, AlertsReplaced
  <2>7. IsToml(g) /\ g.auth = f.auth /\ g.alerts = a /\ g.other = f.other
    BY <2>2, <2>4, AlertsReplaced
  <2>8. LoadedAlerts(a) = Validated(a)
    BY <2>2, AlertsLoad
  <2>9. Parses(s) /\ AcceptsAlerts(a)
    BY <2>5, <2>6 DEF Parses
  <2>10. Agree(s, g, ed \ {"alerts"})
    BY <2>6, <2>7, <2>8, <2>9 DEF Agree
  <2>11. SoundSettings(g)
    BY <2>2, <2>7, <2>9 DEF SoundSettings
  <2> QED
    BY <2>5, <2>6, <2>10, <2>11
<1>3. ASSUME u.kind # "alerts",
             NEW b \in AuthSection, u.next = b, NEW c \in AuthSection,
             WithSection(t, u) = [t EXCEPT !.auth = c],
             LoadedAuth(t.auth) = LoadedAuth(f.auth) => LoadedAuth(c) = LoadedAuth(b),
             b.user = f.auth.user, b.twofa => b.totp,
             b.user => Strong(b.password)
      PROVE  /\ IsToml(WithSection(t, u)) /\ Agree(WithSection(t, u), After(u, f), Left(u, ed))
             /\ SoundSettings(After(u, f))
  <2>1. PICK s : s = [t EXCEPT !.auth = c]
    OBVIOUS
  <2>2. PICK g : g = [f EXCEPT !.auth = b]
    OBVIOUS
  <2>3. WithSection(t, u) = s /\ After(u, f) = g /\ Left(u, ed) = ed
    BY <1>3, <2>1, <2>2 DEF After, Left
  <2>4. IsToml(s) /\ s.auth = c /\ s.alerts = t.alerts
    BY <2>1, LoginChanges
  <2>5. IsToml(g) /\ g.auth = b /\ g.alerts = f.alerts /\ g.other = f.other
    BY <2>2, LoginChanges
  <2>6. Parses(s)
    BY <2>3
  <2>7. Agree(s, g, ed)
    BY <1>3, <2>4, <2>5, <2>6 DEF Agree
  <2>8. SoundSettings(g)
    BY <1>3, <2>5 DEF SoundSettings
  <2> QED
    BY <2>3, <2>4, <2>7, <2>8
<1>4. CASE u.kind = "password"
  <2>1. PICK p \in Password : Strong(p) /\ u.next = [f.auth EXCEPT !.password = p]
    BY <1>4 DEF MadeFrom
  <2>2. PICK b : b = [f.auth EXCEPT !.password = p]
    OBVIOUS
  <2>3. PICK c : c = [t.auth EXCEPT !.password = p]
    OBVIOUS
  <2>4. /\ b \in AuthSection /\ b.user = f.auth.user /\ b.twofa = f.auth.twofa
        /\ b.totp = f.auth.totp /\ b.password = p
    BY <1>1, <2>2, PasswordChanges
  <2>5. c \in AuthSection /\ (LoadedAuth(t.auth) = LoadedAuth(f.auth) => LoadedAuth(c) = LoadedAuth(b))
    BY <1>1, <2>2, <2>3, PasswordChanges
  <2>6. WithSection(t, u) = [t EXCEPT !.auth = c]
    <3>1. t \in [auth : AuthSection, alerts : {t.alerts}, other : {t.other}]
      BY DEF IsToml
    <3>2. u.next.password = p
      BY <2>1, <2>2, <2>4
    <3>3. WithSection(t, u) = [t EXCEPT !.auth.password = p]
      BY <1>4, <3>2 DEF WithSection
    <3> QED
      BY <2>3, <3>1, <3>3
  <2>7. /\ b.twofa => b.totp
        /\ b.user => Strong(b.password)
    BY <2>1, <2>4 DEF SoundSettings
  <2> QED
    BY <1>3, <1>4, <2>1, <2>2, <2>4, <2>5, <2>6, <2>7
<1>5. CASE u.kind = "twofa"
  <2>1. PICK on \in BOOLEAN : u.next = WithCodes(f.auth, on)
    BY <1>5 DEF MadeFrom
  <2>2. PICK b : b = WithCodes(f.auth, on)
    OBVIOUS
  <2>3. PICK c : c = WithCodes(t.auth, on)
    OBVIOUS
  <2>4. /\ b \in AuthSection /\ b.user = f.auth.user /\ b.password = f.auth.password
        /\ b.twofa => b.totp
    BY <1>1, <2>2, CodesChange
  <2>5. c \in AuthSection /\ (LoadedAuth(t.auth) = LoadedAuth(f.auth) => LoadedAuth(c) = LoadedAuth(b))
    BY <1>1, <2>2, <2>3, CodesChange
  <2>6. WithSection(t, u) = [t EXCEPT !.auth = c]
    <3>1. t \in [auth : AuthSection, alerts : {t.alerts}, other : {t.other}]
      BY DEF IsToml
    <3>2. u.next.twofa = on /\ u.next.totp = on
      BY <1>1, <2>1 DEF WithCodes, AuthSection
    <3>3. WithSection(t, u) = [t EXCEPT !.auth.twofa = on, !.auth.totp = on]
      BY <1>5, <3>2 DEF WithSection
    <3> QED
      BY <1>1, <2>3, <3>1, <3>3 DEF WithCodes, AuthSection
  <2>7. /\ b.twofa => b.totp
        /\ b.user => Strong(b.password)
    BY <2>4 DEF SoundSettings
  <2> QED
    BY <1>3, <1>5, <2>1, <2>2, <2>4, <2>5, <2>6, <2>7
<1> QED
  BY <1>2, <1>4, <1>5

LEMMA AfterIsToml ==
  ASSUME NEW f, NEW u, IsToml(f), u.kind \in {"password", "twofa", "alerts"}, MadeFrom(u, f)
  PROVE  IsToml(After(u, f))
<1>1. f.auth \in AuthSection
  BY DEF IsToml
<1>2. u.kind = "alerts" => IsAlerts(u.next)
  BY DEF MadeFrom
<1>3. CASE u.kind = "password"
  <2>1. u.next \in AuthSection
    BY <1>1, <1>3, PasswordChanges DEF MadeFrom
  <2> QED
    BY <1>3, <2>1, LoginChanges DEF After
<1>4. CASE u.kind = "twofa"
  <2>1. PICK on \in BOOLEAN : u.next = WithCodes(f.auth, on)
    BY <1>4 DEF MadeFrom
  <2>2. u.next \in AuthSection
    BY <1>1, <2>1, CodesChange
  <2> QED
    BY <1>4, <2>2, LoginChanges DEF After
<1> QED
  BY <1>2, <1>3, <1>4, AlertsReplaced DEF After

-----------------------------------------------------------------------------
LEMMA SettingsStart == SettingsInit => SettingsInv
<1> SUFFICES ASSUME SettingsInit PROVE SettingsInv
  OBVIOUS
<1>1. /\ toml = GoodToml /\ running = "down" /\ inForce = Loaded(GoodToml)
      /\ update = NoUpdate /\ edited = {}
  BY DEF SettingsInit
<1>2. SettingsTypes
  BY <1>1, FirstFile, FileLoads DEF SettingsTypes
<1> QED
  BY <1>1, <1>2 DEF SettingsInv, ChangeTypes, InForceKept, ChangeKept, Changing

(* A change is asked for.                                                  *)
LEMMA AsksStep ==
  ASSUME SettingsInv, NEW kind \in {"password", "twofa", "alerts"}, NEW next, Asks(kind, next),
         MadeFrom([kind |-> kind, next |-> next, at |-> "asked", content |-> GoodToml], inForce)
  PROVE  SettingsInv'
<1>1. PICK content : content = GoodToml
  OBVIOUS
<1>2. PICK u : u = [kind |-> kind, next |-> next, at |-> "asked", content |-> content]
  OBVIOUS
<1>3. /\ update' = u /\ running = "up" /\ update = NoUpdate
      /\ UNCHANGED <<toml, running, inForce, edited>>
  BY <1>1, <1>2 DEF Asks
<1>4. /\ u.kind = kind /\ u.next = next /\ u.at = "asked" /\ u.content = content
      /\ u \in [kind : {"password", "twofa", "alerts"}, next : {next},
                at : {"asked", "written", "renamed"}, content : {content}]
  BY <1>2
<1>5. MadeFrom(u, inForce)
  BY <1>1, <1>2
<1>6. SettingsTypes /\ SoundSettings(inForce) /\ Agree(toml, inForce, edited)
  BY <1>3 DEF SettingsInv, InForceKept, Changing
<1>7. IsToml(After(u, inForce))
  BY <1>4, <1>5, <1>6, AfterIsToml DEF SettingsTypes
<1>8. SettingsTypes'
  BY <1>3, <1>6 DEF SettingsTypes
<1>9. ChangeTypes'
  BY <1>3, <1>4, <1>5, <1>7 DEF ChangeTypes, Changing
<1>10. InForceKept'
  BY <1>3, <1>6 DEF InForceKept
<1>11. ChangeKept'
  BY <1>3, <1>4 DEF ChangeKept
<1> QED
  BY <1>3, <1>6, <1>8, <1>9, <1>10, <1>11 DEF SettingsInv

LEMMA RequestsStep == ASSUME SettingsInv, Requests PROVE SettingsInv'
<1>1. inForce.auth \in AuthSection
  BY DEF SettingsInv, SettingsTypes, IsToml
<1>2. ASSUME NEW p \in Password, ChangePassword(p) PROVE SettingsInv'
  <2>1. PICK b : b = [inForce.auth EXCEPT !.password = p]
    OBVIOUS
  <2>2. Strong(p) /\ Asks("password", b)
    BY <1>2, <2>1 DEF ChangePassword
  <2>3. MadeFrom([kind |-> "password", next |-> b, at |-> "asked", content |-> GoodToml], inForce)
    BY <2>1, <2>2 DEF MadeFrom
  <2> QED
    BY <2>2, <2>3, AsksStep
<1>3. ASSUME NEW on \in BOOLEAN, Asks("twofa", WithCodes(inForce.auth, on)) PROVE SettingsInv'
  <2>1. PICK b : b = WithCodes(inForce.auth, on)
    OBVIOUS
  <2>2. MadeFrom([kind |-> "twofa", next |-> b, at |-> "asked", content |-> GoodToml], inForce)
    BY <2>1 DEF MadeFrom
  <2> QED
    BY <1>3, <2>1, <2>2, AsksStep
<1>4. EnableTwoFactor => Asks("twofa", WithCodes(inForce.auth, TRUE))
  BY Zenon DEF EnableTwoFactor, WithCodes
<1>5. DisableTwoFactor => Asks("twofa", WithCodes(inForce.auth, FALSE))
  BY Zenon DEF DisableTwoFactor, WithCodes
<1>6. ASSUME NEW a \in AlertRequests, UpdateAlerts(a) PROVE SettingsInv'
  <2>1. PICK b : b = Merged(a)
    OBVIOUS
  <2>2. WithinLimits(b) /\ Asks("alerts", b) /\ IsAlerts(b)
    BY <1>6, <2>1, AlertsGiven DEF UpdateAlerts
  <2>3. Clamped(b) = b
    BY <2>2 DEF WithinLimits
  <2>4. MadeFrom([kind |-> "alerts", next |-> b, at |-> "asked", content |-> GoodToml], inForce)
    BY <2>2, <2>3 DEF MadeFrom
  <2> QED
    BY <2>2, <2>4, AsksStep
<1> QED
  BY <1>2, <1>3, <1>4, <1>5, <1>6, Zenon DEF Requests

(* A change under way goes on, or is given up.                             *)
LEMMA ChangeFacts ==
  ASSUME SettingsInv, update.kind # "none"
  PROVE  /\ Changing /\ running = "up" /\ MadeFrom(update, inForce) /\ IsToml(After(update, inForce))
         /\ update \in [kind : {"password", "twofa", "alerts"}, next : {update.next},
                        at : {"asked", "written", "renamed"}, content : {update.content}]
         /\ SettingsTypes /\ SoundSettings(inForce)
BY DEF SettingsInv, ChangeTypes, Changing, NoUpdate

LEMMA EditsStep == ASSUME SettingsInv, Edits PROVE SettingsInv'
<1>1. PICK u : u = update
  OBVIOUS
<1>2. PICK content : content = WithSection(toml, u)
  OBVIOUS
<1>3. PICK v : v = [u EXCEPT !.at = "written", !.content = content]
  OBVIOUS
<1>4. /\ u.kind # "none" /\ u.at = "asked" /\ Parses(content) /\ update' = v
      /\ UNCHANGED <<toml, running, inForce, edited>>
  BY <1>1, <1>2, <1>3 DEF Edits
<1>5. /\ running = "up" /\ MadeFrom(u, inForce) /\ IsToml(After(u, inForce))
      /\ u \in [kind : {"password", "twofa", "alerts"}, next : {u.next},
                at : {"asked", "written", "renamed"}, content : {u.content}]
      /\ SettingsTypes /\ SoundSettings(inForce)
  BY <1>1, <1>4, ChangeFacts
<1>6. Agree(toml, inForce, edited)
  BY <1>1, <1>4, <1>5 DEF SettingsInv, InForceKept
<1>7. /\ v \in [kind : {"password", "twofa", "alerts"}, next : {u.next},
                at : {"asked", "written", "renamed"}, content : {content}]
      /\ v.kind = u.kind /\ v.next = u.next /\ v.at = "written" /\ v.content = content
  BY <1>3, <1>5
<1>8. /\ MadeFrom(v, inForce) /\ After(v, inForce) = After(u, inForce)
      /\ Left(v, edited) = Left(u, edited)
  BY <1>5, <1>7 DEF MadeFrom, After, Left
<1>9. /\ IsToml(content) /\ Agree(content, After(u, inForce), Left(u, edited))
      /\ SoundSettings(After(u, inForce))
  BY <1>2, <1>4, <1>5, <1>6, ChangeApplies DEF SettingsTypes
<1>10. SettingsTypes'
  BY <1>4, <1>5 DEF SettingsTypes
<1>11. ChangeTypes'
  BY <1>4, <1>5, <1>7, <1>8 DEF ChangeTypes, Changing
<1>12. InForceKept'
  BY <1>4, <1>6 DEF InForceKept
<1>13. ChangeKept'
  BY <1>4, <1>7, <1>8, <1>9 DEF ChangeKept
<1> QED
  BY <1>4, <1>5, <1>10, <1>11, <1>12, <1>13 DEF SettingsInv

LEMMA GivenUp ==
  ASSUME SettingsInv, update' = NoUpdate, UNCHANGED <<toml, inForce, edited>>,
         running' = "up" => running = "up" /\ Agree(toml, inForce, edited)
  PROVE  SettingsInv'
BY DEF SettingsInv, SettingsTypes, ChangeTypes, InForceKept, ChangeKept, Changing

LEMMA RefusedStep == ASSUME SettingsInv, Refused \/ WriteFailed PROVE SettingsInv'
<1>1. /\ update.kind # "none" /\ update.at \in {"asked", "written"} /\ update' = NoUpdate
      /\ UNCHANGED <<toml, running, inForce, edited>>
  BY DEF Refused, WriteFailed
<1>2. running = "up"
  BY <1>1, ChangeFacts
<1>3. Agree(toml, inForce, edited)
  BY <1>1, <1>2 DEF SettingsInv, InForceKept
<1> QED
  BY <1>1, <1>2, <1>3, GivenUp

LEMMA RenamedStep == ASSUME SettingsInv, Renamed PROVE SettingsInv'
<1>1. PICK u : u = update
  OBVIOUS
<1>2. PICK v : v = [u EXCEPT !.at = "renamed"]
  OBVIOUS
<1>3. /\ u.kind # "none" /\ u.at = "written" /\ update' = v /\ toml' = u.content
      /\ edited' = Left(u, edited) /\ UNCHANGED <<running, inForce>>
  BY <1>1, <1>2 DEF Renamed, Left
<1>4. /\ running = "up" /\ MadeFrom(u, inForce) /\ IsToml(After(u, inForce))
      /\ u \in [kind : {"password", "twofa", "alerts"}, next : {u.next},
                at : {"asked", "written", "renamed"}, content : {u.content}]
      /\ SettingsTypes /\ SoundSettings(inForce) /\ Changing
  BY <1>1, <1>3, ChangeFacts
<1>5. /\ IsToml(u.content) /\ Agree(u.content, After(u, inForce), Left(u, edited))
      /\ SoundSettings(After(u, inForce))
  BY <1>1, <1>3, <1>4 DEF SettingsInv, ChangeKept
<1>6. /\ v \in [kind : {"password", "twofa", "alerts"}, next : {u.next},
                at : {"asked", "written", "renamed"}, content : {u.content}]
      /\ v.kind = u.kind /\ v.next = u.next /\ v.at = "renamed" /\ v.content = u.content
  BY <1>2, <1>4
<1>7. MadeFrom(v, inForce) /\ After(v, inForce) = After(u, inForce)
  BY <1>4, <1>6 DEF MadeFrom, After
<1>8. SettingsTypes'
  BY <1>3, <1>4, <1>5 DEF SettingsTypes, Left
<1>9. ChangeTypes'
  BY <1>3, <1>4, <1>6, <1>7 DEF ChangeTypes, Changing
<1>10. InForceKept'
  <2>1. v # NoUpdate
    BY <1>4, <1>6 DEF NoUpdate
  <2> QED
    BY <1>3, <1>6, <2>1 DEF InForceKept, Changing
<1>11. ChangeKept'
  BY <1>3, <1>5, <1>6, <1>7 DEF ChangeKept
<1> QED
  BY <1>3, <1>4, <1>8, <1>9, <1>10, <1>11 DEF SettingsInv

LEMMA SwappedStep == ASSUME SettingsInv, Swapped PROVE SettingsInv'
<1>1. /\ update.kind # "none" /\ update.at = "renamed" /\ inForce' = After(update, inForce)
      /\ update' = NoUpdate /\ UNCHANGED <<toml, running, edited>>
  BY DEF Swapped, MaySwap, After
<1>2. /\ running = "up" /\ IsToml(inForce') /\ SettingsTypes /\ Changing
  BY <1>1, ChangeFacts
<1>3. Agree(toml, inForce', edited) /\ SoundSettings(inForce')
  BY <1>1, <1>2 DEF SettingsInv, ChangeKept
<1> QED
  BY <1>1, <1>2, <1>3 DEF SettingsInv, SettingsTypes, ChangeTypes, InForceKept, ChangeKept, Changing

(* The operator edits one section, at any time.                            *)
LEMMA SavesStep ==
  ASSUME SettingsInv, NEW section \in DOMAIN SectionChoices, NEW v \in SectionChoices[section],
         Saves(section, v)
  PROVE  SettingsInv'
<1>1. /\ toml' = [toml EXCEPT ![section] = v] /\ edited' = edited \cup {section}
      /\ UNCHANGED <<running, inForce, update>>
  BY DEF Saves
<1>2. SettingsTypes
  BY DEF SettingsInv
<1>3. /\ IsToml(toml')
      /\ \A f, ed : Agree(toml, f, ed) => Agree(toml', f, ed \cup {section})
  BY <1>1, <1>2, SavedSection DEF SettingsTypes
<1>4. SettingsTypes'
  BY <1>1, <1>2, <1>3 DEF SettingsTypes
<1>5. ChangeTypes'
  BY <1>1 DEF SettingsInv, ChangeTypes, Changing
<1>6. InForceKept'
  BY <1>1, <1>3 DEF SettingsInv, InForceKept, Changing
<1>7. ChangeKept'
  <2> SUFFICES ASSUME Changing PROVE ChangeKept'
    BY <1>1 DEF ChangeKept, Changing
  <2>1. CASE update.at = "written"
    <3>1. /\ IsToml(update.content) /\ Parses(update.content)
          /\ Agree(update.content, After(update, inForce), Left(update, edited))
          /\ SoundSettings(After(update, inForce))
      BY <2>1 DEF SettingsInv, ChangeKept
    <3>2. Left(update, edited) \subseteq Left(update, edited')
      BY <1>1 DEF Left
    <3>3. Agree(update.content, After(update, inForce), Left(update, edited'))
      BY <3>1, <3>2, EditsOnlyTake
    <3> QED
      BY <1>1, <2>1, <3>1, <3>3 DEF ChangeKept
  <2>2. CASE update.at = "renamed"
    <3>1. /\ Agree(toml, After(update, inForce), edited)
          /\ SoundSettings(After(update, inForce))
      BY <2>2 DEF SettingsInv, ChangeKept
    <3> QED
      BY <1>1, <1>3, <2>2, <3>1 DEF ChangeKept
  <2>3. CASE update.at \notin {"written", "renamed"}
    BY <1>1, <2>3 DEF ChangeKept
  <2> QED
    BY <2>1, <2>2, <2>3
<1> QED
  BY <1>1, <1>4, <1>5, <1>6, <1>7 DEF SettingsInv

LEMMA StartsUpStep == ASSUME SettingsInv, StartsUp PROVE SettingsInv'
<1>1. /\ Starts(toml) /\ running # "up" /\ running' = "up" /\ inForce' = Loaded(toml)
      /\ edited' = {} /\ UNCHANGED <<toml, update>>
  BY DEF StartsUp
<1>2. update = NoUpdate /\ IsToml(toml)
  BY <1>1 DEF SettingsInv, ChangeTypes, Changing, SettingsTypes
<1>3. IsToml(inForce') /\ SoundSettings(inForce') /\ Agree(toml', inForce', edited')
  BY <1>1, <1>2, FileLoads, StartIsSound
<1> QED
  BY <1>1, <1>2, <1>3 DEF SettingsInv, SettingsTypes, ChangeTypes, InForceKept, ChangeKept, Changing

LEMMA StopsStep == ASSUME SettingsInv, Halts \/ FailsToStart PROVE SettingsInv'
<1>1. /\ running' # "up" /\ UNCHANGED <<toml, inForce, edited>>
      /\ update' = NoUpdate \/ (running # "up" /\ update' = update)
  BY DEF Halts, FailsToStart
<1>2. update' = NoUpdate
  BY <1>1 DEF SettingsInv, ChangeTypes, Changing
<1> QED
  BY <1>1, <1>2, GivenUp

LEMMA SettingsGoOn == SettingsInv /\ [SettingsNext]_settingsVars => SettingsInv'
<1> SUFFICES ASSUME SettingsInv, [SettingsNext]_settingsVars PROVE SettingsInv'
  OBVIOUS
<1>1. CASE UNCHANGED settingsVars
  BY <1>1 DEF settingsVars, SettingsInv, SettingsTypes, ChangeTypes, InForceKept, ChangeKept, Changing
<1>2. CASE SettingsNext
  BY <1>2, RequestsStep, EditsStep, RefusedStep, RenamedStep, SwappedStep, SavesStep,
     StartsUpStep, StopsStep, Zenon DEF SettingsNext
<1> QED
  BY <1>1, <1>2

(* What an acknowledged change has put in force is what a restart would    *)
(* load, section by section and whatever the operator edits meanwhile, and *)
(* what runs is within its limits (settings/config_edit.rs, security.rs,   *)
(* alerts.rs; nodelite-proto config/): of SettingsSpec, for any limits and *)
(* any number of changes, edits, failed writes and crashes.                *)
THEOREM SettingsKept == SettingsSpec => []SettingsAreKept
<1>1. SettingsInv => SettingsAreKept
  <2> SUFFICES ASSUME SettingsInv, running = "up" PROVE SettingsAreKept
    BY DEF SettingsAreKept, SettingsOutliveRestarts, RunningIsSound
  <2>1. SoundSettings(inForce)
    BY DEF SettingsInv
  <2>2. RunningIsSound
    BY <2>1 DEF RunningIsSound, SoundSettings
  <2>3. ASSUME update = NoUpdate
        PROVE  /\ "alerts" \notin edited => LoadedAlerts(toml.alerts) = Validated(inForce.alerts)
               /\ "auth" \notin edited /\ ~inForce.auth.password.padded =>
                    LoadedAuth(toml.auth) = inForce.auth
               /\ edited = {} /\ ~inForce.auth.password.padded => Starts(toml)
    <3>1. Agree(toml, inForce, edited)
      BY <2>3 DEF SettingsInv, InForceKept, Changing
    <3>2. toml.auth \in AuthSection /\ inForce.auth \in AuthSection
      BY DEF SettingsInv, SettingsTypes, IsToml
    <3>3. "auth" \notin edited /\ ~inForce.auth.password.padded => LoadedAuth(toml.auth) = inForce.auth
      BY <3>1, <3>2, LoginsLoad DEF Agree
    <3>4. ASSUME edited = {}, ~inForce.auth.password.padded PROVE Starts(toml)
      <4>1. Parses(toml) /\ LoadedAuth(toml.auth) = inForce.auth
        BY <3>1, <3>3, <3>4 DEF Agree
      <4>2. toml.auth.user = inForce.auth.user
        BY <3>2, <4>1, LoginsLoad
      <4> QED
        BY <2>1, <4>1, <4>2 DEF Starts, SoundSettings
    <3> QED
      BY <3>1, <3>3, <3>4 DEF Agree
  <2> QED
    BY <2>2, <2>3 DEF SettingsAreKept, SettingsOutliveRestarts
<1> QED
  BY <1>1, SettingsStart, SettingsGoOn, PTL DEF SettingsSpec
=============================================================================
