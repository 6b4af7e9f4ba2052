------------------------ MODULE CredentialRenewalProofs ------------------------
(***************************************************************************)
(* That no renewal, however it is interrupted, locks an agent out, for any *)
(* number of connections, tokens and candidates, and any faults.           *)
(*                                                                         *)
(* The argument: a token the agent has presented or confirmed, and which   *)
(* is still staged, is the only one the agent has or is about to be given; *)
(* and only such a token is ever activated.                                *)
(***************************************************************************)
EXTENDS CredentialRenewal, FiniteSetTheorems, TLAPS

(* A registry entry: the previous credential is older than the current     *)
(* one, the candidates are newer, and no two share a token or a            *)
(* generation.                                                             *)
GoodEntry(n) ==
  /\ n.cur.tok >= 1
  /\ \A k \in n.prev : k.tok >= 1 /\ k.tok < n.cur.tok /\ k.gen < n.cur.gen
  /\ \A k \in n.pend : n.cur.tok < k.tok /\ n.cur.gen < k.gen
  /\ \A j, k \in n.prev : j = k
  /\ \A j, k \in n.pend : j.tok = k.tok \/ j.gen = k.gen => j = k
  /\ \A k \in Live(n) : k.tok <= lastTok

RegistryInv ==
  /\ GoodEntry(node) /\ GoodEntry(view)
  /\ IsFiniteSet(node.pend)
  /\ 1 <= issued /\ issued <= node.cur.tok
  /\ \E top \in Lasting(node) : \A k \in Lasting(node) : k.gen <= top.gen

(* The tokens the agent is about to be given: the one it is writing, those *)
(* in flight on its connection and the unanswered candidate of the session *)
(* there.  With those it has saved, they are what it may present one day.  *)
Frames(c) == {toAgent[c][i].tok : i \in DOMAIN toAgent[c]}
Coming ==
  (IF task.st = "none" THEN {} ELSE {task.cand.tok})
  \cup (IF link = NoConn THEN {} ELSE Frames(link))
  \cup (IF link # NoConn /\ sess[link].cand # None THEN {sess[link].cand.tok} ELSE {})
Held == {mem, disk, durable} \cup Coming

(* The tokens a session may have activated: the one it was opened with and *)
(* those whose saving was confirmed to it.                                 *)
Confirmed(c) == {toServer[c][i].tok : i \in {j \in DOMAIN toServer[c] : toServer[c][j].persisted}}
Claims(c) ==
  {sess[c].tok} \cup Confirmed(c)
  \cup (IF sess[c].st \in {"committing", "committed"} THEN {sess[c].cand.tok} ELSE {})
Claimed == UNION {Claims(c) : c \in Conn}

Staged(t) == \E k \in node.pend : k.tok = t

(* A credential that is staged, or not newer than the current one.         *)
Settled(m) == m \in node.pend \/ (m.tok <= node.cur.tok /\ m.gen <= node.cur.gen)

Promises ==
  /\ \A t \in Held : t < issued \/ t = node.cur.tok \/ Staged(t)
  /\ \A t \in Claimed : t <= mem /\ (t <= node.cur.tok \/ Staged(t))
  /\ \A k \in node.pend : k.tok = mem \/ k.tok \in Claimed => Held = {k.tok}
  /\ \A t, u \in Coming : t > node.cur.tok /\ u > node.cur.tok => t = u
  /\ durable < issued => node.cur.tok = issued

(* Memory may be behind the file, but not about tokens in use.             *)
Lag ==
  /\ \A m \in Live(view) : m.tok \in Held \cup Claimed \cup {issued} => Settled(m)
  /\ \A k \in node.pend : k.tok \in Held \cup Claimed => k \in view.pend

(* What the agent saves comes in the order in which it was staged.         *)
Order ==
  /\ 1 <= mem /\ mem <= durable /\ durable <= disk
  /\ \A t \in Held : t <= lastTok
  /\ task.st # "none" => disk <= task.cand.tok
  /\ task.st = "renamed" => disk = task.cand.tok
  /\ link # NoConn =>
       \A i \in DOMAIN toAgent[link] :
         /\ disk <= toAgent[link][i].tok
         /\ task.st # "none" => task.cand.tok <= toAgent[link][i].tok
         /\ \A j \in DOMAIN toAgent[link] : i <= j => toAgent[link][i].tok <= toAgent[link][j].tok

Candidateless == {"none", "hello", "matched", "activated", "admitted", "staging", "closed"}

SessionOK(s) ==
  /\ s.st # "hello" => Settled([tok |-> s.tok, gen |-> s.gen])
  /\ s.st \notin {"hello", "matched"} => s.tok <= node.cur.tok
  /\ s.cand # None => s.tok < s.cand.tok /\ s.cand.tok <= lastTok
  /\ s.st \in Candidateless => s.cand = None
  /\ s.st \in {"sending", "committed"} => s.cand # None
  /\ s.st = "committed" => s.cand.tok <= node.cur.tok /\ s.cand.gen <= node.cur.gen
  /\ s.st \in {"none", "closed"} => s.tok = 0
  /\ s.fresh => [tok |-> s.tok, gen |-> s.gen] \in Live(view)

Sessions ==
  \A c \in Conn :
    /\ SessionOK(sess[c])
    /\ sess[c].st = "none" => toAgent[c] = <<>>
    /\ sess[c].st \in {"none", "closed"} => toServer[c] = <<>>

(* The session the agent is connected to knows what the agent was given.   *)
Given(k, s) == k.tok <= s.tok \/ k = s.cand
LinkInv ==
  /\ task.st = "none" => task = NoTask
  /\ task.st # "none" => task.for \in Conn
  /\ task.st # "none" /\ link # NoConn => task.for = link
  /\ link # NoConn =>
       /\ sess[link].st # "none"
       /\ sess[link].st # "closed" =>
            /\ mem = sess[link].tok \/ (sess[link].cand # None /\ mem = sess[link].cand.tok)
            /\ sess[link].cand # None => disk <= sess[link].cand.tok
            /\ \A i \in DOMAIN toAgent[link] : Given(toAgent[link][i], sess[link])
            /\ task.st # "none" => Given(task.cand, sess[link])

IInv == TypeOK /\ RegistryInv /\ Promises /\ Lag /\ Order /\ Sessions /\ LinkInv

-----------------------------------------------------------------------------
(* What the parts of the invariant say in the form the steps need.         *)
LEMMA Registry ==
  ASSUME TypeOK, RegistryInv
  PROVE  /\ node \in Entry /\ view \in Entry /\ issued \in Nat /\ lastTok \in Nat /\ issued >= 1
         /\ node.cur \in Cred /\ node.cur.tok \in Nat /\ node.cur.gen \in Nat /\ node.cur.tok >= 1
         /\ issued <= node.cur.tok /\ node.cur.tok <= lastTok
         /\ \A k \in node.pend : /\ k \in Cred /\ k.tok \in Nat /\ k.gen \in Nat
                                 /\ k.tok > node.cur.tok /\ k.gen > node.cur.gen /\ k.tok <= lastTok
         /\ \A k \in Live(node) : k \in Cred /\ k.tok \in Nat /\ k.gen \in Nat /\ k.tok >= 1
         /\ \A k \in Live(view) : k \in Cred /\ k.tok \in Nat /\ k.gen \in Nat /\ k.tok >= 1
BY DEF TypeOK, RegistryInv, GoodEntry, Entry, Cred, Live, Lasting

LEMMA Elements == ASSUME NEW S, NEW s \in Seq(S), NEW i \in DOMAIN s PROVE s[i] \in S
OBVIOUS

LEMMA ClaimTypes == ASSUME TypeOK PROVE Claimed \subseteq Nat
<1>1. ASSUME NEW c \in Conn PROVE Claims(c) \subseteq Nat
  <2>1. sess[c].tok \in Nat /\ sess[c].cand.tok \in Nat
    BY DEF TypeOK, Session, Cred
  <2>2. Confirmed(c) \subseteq Nat
    <3>1. toServer[c] \in Seq([tok : Nat, persisted : BOOLEAN])
      BY DEF TypeOK
    <3>2. \A i \in DOMAIN toServer[c] : toServer[c][i] \in [tok : Nat, persisted : BOOLEAN]
      BY <3>1, Elements
    <3>3. \A i \in DOMAIN toServer[c] : toServer[c][i].tok \in Nat
      BY <3>2
    <3>4. QED
      BY <3>3 DEF Confirmed
  <2>3. QED
    BY <2>1, <2>2 DEF Claims
<1>2. QED
  BY <1>1 DEF Claimed

(* No two credentials of an entry share a token or a generation.           *)
LEMMA Distinct ==
  ASSUME NEW n \in Entry, GoodEntry(n), NEW j \in Live(n), NEW k \in Live(n),
         j.tok = k.tok \/ j.gen = k.gen
  PROVE  j = k
BY DEF GoodEntry, Entry, Cred, Live, Lasting

(* The agent and the sessions move on while the registry keeps what lasts: *)
(* nothing is held or claimed that was not, but what the agent now has for *)
(* good.                                                                   *)
LEMMA PromisesKeep ==
  ASSUME TypeOK, RegistryInv, Promises, Lag,
         node'.cur = node.cur, node'.pend = node.pend, issued' = issued,
         (view'.pend = view.pend /\ Live(view') \subseteq Live(view)) \/ view' = node,
         mem' \in Nat, mem <= mem', durable' \in Nat, durable <= durable',
         Held' \subseteq Held, Coming' \subseteq Coming,
         Claimed' \subseteq Claimed \cup {0, mem'},
         mem' = mem \/ mem' <= node.cur.tok \/ Held' = {mem'}
  PROVE  Promises' /\ Lag'
<1>1. /\ mem' \in Held' /\ mem' \in Held /\ mem \in Nat /\ durable \in Nat
      /\ Claimed' \cup Held' \subseteq Claimed \cup Held \cup {0}
  BY DEF Held, TypeOK
<1>2. /\ \A m \in Live(view) : m.tok # 0 /\ m \in Cred
      /\ \A m \in Live(node) : m.tok # 0 /\ m \in Cred
      /\ \A k \in node.pend : k.tok # 0 /\ k.tok > node.cur.tok /\ k.tok \in Nat
      /\ node.cur.tok \in Nat /\ node.cur.gen \in Nat /\ issued \in Nat /\ issued <= node.cur.tok
  BY Registry
<1>4. \A t \in Held' : t < issued' \/ t = node'.cur.tok \/ (\E k \in node'.pend : k.tok = t)
  BY <1>1 DEF Promises, Staged
<1>5. \A t \in Claimed' : t <= mem' /\ (t <= node'.cur.tok \/ (\E k \in node'.pend : k.tok = t))
  <2>1. ASSUME NEW t \in Claimed PROVE t <= mem' /\ (t <= node'.cur.tok \/ (\E k \in node'.pend : k.tok = t))
    <3>1. t <= mem /\ (t <= node.cur.tok \/ Staged(t))
      BY DEF Promises
    <3>2. t \in Nat
      BY ClaimTypes
    <3>3. QED
      BY <1>1, <3>1, <3>2 DEF Staged
  <2>2. mem' <= node'.cur.tok \/ (\E k \in node'.pend : k.tok = mem')
    BY <1>1, <1>2 DEF Promises, Staged
  <2>3. 0 <= mem' /\ 0 <= node'.cur.tok
    BY <1>1, <1>2
  <2>4. QED
    BY <2>1, <2>2, <2>3
<1>6. ASSUME NEW k \in node.pend, k.tok = mem' \/ k.tok \in Claimed' PROVE Held' = {k.tok}
  <2>1. CASE k.tok \in Claimed \/ mem' = mem
    <3>1. Held = {k.tok}
      BY <1>2, <1>6, <2>1 DEF Promises
    <3>2. QED
      BY <1>1, <3>1
  <2>2. CASE k.tok \notin Claimed /\ mem' # mem
    <3>1. k.tok = mem' /\ k.tok > node.cur.tok
      BY <1>2, <1>6, <2>2
    <3>2. QED
      BY <1>2, <2>2, <3>1
  <2>3. QED
    BY <2>1, <2>2
<1>7. \A t, u \in Coming' : t > node'.cur.tok /\ u > node'.cur.tok => t = u
  BY <1>1 DEF Promises
<1>8. durable' < issued' => node'.cur.tok = issued'
  BY <1>1, <1>2 DEF Promises
<1>9. Promises'
  BY <1>1, <1>4, <1>5, <1>6, <1>7, <1>8 DEF Promises, Staged
<1>10. ASSUME NEW m \in Live(view'), m.tok \in Held' \cup Claimed' \cup {issued'} PROVE Settled(m)
  <2>1. CASE Live(view') \subseteq Live(view)
    BY <1>1, <1>2, <1>10, <2>1 DEF Lag
  <2>2. CASE view' = node
    <3>1. m \in node.pend \/ m = node.cur \/ m \in node.prev
      BY <1>10, <2>2 DEF Live, Lasting
    <3>2. m \in node.prev => m.tok < node.cur.tok /\ m.gen < node.cur.gen
      BY DEF RegistryInv, GoodEntry
    <3>3. m \in Live(node)
      BY <1>10, <2>2
    <3>4. m.tok \in Nat /\ m.gen \in Nat
      BY <1>2, <3>3 DEF Cred
    <3>5. QED
      BY <1>2, <3>1, <3>2, <3>4 DEF Settled
  <2>3. QED
    BY <2>1, <2>2
<1>11. ASSUME NEW k \in node.pend, k.tok \in Held' \cup Claimed' PROVE k \in view'.pend
  <2>1. k \in view.pend
    BY <1>1, <1>2, <1>11 DEF Lag
  <2>2. QED
    BY <2>1
<1>12. Lag'
  BY <1>10, <1>11 DEF Lag, Settled, Live, Lasting
<1>13. QED
  BY <1>9, <1>12
-----------------------------------------------------------------------------
(* Sessions.                                                               *)

Ack == [tok : Nat, persisted : BOOLEAN]

LEMMA RegistryStays ==
  ASSUME RegistryInv, UNCHANGED <<node, view, issued, lastTok>> PROVE RegistryInv'
BY DEF RegistryInv, GoodEntry, Live, Lasting

LEMMA TakenAck ==
  ASSUME TypeOK, NEW c \in Conn, toServer[c] # <<>>,
         toServer' = [toServer EXCEPT ![c] = Tail(toServer[c])]
  PROVE  /\ toServer' \in [Conn -> Seq(Ack)] /\ Head(toServer[c]) \in Ack
         /\ Head(toServer[c]).persisted => Head(toServer[c]).tok \in Confirmed(c)
         /\ \A d \in Conn : Confirmed(d)' \subseteq Confirmed(d)
<1>1. toServer \in [Conn -> Seq(Ack)]
  BY DEF TypeOK, Ack
<1> DEFINE q == toServer[c]
<1>2. q \in Seq(Ack) /\ q # <<>>
  BY <1>1
<1>3. /\ Head(q) \in Ack /\ Tail(q) \in Seq(Ack) /\ Head(q) = q[1] /\ 1 \in DOMAIN q
      /\ \A i \in DOMAIN Tail(q) : i + 1 \in DOMAIN q /\ Tail(q)[i] = q[i + 1]
  BY <1>2
<1>4. toServer' \in [Conn -> Seq(Ack)] /\ toServer'[c] = Tail(q) /\ \A d \in Conn : d # c => toServer'[d] = toServer[d]
  BY <1>1, <1>3
<1>5. Head(q).persisted => Head(q).tok \in Confirmed(c)
  BY <1>3 DEF Confirmed
<1> HIDE DEF q
<1>6. ASSUME NEW d \in Conn PROVE Confirmed(d)' \subseteq Confirmed(d)
  <2>1. CASE d = c
    <3>1. \A i \in DOMAIN toServer'[d] : \E j \in DOMAIN toServer[d] : toServer'[d][i] = toServer[d][j]
      BY <1>3, <1>4, <2>1 DEF q
    <3>2. QED
      BY <3>1 DEF Confirmed
  <2>2. CASE d # c
    BY <1>4, <2>2 DEF Confirmed
  <2>3. QED
    BY <2>1, <2>2
<1>7. QED
  BY <1>3, <1>4, <1>5, <1>6 DEF q

(* A session goes on with the token and the candidate it has.              *)
LEMMA SessionMoves ==
  ASSUME IInv, NEW c \in Conn, NEW r \in Session, Moved(c, r),
         r.tok = sess[c].tok, r.cand = sess[c].cand, SessionOK(r),
         {r.st, sess[c].st} \cap {"none", "closed"} = {},
         r.st \in {"committing", "committed"} => r.cand.tok \in Claims(c),
         UNCHANGED <<node, view, issued, lastTok, toAgent, agentVars>>,
         \/ UNCHANGED toServer
         \/ toServer[c] # <<>> /\ toServer' = [toServer EXCEPT ![c] = Tail(toServer[c])],
         due' \in BOOLEAN, active' \in Conn \cup {NoConn}, faults' \in Nat
  PROVE  IInv'
<1>1. /\ TypeOK /\ RegistryInv /\ Promises /\ Lag /\ Order /\ Sessions /\ LinkInv
      /\ sess \in [Conn -> Session] /\ toServer \in [Conn -> Seq(Ack)]
  BY DEF IInv, TypeOK, Ack
<1>2. /\ node' = node /\ view' = view /\ issued' = issued /\ lastTok' = lastTok /\ toAgent' = toAgent
      /\ mem' = mem /\ disk' = disk /\ durable' = durable /\ link' = link /\ task' = task
  BY DEF agentVars
<1>3. /\ sess' \in [Conn -> Session] /\ sess'[c] = r /\ \A d \in Conn : d # c => sess'[d] = sess[d]
      /\ \A d \in Conn : sess'[d].cand = sess[d].cand /\ sess'[d].tok = sess[d].tok
      /\ \A d \in Conn : sess'[d].st \in {"none", "closed"} <=> sess[d].st \in {"none", "closed"}
  BY <1>1 DEF Moved
<1>4. /\ toServer' \in [Conn -> Seq(Ack)]
      /\ \A d \in Conn : Confirmed(d)' \subseteq Confirmed(d)
      /\ \A d \in Conn : d # c => toServer'[d] = toServer[d]
  <2>1. CASE UNCHANGED toServer
    BY <1>1, <2>1 DEF Confirmed
  <2>2. CASE toServer[c] # <<>> /\ toServer' = [toServer EXCEPT ![c] = Tail(toServer[c])]
    BY <1>1, <2>2, TakenAck
  <2>3. QED
    BY <2>1, <2>2
<1>5. TypeOK'
  BY <1>1, <1>2, <1>3, <1>4 DEF TypeOK, Ack
<1>6. RegistryInv'
  BY <1>1, <1>2, RegistryStays
<1>7. link # NoConn => link \in Conn
  BY <1>1 DEF TypeOK
<1>8. Coming' = Coming /\ Held' = Held
  BY <1>2, <1>3, <1>7 DEF Coming, Held, Frames
<1>9. Claimed' \subseteq Claimed
  <2>1. ASSUME NEW d \in Conn PROVE Claims(d)' \subseteq Claims(d)
    <3>1. Confirmed(d)' \subseteq Confirmed(d)
      BY <1>4
    <3>2. CASE d = c
      BY <1>3, <3>1, <3>2 DEF Claims
    <3>3. CASE d # c
      BY <1>3, <3>1, <3>3 DEF Claims
    <3>4. QED
      BY <3>2, <3>3
  <2>2. QED
    BY <2>1 DEF Claimed
<1>10. Promises' /\ Lag'
  <2>1. mem \in Nat /\ durable \in Nat
    BY <1>1 DEF TypeOK
  <2>2. Held' \subseteq Held /\ Coming' \subseteq Coming /\ Claimed' \subseteq Claimed \cup {0, mem'}
    BY <1>8, <1>9
  <2>3. Live(view') \subseteq Live(view)
    BY <1>2 DEF Live, Lasting
  <2>4. QED
    BY <1>1, <1>2, <2>1, <2>2, <2>3, PromisesKeep
<1>11. Order'
  BY <1>1, <1>2, <1>8 DEF Order
<1>12. Sessions'
  <2>1. \A d \in Conn : SessionOK(sess'[d])
    BY <1>1, <1>3 DEF Sessions
  <2>2. \A d \in Conn : sess'[d].st = "none" => toAgent'[d] = <<>>
    BY <1>1, <1>2, <1>3 DEF Sessions
  <2>3. \A d \in Conn : sess'[d].st \in {"none", "closed"} => toServer'[d] = <<>>
    BY <1>1, <1>3, <1>4 DEF Sessions
  <2>4. \A d \in Conn : SessionOK(sess'[d]) <=> SessionOK(sess[d])'
    BY <1>2 DEF SessionOK, Settled
  <2>5. QED
    BY <2>1, <2>2, <2>3, <2>4 DEF Sessions
<1>13. LinkInv'
  BY <1>1, <1>2, <1>3, <1>7 DEF LinkInv, Given
<1>14. QED
  BY <1>5, <1>6, <1>10, <1>11, <1>12, <1>13 DEF IInv

(* The records of the sessions.                                            *)
Record(r, st, tok, gen, fresh, cand) ==
  /\ r \in Session
  /\ r.st = st /\ r.tok = tok /\ r.gen = gen /\ (r.fresh <=> fresh) /\ r.cand = cand

LEMMA WithStation ==
  ASSUME NEW s \in Session, NEW st \in Stations
  PROVE  Record([s EXCEPT !.st = st], st, s.tok, s.gen, s.fresh, s.cand)
BY DEF Session, Record

LEMMA WithFresh ==
  ASSUME NEW s \in Session
  PROVE  /\ Record([s EXCEPT !.fresh = TRUE], s.st, s.tok, s.gen, TRUE, s.cand)
         /\ Record([s EXCEPT !.fresh = FALSE], s.st, s.tok, s.gen, FALSE, s.cand)
BY DEF Session, Record

LEMMA WithStationGen ==
  ASSUME NEW s \in Session, NEW st \in Stations, NEW gen \in Nat
  PROVE  Record([s EXCEPT !.st = st, !.gen = gen], st, s.tok, gen, s.fresh, s.cand)
BY DEF Session, Record

LEMMA WithStationFresh ==
  ASSUME NEW s \in Session, NEW st \in Stations
  PROVE  /\ Record([s EXCEPT !.st = st, !.fresh = TRUE], st, s.tok, s.gen, TRUE, s.cand)
         /\ Record([s EXCEPT !.fresh = TRUE, !.st = st], st, s.tok, s.gen, TRUE, s.cand)
BY DEF Session, Record

LEMMA WithFreshGen ==
  ASSUME NEW s \in Session, NEW st \in Stations, NEW gen \in Nat
  PROVE  Record([s EXCEPT !.st = st, !.fresh = TRUE, !.gen = gen], st, s.tok, gen, TRUE, s.cand)
BY DEF Session, Record

LEMMA EndedSession ==
  ASSUME TypeOK, NEW c \in Conn
  PROVE  LET s == Ended(c)
         IN  /\ s \in [Conn -> Session] /\ \A d \in Conn : d # c => s[d] = sess[d]
             /\ s[c].st = "closed" /\ s[c].tok = 0 /\ s[c].gen = 0 /\ ~s[c].fresh /\ s[c].cand = None
<1> DEFINE r == [NoSession EXCEPT !.st = "closed"]
<1>1. NoSession \in Session /\ ~NoSession.fresh /\ NoSession.tok = 0 /\ NoSession.gen = 0 /\ NoSession.cand = None
  BY DEF NoSession, Session, Stations, None, Cred
<1>2. r \in Session /\ r.st = "closed" /\ r.tok = 0 /\ r.gen = 0 /\ ~r.fresh /\ r.cand = None
  <2>1. "closed" \in Stations
    BY DEF Stations
  <2>2. QED
    BY <1>1, <2>1, WithStation, Zenon DEF Record
<1>3. Ended(c) = [sess EXCEPT ![c] = r] /\ sess \in [Conn -> Session]
  BY DEF Ended, TypeOK
<1> HIDE DEF r
<1>4. QED
  BY <1>2, <1>3

(* A session ends: it claims nothing any more.                             *)
LEMMA SessionEnds ==
  ASSUME IInv, NEW c \in Conn, sess[c].st # "none", sess' = Ended(c),
         toServer' = [toServer EXCEPT ![c] = <<>>],
         UNCHANGED <<node, view, issued, lastTok, due, toAgent, agentVars>>,
         active' \in Conn \cup {NoConn}, faults' \in Nat
  PROVE  IInv'
<1>1. /\ TypeOK /\ RegistryInv /\ Promises /\ Lag /\ Order /\ Sessions /\ LinkInv
      /\ sess \in [Conn -> Session] /\ toServer \in [Conn -> Seq(Ack)]
  BY DEF IInv, TypeOK, Ack
<1>2. /\ node' = node /\ view' = view /\ issued' = issued /\ lastTok' = lastTok /\ toAgent' = toAgent
      /\ due' = due
      /\ mem' = mem /\ disk' = disk /\ durable' = durable /\ link' = link /\ task' = task
  BY DEF agentVars
<1>3. /\ sess' \in [Conn -> Session] /\ \A d \in Conn : d # c => sess'[d] = sess[d]
      /\ sess'[c].st = "closed" /\ sess'[c].tok = 0 /\ sess'[c].gen = 0 /\ ~sess'[c].fresh
      /\ sess'[c].cand = None
  BY <1>1, EndedSession
<1>4. /\ toServer' \in [Conn -> Seq(Ack)] /\ toServer'[c] = <<>>
      /\ \A d \in Conn : d # c => toServer'[d] = toServer[d]
  BY <1>1
<1>5. TypeOK'
  BY <1>1, <1>2, <1>3, <1>4 DEF TypeOK, Ack
<1>6. RegistryInv'
  BY <1>1, <1>2, RegistryStays
<1>7. link # NoConn => link \in Conn
  BY <1>1 DEF TypeOK
<1>8. Coming' \subseteq Coming /\ Held' \subseteq Held
  BY <1>2, <1>3, <1>7 DEF Coming, Held, Frames
<1>9. Claimed' \subseteq Claimed \cup {0}
  <2>1. ASSUME NEW d \in Conn PROVE Claims(d)' \subseteq Claims(d) \cup {0}
    <3>1. CASE d = c
      BY <1>3, <1>4, <3>1 DEF Claims, Confirmed
    <3>2. CASE d # c
      BY <1>3, <1>4, <3>2 DEF Claims, Confirmed
    <3>3. QED
      BY <3>1, <3>2
  <2>2. QED
    BY <2>1 DEF Claimed
<1>10. Promises' /\ Lag'
  <2>1. mem \in Nat /\ durable \in Nat
    BY <1>1 DEF TypeOK
  <2>2. Held' \subseteq Held /\ Coming' \subseteq Coming /\ Claimed' \subseteq Claimed \cup {0, mem'}
    BY <1>8, <1>9
  <2>3. Live(view') \subseteq Live(view)
    BY <1>2 DEF Live, Lasting
  <2>4. QED
    BY <1>1, <1>2, <2>1, <2>2, <2>3, PromisesKeep
<1>11. Order'
  BY <1>1, <1>2, <1>8 DEF Order
<1>12. Sessions'
  <2>1. ASSUME NEW d \in Conn, d # c PROVE SessionOK(sess[d])'
    <3>1. SessionOK(sess[d])
      BY <1>1 DEF Sessions
    <3>2. QED
      BY <1>2, <1>3, <2>1, <3>1 DEF SessionOK, Settled
  <2>2. SessionOK(sess[c])'
    <3>1. node.cur.tok >= 0 /\ node.cur.gen >= 0
      BY <1>1, Registry
    <3>2. QED
      BY <1>2, <1>3, <3>1 DEF SessionOK, Settled
  <2>3. \A d \in Conn : sess'[d].st = "none" => toAgent'[d] = <<>>
    BY <1>1, <1>2, <1>3 DEF Sessions
  <2>4. \A d \in Conn : sess'[d].st \in {"none", "closed"} => toServer'[d] = <<>>
    BY <1>1, <1>3, <1>4 DEF Sessions
  <2>5. QED
    BY <2>1, <2>2, <2>3, <2>4 DEF Sessions
<1>13. LinkInv'
  BY <1>1, <1>2, <1>3, <1>7 DEF LinkInv, Given
<1>14. QED
  BY <1>5, <1>6, <1>10, <1>11, <1>12, <1>13 DEF IInv

(* What a session may rely on, and what the registry in memory says of its *)
(* token.                                                                  *)
LEMMA SessionFacts ==
  ASSUME IInv, NEW c \in Conn
  PROVE  /\ sess[c] \in Session /\ sess[c].tok \in Nat /\ sess[c].gen \in Nat
         /\ sess[c].tok \in Claimed /\ SessionOK(sess[c])
         /\ due \in BOOLEAN /\ active \in Conn \cup {NoConn} /\ faults \in Nat
<1>1. TypeOK /\ Sessions
  BY DEF IInv
<1>2. sess[c] \in Session /\ due \in BOOLEAN /\ active \in Conn \cup {NoConn} /\ faults \in Nat
  BY <1>1 DEF TypeOK
<1>3. sess[c].tok \in Nat /\ sess[c].gen \in Nat
  BY <1>2 DEF Session
<1>4. sess[c].tok \in Claimed
  BY DEF Claimed, Claims
<1>5. QED
  BY <1>1, <1>2, <1>3, <1>4 DEF Sessions

LEMMA MatchedFacts ==
  ASSUME IInv, NEW c \in Conn, Knows(view, sess[c].tok)
  PROVE  LET m == Matched(view, sess[c].tok)
         IN  /\ m \in Live(view) /\ m.gen \in Nat /\ m = [tok |-> sess[c].tok, gen |-> m.gen]
             /\ Settled(m)
<1> DEFINE m == Matched(view, sess[c].tok)
<1>1. m \in Live(view) /\ m.tok = sess[c].tok
  BY DEF Knows, Matched
<1> HIDE DEF m
<1>2. m \in Cred
  BY <1>1, Registry DEF IInv
<1>3. m.gen \in Nat /\ m = [tok |-> sess[c].tok, gen |-> m.gen]
  BY <1>1, <1>2 DEF Cred
<1>4. Settled(m)
  BY <1>1, SessionFacts DEF IInv, Lag
<1>5. QED
  BY <1>1, <1>3, <1>4 DEF m

(* A valid session may take its token as checked.                          *)
LEMMA ValidFacts ==
  ASSUME IInv, NEW c \in Conn, Valid(c)
  PROVE  [tok |-> sess[c].tok, gen |-> sess[c].gen] \in Live(view)
<1>1. CASE sess[c].fresh
  BY <1>1, SessionFacts DEF SessionOK
<1>2. CASE Knows(view, sess[c].tok) /\ Matched(view, sess[c].tok).gen = sess[c].gen
  BY <1>2, MatchedFacts
<1>3. QED
  BY <1>1, <1>2 DEF Valid

LEMMA AuthorizeKeeps == ASSUME IInv, NEW c \in Conn, Authorize(c) PROVE IInv'
<1> DEFINE m == Matched(view, sess[c].tok)
           r == [sess[c] EXCEPT !.st = "matched", !.gen = m.gen]
<1>1. /\ m \in Live(view) /\ m.gen \in Nat /\ m = [tok |-> sess[c].tok, gen |-> m.gen] /\ Settled(m)
      /\ sess[c].st = "hello" /\ Moved(c, r)
  BY MatchedFacts DEF Authorize
<1> HIDE DEF m
<1>2. Record(r, "matched", sess[c].tok, m.gen, sess[c].fresh, sess[c].cand)
  BY <1>1, SessionFacts, WithStationGen DEF Stations
<1> HIDE DEF r
<1>3. SessionOK(r)
  BY <1>1, <1>2, SessionFacts DEF SessionOK, Record, Candidateless
<1>4. QED
  BY <1>1, <1>2, <1>3, SessionFacts, SessionMoves DEF Authorize, Record, regVars, wire

LEMMA NothingToActivateKeeps == ASSUME IInv, NEW c \in Conn, NothingToActivate(c) PROVE IInv'
<1> DEFINE r == [sess[c] EXCEPT !.st = "activated"]
           own == [tok |-> sess[c].tok, gen |-> sess[c].gen]
<1>1. Record(r, "activated", sess[c].tok, sess[c].gen, sess[c].fresh, sess[c].cand)
  BY SessionFacts, WithStation DEF Stations
<1>2. Settled(own) /\ sess[c].st = "matched" /\ Moved(c, r)
  BY SessionFacts DEF NothingToActivate, SessionOK, Goes
<1> HIDE DEF r
<1>3. own \notin node.pend
  <2>1. own \in node.pend => own \in view.pend
    BY SessionFacts DEF IInv, Lag
  <2>2. QED
    BY <2>1 DEF NothingToActivate, Unactivated
<1>4. sess[c].tok <= node.cur.tok
  BY <1>2, <1>3 DEF Settled
<1>5. SessionOK(r)
  BY <1>1, <1>2, <1>4, SessionFacts DEF SessionOK, Record, Candidateless
<1>6. QED
  BY <1>1, <1>2, <1>5, SessionFacts, SessionMoves DEF NothingToActivate, Record, regVars, wire

LEMMA AuthorizeAgainKeeps == ASSUME IInv, NEW c \in Conn, AuthorizeAgain(c) PROVE IInv'
<1> DEFINE m == Matched(view, sess[c].tok)
           r == [sess[c] EXCEPT !.st = "admitted", !.fresh = TRUE, !.gen = m.gen]
<1>1. /\ m \in Live(view) /\ m.gen \in Nat /\ m = [tok |-> sess[c].tok, gen |-> m.gen] /\ Settled(m)
      /\ sess[c].st = "activated" /\ Moved(c, r)
  BY MatchedFacts DEF AuthorizeAgain
<1> HIDE DEF m
<1>2. Record(r, "admitted", sess[c].tok, m.gen, TRUE, sess[c].cand)
  BY <1>1, SessionFacts, WithFreshGen DEF Stations
<1> HIDE DEF r
<1>3. SessionOK(r)
  BY <1>1, <1>2, SessionFacts DEF SessionOK, Record, Candidateless
<1>4. QED
  BY <1>1, <1>2, <1>3, SessionFacts, SessionMoves DEF AuthorizeAgain, Record, regVars, wire

(* A session that is open, or on its way there, only changes its place.    *)
LEMMA PlaceChanges ==
  ASSUME IInv, NEW c \in Conn,
         NEW st \in {"open", "renewing", "staging", "sending"}, Goes(c, st),
         sess[c].st \in {"admitted", "open", "renewing", "staging"},
         st = "sending" => sess[c].cand # None,
         st = "staging" => sess[c].cand = None,
         UNCHANGED <<node, view, issued, lastTok, due, wire, agentVars>>,
         active' \in Conn \cup {NoConn}, faults' \in Nat
  PROVE  IInv'
<1> DEFINE r == [sess[c] EXCEPT !.st = st]
<1>1. Record(r, st, sess[c].tok, sess[c].gen, sess[c].fresh, sess[c].cand)
  BY SessionFacts, WithStation DEF Stations
<1>2. Moved(c, r)
  BY DEF Goes
<1> HIDE DEF r
<1>3. SessionOK(r)
  BY <1>1, SessionFacts DEF SessionOK, Record, Candidateless
<1>4. QED
  BY <1>1, <1>2, <1>3, SessionFacts, SessionMoves DEF Record, wire

LEMMA RegisterKeeps == ASSUME IInv, NEW c \in Conn, Register(c) PROVE IInv'
BY SessionFacts, PlaceChanges DEF Register, regVars

LEMMA ManualRefreshKeeps == ASSUME IInv, NEW c \in Conn, ManualRefresh(c) PROVE IInv'
BY SessionFacts, PlaceChanges DEF ManualRefresh, regVars

LEMMA BeginStageKeeps == ASSUME IInv, NEW c \in Conn, BeginStage(c) PROVE IInv'
<1>1. CASE sess[c].cand # None
  BY <1>1, SessionFacts, PlaceChanges DEF BeginStage, regVars
<1>2. CASE sess[c].cand = None /\ Stageable(view, sess[c].gen)
  BY <1>2, SessionFacts, PlaceChanges DEF BeginStage, regVars
<1>3. CASE sess[c].cand = None /\ ~Stageable(view, sess[c].gen)
  BY <1>3, SessionFacts, PlaceChanges DEF BeginStage, regVars
<1>4. QED
  BY <1>1, <1>2, <1>3

LEMMA StageRefusedKeeps == ASSUME IInv, NEW c \in Conn, StageRefused(c) PROVE IInv'
BY SessionFacts, PlaceChanges DEF StageRefused, regVars

(* A valid session goes on as checked.                                     *)
LEMMA CheckedGoesOn ==
  ASSUME IInv, NEW c \in Conn, NEW st \in {"open", "renewing", "committing"},
         Valid(c), sess[c].st = "open",
         NEW r, Moved(c, r), Record(r, st, sess[c].tok, sess[c].gen, TRUE, sess[c].cand),
         st = "committing" => sess[c].cand.tok \in Claims(c),
         UNCHANGED <<regVars, active, toAgent, agentVars, faults>>,
         \/ UNCHANGED toServer
         \/ toServer[c] # <<>> /\ toServer' = [toServer EXCEPT ![c] = Tail(toServer[c])]
  PROVE  IInv'
<1>1. SessionOK(r)
  BY SessionFacts, ValidFacts DEF SessionOK, Record, Candidateless
<1>2. QED
  BY <1>1, SessionFacts, SessionMoves DEF Record, regVars

LEMMA RevalidateKeeps == ASSUME IInv, NEW c \in Conn, Revalidate(c) PROVE IInv'
<1> DEFINE r == [sess[c] EXCEPT !.fresh = TRUE]
<1>1. Record(r, "open", sess[c].tok, sess[c].gen, TRUE, sess[c].cand)
  BY SessionFacts, WithFresh DEF Revalidate
<1> HIDE DEF r
<1>2. QED
  BY <1>1, CheckedGoesOn DEF r, Revalidate, Current, wire

LEMMA TickRefreshKeeps == ASSUME IInv, NEW c \in Conn, TickRefresh(c) PROVE IInv'
<1> DEFINE r == [sess[c] EXCEPT !.st = "renewing", !.fresh = TRUE]
<1>1. Record(r, "renewing", sess[c].tok, sess[c].gen, TRUE, sess[c].cand)
  BY SessionFacts, WithStationFresh DEF Stations
<1>2. Moved(c, r)
  BY DEF TickRefresh
<1> HIDE DEF r
<1>3. QED
  BY <1>1, <1>2, CheckedGoesOn DEF TickRefresh, Current, wire

LEMMA TakeAckKeeps == ASSUME IInv, NEW c \in Conn, TakeAck(c) PROVE IInv'
<1> DEFINE st == IF Confirms(Head(toServer[c]), sess[c]) THEN "committing" ELSE "open"
           r == [sess[c] EXCEPT !.fresh = TRUE, !.st = st]
<1>1. st \in {"open", "committing"}
  OBVIOUS
<1>2. st = "committing" => sess[c].cand.tok \in Claims(c)
  <2>1. TypeOK /\ toServer[c] # <<>> /\ toServer' = [toServer EXCEPT ![c] = Tail(toServer[c])]
    BY DEF IInv, TakeAck
  <2>2. Head(toServer[c]).persisted => Head(toServer[c]).tok \in Confirmed(c)
    BY <2>1, TakenAck
  <2>3. QED
    BY <2>2 DEF Confirms, Claims
<1>3. Moved(c, r)
  BY DEF TakeAck
<1> HIDE DEF st
<1>4. Record(r, st, sess[c].tok, sess[c].gen, TRUE, sess[c].cand)
  BY <1>1, SessionFacts, WithStationFresh DEF Stations
<1> HIDE DEF r
<1>5. QED
  BY <1>1, <1>2, <1>3, <1>4, CheckedGoesOn DEF TakeAck, Current

-----------------------------------------------------------------------------
(* Steps that end a session.                                               *)
LEMMA EndKeeps == ASSUME IInv, NEW c \in Conn, sess[c].st # "none", End(c) PROVE IInv'
BY SessionFacts, SessionEnds DEF End, regVars

LEMMA EndsKeep ==
  ASSUME IInv, NEW c \in Conn,
         Reject(c) \/ ActivationRefused(c) \/ EndStale(c) \/ CommitRefused(c) \/ PeerGone(c)
  PROVE  IInv'
<1>1. sess[c].st # "none" /\ End(c)
  BY DEF Reject, ActivationRefused, EndStale, CommitRefused, PeerGone
<1>2. QED
  BY <1>1, EndKeeps
-----------------------------------------------------------------------------
(* The agent's own steps.                                                  *)

(* The registry and the sessions stay as they are.                         *)
LEMMA SessionsStay ==
  ASSUME TypeOK, Sessions, UNCHANGED <<node, view, lastTok, sess>>,
         \A c \in Conn : sess[c].st = "none" /\ toAgent[c] = <<>> => toAgent'[c] = <<>>,
         \A c \in Conn : sess[c].st \in {"none", "closed"} /\ toServer[c] = <<>> => toServer'[c] = <<>>
  PROVE  Sessions'
<1>1. \A c \in Conn : SessionOK(sess[c])' <=> SessionOK(sess[c])
  BY DEF SessionOK, Settled
<1>2. QED
  BY <1>1 DEF Sessions

LEMMA LiveStays == ASSUME UNCHANGED view PROVE Live(view') \subseteq Live(view) /\ view'.pend = view.pend
BY DEF Live, Lasting

(* The agent leaves its connection, or restarts with what its host has.    *)
LEMMA AgentLeaves ==
  ASSUME IInv, link' = NoConn, UNCHANGED <<regVars, active, sess, wire>>, faults' \in Nat,
         \/ UNCHANGED <<mem, disk, durable, task>>
         \/ /\ disk' \in {disk, durable} /\ mem' = disk' /\ durable' = disk'
            /\ task' = NoTask
  PROVE  IInv'
<1>1. /\ TypeOK /\ RegistryInv /\ Promises /\ Lag /\ Order /\ Sessions /\ LinkInv
      /\ node' = node /\ view' = view /\ issued' = issued /\ lastTok' = lastTok /\ sess' = sess
      /\ toAgent' = toAgent /\ toServer' = toServer /\ due' = due /\ active' = active
      /\ mem \in Nat /\ disk \in Nat /\ durable \in Nat
      /\ mem <= durable /\ durable <= disk
  BY DEF IInv, regVars, wire, TypeOK, Order
<1>2. /\ mem' \in Nat /\ disk' \in Nat /\ durable' \in Nat
      /\ mem <= mem' /\ durable <= durable' /\ mem' <= durable' /\ durable' <= disk' /\ disk' <= disk
      /\ task' \in Write
  <2>1. CASE UNCHANGED <<mem, disk, durable, task>>
    BY <1>1, <2>1 DEF TypeOK
  <2>2. CASE disk' \in {disk, durable} /\ mem' = disk' /\ durable' = disk' /\ task' = NoTask
    <3>1. NoTask \in Write
      BY DEF NoTask, Write, None, Cred
    <3>2. QED
      BY <1>1, <2>2, <3>1
  <2>3. QED
    BY <2>1, <2>2
<1>3. TypeOK'
  BY <1>1, <1>2 DEF TypeOK
<1>4. RegistryInv'
  BY <1>1, RegistryStays
<1>5. task' = task \/ task'.st = "none"
  BY DEF NoTask
<1>6. Coming' \subseteq Coming
  BY <1>1, <1>5 DEF Coming
<1>7. Held' \subseteq Held /\ (mem' = mem \/ Held' = {mem'})
  <2>1. CASE UNCHANGED <<mem, disk, durable, task>>
    BY <1>6, <2>1 DEF Held
  <2>2. CASE disk' \in {disk, durable} /\ mem' = disk' /\ durable' = disk' /\ task' = NoTask
    <3>1. Coming' = {}
      BY <1>1, <2>2 DEF Coming, NoTask
    <3>2. QED
      BY <2>2, <3>1 DEF Held
  <2>3. QED
    BY <2>1, <2>2
<1>8. Claimed' = Claimed
  BY <1>1 DEF Claimed, Claims, Confirmed
<1>9. Promises' /\ Lag'
  BY <1>1, <1>2, <1>6, <1>7, <1>8, LiveStays, PromisesKeep
<1>10. Order'
  <2>1. \A t \in Held' : t <= lastTok'
    BY <1>1, <1>7 DEF Order
  <2>2. 1 <= mem' /\ mem' <= durable' /\ durable' <= disk'
    BY <1>1, <1>2 DEF Order
  <2>3. task'.st # "none" => disk' = disk /\ task' = task
    BY DEF NoTask
  <2>4. task'.st # "none" => disk' <= task'.cand.tok
    BY <1>1, <2>3 DEF Order
  <2>5. task'.st = "renamed" => disk' = task'.cand.tok
    BY <1>1, <2>3 DEF Order
  <2>6. QED
    BY <2>1, <2>2, <2>4, <2>5 DEF Order
<1>11. Sessions'
  BY <1>1, SessionsStay
<1>12. LinkInv'
  BY <1>1 DEF LinkInv, NoTask
<1>13. QED
  BY <1>3, <1>4, <1>9, <1>10, <1>11, <1>12 DEF IInv

LEMMA LeavingKeeps == ASSUME IInv, ServerLeft \/ Leave \/ AgentCrash \/ HostCrash PROVE IInv'
<1>1. faults \in Nat
  BY DEF IInv, TypeOK
<1>2. CASE ServerLeft
  BY <1>1, <1>2, AgentLeaves DEF ServerLeft
<1>3. CASE Leave
  BY <1>1, <1>3, AgentLeaves DEF Leave, Fault
<1>4. CASE AgentCrash
  BY <1>1, <1>4, AgentLeaves DEF AgentCrash, Fault
<1>5. CASE HostCrash
  BY <1>1, <1>5, AgentLeaves DEF HostCrash, Fault
<1>6. QED
  BY <1>2, <1>3, <1>4, <1>5

(* What is on its way on the agent's connection.                           *)
LEMMA LinkTypes ==
  ASSUME TypeOK, link # NoConn
  PROVE  /\ link \in Conn /\ toAgent[link] \in Seq(Cred) /\ sess[link] \in Session
         /\ toServer[link] \in Seq(Ack)
         /\ sess[link].tok \in Nat /\ sess[link].cand \in Cred /\ sess[link].cand.tok \in Nat
         /\ \A i \in DOMAIN toAgent[link] : toAgent[link][i] \in Cred /\ toAgent[link][i].tok \in Nat
         /\ task.cand \in Cred /\ task.cand.tok \in Nat
<1>1. link \in Conn /\ toAgent[link] \in Seq(Cred) /\ sess[link] \in Session /\ task \in Write
      /\ toServer[link] \in Seq(Ack)
  BY DEF TypeOK, Ack
<1>2. \A i \in DOMAIN toAgent[link] : toAgent[link][i] \in Cred
  BY <1>1, Elements
<1>3. QED
  BY <1>1, <1>2 DEF Session, Write, Cred

LEMMA ReceiveKeeps == ASSUME IInv, NEW c \in Conn, Receive(c) PROVE IInv'
<1> DEFINE q == toAgent[c]
<1>1. /\ TypeOK /\ RegistryInv /\ Promises /\ Lag /\ Order /\ Sessions /\ LinkInv
      /\ node' = node /\ view' = view /\ issued' = issued /\ lastTok' = lastTok /\ sess' = sess
      /\ toServer' = toServer /\ due' = due /\ active' = active /\ faults' = faults
      /\ mem' = mem /\ disk' = disk /\ durable' = durable /\ link' = link /\ link = c /\ c # NoConn
      /\ task = NoTask /\ q # <<>> /\ toAgent' = [toAgent EXCEPT ![c] = Tail(q)]
      /\ task' = [st |-> "writing", cand |-> Head(q), for |-> c]
      /\ mem \in Nat /\ durable \in Nat /\ disk \in Nat
  BY RenewalAssumption DEF IInv, regVars, Receive, TypeOK
<1>2. q \in Seq(Cred) /\ (\A i \in DOMAIN q : q[i] \in Cred /\ q[i].tok \in Nat)
  BY <1>1, LinkTypes
<1> HIDE DEF q
<1>3. /\ Head(q) = q[1] /\ 1 \in DOMAIN q /\ Tail(q) \in Seq(Cred)
      /\ \A i \in DOMAIN Tail(q) : i + 1 \in DOMAIN q /\ Tail(q)[i] = q[i + 1]
      /\ \A i \in DOMAIN Tail(q) : i \in Nat /\ 1 <= i + 1
  BY <1>1, <1>2
<1>4. /\ toAgent' \in [Conn -> Seq(Cred)] /\ toAgent'[c] = Tail(q)
      /\ \A d \in Conn : d # c => toAgent'[d] = toAgent[d]
  BY <1>1, <1>3 DEF TypeOK
<1>5. TypeOK'
  BY <1>1, <1>2, <1>3, <1>4 DEF TypeOK, Write
<1>6. RegistryInv'
  BY <1>1, RegistryStays
<1>7. task'.st = "writing" /\ task'.cand = q[1] /\ task'.for = c
  BY <1>1, <1>3
<1>8. Coming' \subseteq Coming /\ Held' \subseteq Held
  <2>1. Frames(c)' \subseteq Frames(c) /\ q[1].tok \in Frames(c)
    BY <1>3, <1>4 DEF Frames, q
  <2>2. Coming' \subseteq Coming
    BY <1>1, <1>7, <2>1 DEF Coming
  <2>3. QED
    BY <1>1, <2>2 DEF Held
<1>9. Claimed' = Claimed
  BY <1>1 DEF Claimed, Claims, Confirmed
<1>10. Promises' /\ Lag'
  BY <1>1, <1>8, <1>9, LiveStays, PromisesKeep
<1>11. Order'
  <2>1. \A i \in DOMAIN q : disk <= q[i].tok /\ \A j \in DOMAIN q : i <= j => q[i].tok <= q[j].tok
    BY <1>1 DEF Order, q
  <2>2. disk' <= task'.cand.tok /\ task'.st # "renamed"
    BY <1>1, <1>3, <1>7, <2>1
  <2>3. \A i \in DOMAIN toAgent'[c] : disk' <= toAgent'[c][i].tok /\ task'.cand.tok <= toAgent'[c][i].tok
    BY <1>1, <1>3, <1>4, <1>7, <2>1
  <2>4. \A i, j \in DOMAIN toAgent'[c] : i <= j => toAgent'[c][i].tok <= toAgent'[c][j].tok
    <3>1. ASSUME NEW i \in DOMAIN Tail(q), NEW j \in DOMAIN Tail(q), i <= j
          PROVE  Tail(q)[i].tok <= Tail(q)[j].tok
      <4>1. i + 1 <= j + 1
        BY <1>3, <3>1
      <4>2. QED
        BY <1>3, <2>1, <4>1
    <3>2. QED
      BY <1>4, <3>1
  <2>5. (1 <= mem' /\ mem' <= durable' /\ durable' <= disk') /\ \A t \in Held' : t <= lastTok'
    BY <1>1, <1>8 DEF Order
  <2>6. QED
    BY <1>1, <2>2, <2>3, <2>4, <2>5 DEF Order
<1>12. Sessions'
  <2>1. sess[c].st # "none"
    BY <1>1 DEF LinkInv
  <2>2. \A d \in Conn : sess[d].st = "none" /\ toAgent[d] = <<>> => toAgent'[d] = <<>>
    BY <1>4, <2>1
  <2>3. QED
    BY <1>1, <2>2, SessionsStay
<1>13. LinkInv'
  <2>1. sess[c].st # "closed" => \A i \in DOMAIN q : Given(q[i], sess[c])
    BY <1>1 DEF LinkInv, q
  <2>2. sess[c].st # "closed" => Given(task'.cand, sess[c]) /\ \A i \in DOMAIN toAgent'[c] : Given(toAgent'[c][i], sess[c])
    BY <1>3, <1>4, <1>7, <2>1
  <2>3. \A k : Given(k, sess[c])' <=> Given(k, sess[c])
    BY <1>1 DEF Given
  <2>4. QED
    BY <1>1, <1>7, <2>2, <2>3 DEF LinkInv, Given
<1>14. QED
  BY <1>5, <1>6, <1>10, <1>11, <1>12, <1>13 DEF IInv
LEMMA RenameKeeps == ASSUME IInv, Rename PROVE IInv'
<1>1. /\ TypeOK /\ RegistryInv /\ Promises /\ Lag /\ Order /\ Sessions /\ LinkInv
      /\ node' = node /\ view' = view /\ issued' = issued /\ lastTok' = lastTok /\ sess' = sess
      /\ toServer' = toServer /\ toAgent' = toAgent /\ due' = due /\ active' = active /\ faults' = faults
      /\ mem' = mem /\ disk' = task.cand.tok /\ durable' = durable /\ link' = link
      /\ task \in Write /\ task.st = "writing" /\ task' = [task EXCEPT !.st = "renamed"]
      /\ mem \in Nat /\ durable \in Nat /\ disk \in Nat
  BY DEF IInv, regVars, wire, Rename, TypeOK
<1>2. task'.st = "renamed" /\ task'.cand = task.cand /\ task'.for = task.for /\ task' \in Write /\ disk' \in Nat
  BY <1>1 DEF Write, Cred
<1>3. TypeOK'
  BY <1>1, <1>2 DEF TypeOK
<1>4. RegistryInv'
  BY <1>1, RegistryStays
<1>5. Coming' = Coming
  BY <1>1, <1>2 DEF Coming, Frames
<1>6. Held' \subseteq Held
  BY <1>1, <1>5 DEF Held, Coming
<1>7. Claimed' = Claimed
  BY <1>1 DEF Claimed, Claims, Confirmed
<1>8. Promises' /\ Lag'
  BY <1>1, <1>5, <1>6, <1>7, LiveStays, PromisesKeep
<1>9. disk <= disk'
  BY <1>1 DEF Order
<1>10. Order'
  <2>1. (1 <= mem' /\ mem' <= durable' /\ durable' <= disk') /\ \A t \in Held' : t <= lastTok'
    BY <1>1, <1>2, <1>6, <1>9 DEF Order
  <2>2. link # NoConn =>
          \A i \in DOMAIN toAgent[link] :
            /\ disk' <= toAgent[link][i].tok
            /\ \A j \in DOMAIN toAgent[link] : i <= j => toAgent[link][i].tok <= toAgent[link][j].tok
    BY <1>1 DEF Order
  <2>3. QED
    BY <1>1, <1>2, <2>1, <2>2 DEF Order
<1>11. Sessions'
  BY <1>1, SessionsStay
<1>12. LinkInv'
  <2>1. ASSUME link # NoConn, sess[link].st # "closed", sess[link].cand # None
        PROVE  disk' <= sess[link].cand.tok
    <3>1. Given(task.cand, sess[link])
      BY <1>1, <2>1 DEF LinkInv
    <3>2. sess[link].tok \in Nat /\ sess[link].cand.tok \in Nat /\ sess[link].tok < sess[link].cand.tok
      BY <1>1, <2>1, LinkTypes DEF Sessions, SessionOK
    <3>3. QED
      BY <1>1, <1>2, <3>1, <3>2 DEF Given
  <2>2. \A k : Given(k, sess[link])' <=> Given(k, sess[link])
    BY <1>1 DEF Given
  <2>3. QED
    BY <1>1, <1>2, <2>1, <2>2 DEF LinkInv, Given
<1>13. QED
  BY <1>3, <1>4, <1>8, <1>10, <1>11, <1>12 DEF IInv

(* An answer reaches the server unless it has left.                        *)
LEMMA AnswerFacts ==
  ASSUME TypeOK, Sessions, LinkInv, task.st # "none", NEW p \in BOOLEAN, Answer(p), UNCHANGED sess
  PROVE  /\ toServer' \in [Conn -> Seq(Ack)]
         /\ \A c \in Conn : sess[c].st \in {"none", "closed"} /\ toServer[c] = <<>> => toServer'[c] = <<>>
         /\ ~p => mem' = mem /\ Claimed' \subseteq Claimed
         /\ p => mem' = (IF link = NoConn THEN mem ELSE task.cand.tok)
         /\ p /\ link # NoConn => Claimed' \subseteq Claimed \cup {task.cand.tok}
         /\ link = NoConn => Claimed' \subseteq Claimed
<1>1. toServer \in [Conn -> Seq(Ack)] /\ task \in Write /\ NoConn \notin Conn
  BY RenewalAssumption DEF TypeOK, Ack
<1>2. CASE link = NoConn
  <2>1. toServer' = toServer /\ mem' = mem
    BY <1>1, <1>2 DEF Answer, LinkInv
  <2>2. QED
    BY <1>1, <1>2, <2>1 DEF Claimed, Claims, Confirmed
<1>3. CASE link # NoConn
  <2> DEFINE c == task.for
             a == [tok |-> task.cand.tok, persisted |-> p]
  <2>1. c = link /\ c \in Conn /\ task.cand.tok \in Nat /\ sess[c].st # "none"
    BY <1>3, LinkTypes DEF LinkInv
  <2>2. a \in Ack /\ a.tok = task.cand.tok /\ (a.persisted <=> p)
    BY <2>1 DEF Ack
  <2>3. mem' = IF p THEN task.cand.tok ELSE mem
    BY <2>1 DEF Answer
  <2>4. sess[c].st = "closed" \/ toServer' = [toServer EXCEPT ![c] = Append(@, a)]
    BY <2>1 DEF Answer
  <2>5. sess[c].st = "closed" => toServer' = toServer
    BY <2>1 DEF Answer
  <2> HIDE DEF c, a
  <2>6. CASE sess[c].st = "closed"
    BY <1>1, <1>3, <2>3, <2>5, <2>6 DEF Claimed, Claims, Confirmed
  <2>7. CASE sess[c].st # "closed"
    <3> DEFINE q == toServer[c]
    <3>1. q \in Seq(Ack)
      BY <1>1, <2>1
    <3> HIDE DEF q
    <3>2. /\ Append(q, a) \in Seq(Ack)
          /\ \A i \in DOMAIN Append(q, a) : (i \in DOMAIN q /\ Append(q, a)[i] = q[i]) \/ Append(q, a)[i] = a
      BY <2>2, <3>1
    <3>3. /\ toServer' \in [Conn -> Seq(Ack)] /\ toServer'[c] = Append(q, a)
          /\ \A d \in Conn : d # c => toServer'[d] = toServer[d]
      BY <1>1, <2>1, <2>4, <2>7, <3>2 DEF q
    <3>4. ASSUME NEW d \in Conn PROVE Confirmed(d)' \subseteq Confirmed(d) \cup (IF p THEN {task.cand.tok} ELSE {})
      <4>1. CASE d # c
        BY <3>3, <4>1 DEF Confirmed
      <4>2. CASE d = c
        <5>1. \A i \in DOMAIN toServer'[d] : toServer'[d][i].persisted =>
                (i \in DOMAIN toServer[d] /\ toServer'[d][i] = toServer[d][i]) \/ (p /\ toServer'[d][i].tok = task.cand.tok)
          BY <2>2, <3>2, <3>3, <4>2 DEF q
        <5>2. QED
          BY <5>1 DEF Confirmed
      <4>3. QED
        BY <4>1, <4>2
    <3>5. ASSUME NEW d \in Conn PROVE Claims(d)' \subseteq Claims(d) \cup (IF p THEN {task.cand.tok} ELSE {})
      BY <3>4 DEF Claims
    <3>6. Claimed' \subseteq Claimed \cup (IF p THEN {task.cand.tok} ELSE {})
      BY <3>5 DEF Claimed
    <3>7. \A d \in Conn : sess[d].st \in {"none", "closed"} /\ toServer[d] = <<>> => toServer'[d] = <<>>
      BY <2>1, <2>7, <3>3
    <3>8. QED
      BY <1>3, <2>3, <3>3, <3>6, <3>7
  <2>8. QED
    BY <2>6, <2>7
<1>4. QED
  BY <1>2, <1>3

LEMMA SyncedKeeps == ASSUME IInv, Synced PROVE IInv'
<1> DEFINE t == task.cand.tok
<1>1. /\ TypeOK /\ RegistryInv /\ Promises /\ Lag /\ Order /\ Sessions /\ LinkInv
      /\ node' = node /\ view' = view /\ issued' = issued /\ lastTok' = lastTok /\ sess' = sess
      /\ toAgent' = toAgent /\ due' = due /\ active' = active /\ faults' = faults
      /\ disk' = disk /\ durable' = disk /\ link' = link
      /\ task.st = "renamed" /\ task' = NoTask /\ Answer(TRUE)
      /\ mem \in Nat /\ durable \in Nat /\ disk \in Nat
  BY DEF IInv, regVars, wire, Synced, TypeOK, DirectorySynced
<1>2. /\ toServer' \in [Conn -> Seq(Ack)]
      /\ \A c \in Conn : sess[c].st \in {"none", "closed"} /\ toServer[c] = <<>> => toServer'[c] = <<>>
      /\ mem' = (IF link = NoConn THEN mem ELSE t)
      /\ link # NoConn => Claimed' \subseteq Claimed \cup {t}
      /\ link = NoConn => Claimed' \subseteq Claimed
  BY <1>1, AnswerFacts
<1>3. disk = t /\ 1 <= mem /\ mem <= durable /\ durable <= disk /\ node.cur.tok \in Nat
  BY <1>1, Registry DEF Order
<1>4. mem' \in Nat /\ mem <= mem' /\ mem' <= disk /\ t \in Nat
  BY <1>1, <1>2, <1>3
<1>5. NoTask \in Write /\ NoTask.st = "none"
  BY DEF NoTask, Write, None, Cred
<1>6. TypeOK'
  BY <1>1, <1>2, <1>4, <1>5 DEF TypeOK, Ack
<1>7. RegistryInv'
  BY <1>1, RegistryStays
<1>8. Coming' \subseteq Coming
  BY <1>1, <1>5 DEF Coming, Frames
<1>9. t \in Coming
  BY <1>1 DEF Coming
<1>10. Held' \subseteq Held
  BY <1>1, <1>2, <1>3, <1>8 DEF Held
<1>11. ASSUME link # NoConn, t > node.cur.tok PROVE Held' = {t}
  <2>1. \A i \in DOMAIN toAgent[link] : t <= toAgent[link][i].tok
    BY <1>1, <1>11 DEF Order
  <2>2. sess[link].cand # None => t <= sess[link].cand.tok
    <3>1. sess[link].cand # None => sess[link].st # "closed"
      BY <1>1, <1>11, LinkTypes DEF Sessions, SessionOK, Candidateless
    <3>2. QED
      BY <1>1, <1>3, <1>11, <3>1 DEF LinkInv
  <2>3. ASSUME NEW u \in Coming' PROVE u = t
    <3>1. u \in Nat /\ t <= u
      <4>1. u \in Frames(link) \/ (sess[link].cand # None /\ u = sess[link].cand.tok)
        BY <1>1, <1>5, <2>3 DEF Coming, Frames
      <4>2. CASE u \in Frames(link)
        BY <1>1, <1>11, <2>1, <4>2, LinkTypes DEF Frames
      <4>3. CASE sess[link].cand # None /\ u = sess[link].cand.tok
        BY <1>1, <1>11, <2>2, <4>3, LinkTypes
      <4>4. QED
        BY <4>1, <4>2, <4>3
    <3>2. u > node.cur.tok
      BY <1>3, <1>4, <1>11, <3>1
    <3>3. QED
      BY <1>1, <1>8, <1>9, <1>11, <2>3, <3>2 DEF Promises
  <2>4. mem' = t /\ disk' = t /\ durable' = t
    BY <1>1, <1>2, <1>3, <1>11
  <2>5. QED
    BY <2>3, <2>4 DEF Held
<1>12. mem' = mem \/ mem' <= node.cur.tok \/ Held' = {mem'}
  <2>1. CASE link = NoConn
    BY <1>2, <2>1
  <2>2. CASE link # NoConn
    BY <1>2, <1>3, <1>4, <1>11, <2>2
  <2>3. QED
    BY <2>1, <2>2
<1>13. Promises' /\ Lag'
  <2>1. Claimed' \subseteq Claimed \cup {0, mem'}
    BY <1>2
  <2>2. node'.cur = node.cur /\ node'.pend = node.pend /\ durable' \in Nat /\ durable <= durable'
    BY <1>1, <1>3
  <2>3. QED
    BY <1>1, <1>4, <1>8, <1>10, <1>12, <2>1, <2>2, LiveStays, PromisesKeep
<1>14. Order'
  <2>1. \A u \in Held' : u <= lastTok'
    BY <1>1, <1>10 DEF Order
  <2>2. 1 <= mem' /\ mem' <= durable' /\ durable' <= disk'
    BY <1>1, <1>3, <1>4
  <2>3. QED
    BY <1>1, <1>5, <2>1, <2>2 DEF Order
<1>15. Sessions'
  BY <1>1, <1>2, SessionsStay
<1>16. LinkInv'
  <2>1. ASSUME link # NoConn, sess[link].st # "closed"
        PROVE  mem' = sess[link].tok \/ (sess[link].cand # None /\ mem' = sess[link].cand.tok)
    <3>1. mem' = t /\ (t <= sess[link].tok \/ task.cand = sess[link].cand)
      BY <1>1, <1>2, <2>1 DEF LinkInv, Given
    <3>2. mem = sess[link].tok \/ (sess[link].cand # None /\ mem = sess[link].cand.tok)
      BY <1>1, <2>1 DEF LinkInv
    <3>3. /\ sess[link].tok \in Nat /\ sess[link].cand.tok \in Nat
          /\ sess[link].cand # None => sess[link].tok < sess[link].cand.tok
      BY <1>1, <2>1, LinkTypes DEF Sessions, SessionOK
    <3>4. CASE t <= sess[link].tok
      BY <1>3, <1>1, <1>4, <3>1, <3>2, <3>3, <3>4
    <3>5. CASE task.cand = sess[link].cand
      <4>1. t >= 1
        BY <1>1, <1>3
      <4>2. sess[link].cand # None
        BY <3>5, <4>1 DEF None
      <4>3. QED
        BY <3>1, <3>5, <4>2
    <3>6. QED
      BY <3>1, <3>4, <3>5
  <2>2. \A k : Given(k, sess[link])' <=> Given(k, sess[link])
    BY <1>1 DEF Given
  <2>3. QED
    BY <1>1, <1>5, <2>1, <2>2 DEF LinkInv, Given
<1>17. QED
  BY <1>6, <1>7, <1>13, <1>14, <1>15, <1>16 DEF IInv
LEMMA WriteFailsKeeps == ASSUME IInv, WriteFails PROVE IInv'
<1>1. /\ TypeOK /\ RegistryInv /\ Promises /\ Lag /\ Order /\ Sessions /\ LinkInv
      /\ node' = node /\ view' = view /\ issued' = issued /\ lastTok' = lastTok /\ sess' = sess
      /\ toAgent' = toAgent /\ due' = due /\ active' = active /\ faults' \in Nat
      /\ disk' = disk /\ durable' \in {durable, disk} /\ link' = link
      /\ task.st # "none" /\ task' = NoTask /\ Answer(FALSE)
      /\ mem \in Nat /\ durable \in Nat /\ disk \in Nat
  <2>1. TypeOK /\ RegistryInv /\ Promises /\ Lag /\ Order /\ Sessions /\ LinkInv
    BY DEF IInv
  <2>2. mem \in Nat /\ durable \in Nat /\ disk \in Nat /\ faults \in Nat
    BY <2>1 DEF TypeOK
  <2>3. faults' \in Nat
    BY <2>2 DEF WriteFails, Fault
  <2>4. durable' \in {durable, disk} /\ task.st # "none"
    BY Zenon DEF WriteFails
  <2>5. QED
    BY <2>1, <2>2, <2>3, <2>4 DEF WriteFails, regVars
<1>2. /\ toServer' \in [Conn -> Seq(Ack)]
      /\ \A c \in Conn : sess[c].st \in {"none", "closed"} /\ toServer[c] = <<>> => toServer'[c] = <<>>
      /\ mem' = mem /\ Claimed' \subseteq Claimed
  BY <1>1, AnswerFacts
<1>3. 1 <= mem /\ mem <= durable /\ durable <= disk
  BY <1>1 DEF Order
<1>4. durable' \in Nat /\ durable <= durable' /\ durable' <= disk
  BY <1>1, <1>3
<1>5. NoTask \in Write /\ NoTask.st = "none"
  BY DEF NoTask, Write, None, Cred
<1>6. TypeOK'
  BY <1>1, <1>2, <1>4, <1>5 DEF TypeOK, Ack
<1>7. RegistryInv'
  BY <1>1, RegistryStays
<1>8. Coming' \subseteq Coming
  BY <1>1, <1>5 DEF Coming, Frames
<1>9. Held' \subseteq Held
  BY <1>1, <1>2, <1>8 DEF Held
<1>10. Promises' /\ Lag'
  <2>1. Claimed' \subseteq Claimed \cup {0, mem'} /\ mem' \in Nat /\ mem <= mem'
    BY <1>1, <1>2
  <2>2. node'.cur = node.cur /\ node'.pend = node.pend
    BY <1>1
  <2>3. QED
    BY <1>1, <1>2, <1>4, <1>8, <1>9, <2>1, <2>2, LiveStays, PromisesKeep
<1>11. Order'
  <2>1. \A u \in Held' : u <= lastTok'
    BY <1>1, <1>9 DEF Order
  <2>2. 1 <= mem' /\ mem' <= durable' /\ durable' <= disk'
    BY <1>1, <1>2, <1>3, <1>4
  <2>3. QED
    BY <1>1, <1>5, <2>1, <2>2 DEF Order
<1>12. Sessions'
  BY <1>1, <1>2, SessionsStay
<1>13. LinkInv'
  <2>1. \A k : Given(k, sess[link])' <=> Given(k, sess[link])
    BY <1>1 DEF Given
  <2>2. QED
    BY <1>1, <1>2, <1>5, <2>1 DEF LinkInv, Given
<1>14. QED
  BY <1>6, <1>7, <1>10, <1>11, <1>12, <1>13 DEF IInv

LEMMA ReinstallKeeps == ASSUME IInv, Reinstall PROVE IInv'
<1>1. /\ TypeOK /\ RegistryInv /\ Promises /\ Lag /\ Order /\ Sessions /\ LinkInv
      /\ node' = node /\ view' = view /\ issued' = issued /\ lastTok' = lastTok /\ sess' = sess
      /\ toAgent' = toAgent /\ toServer' = toServer /\ due' = due /\ active' = active /\ faults' = faults
      /\ disk' = issued /\ durable' = issued /\ mem' = issued /\ link' = NoConn /\ task' = NoTask
      /\ disk < issued /\ mem \in Nat /\ durable \in Nat /\ disk \in Nat
  BY DEF IInv, regVars, wire, Reinstall, TypeOK
<1>2. /\ issued \in Nat /\ 1 <= issued /\ issued <= lastTok /\ node.cur.tok \in Nat /\ lastTok \in Nat
      /\ \A k \in node.pend : k.tok \in Nat /\ k.tok > node.cur.tok
      /\ issued <= node.cur.tok
  BY <1>1, Registry
<1>3. mem < issued /\ durable < issued /\ node.cur.tok = issued
  BY <1>1, <1>2 DEF Order, Promises
<1>4. NoTask \in Write /\ NoTask.st = "none"
  BY DEF NoTask, Write, None, Cred
<1>5. TypeOK'
  BY <1>1, <1>2, <1>4 DEF TypeOK
<1>6. RegistryInv'
  BY <1>1, RegistryStays
<1>7. Coming' = {} /\ Held' = {issued}
  <2>1. Coming' = {}
    BY <1>1, <1>4 DEF Coming
  <2>2. QED
    BY <1>1, <2>1 DEF Held
<1>8. Claimed' = Claimed
  BY <1>1 DEF Claimed, Claims, Confirmed
<1>9. \A t \in Claimed : t \in Nat /\ t < issued
  BY <1>1, <1>2, <1>3, ClaimTypes DEF Promises
<1>10. \A k \in node.pend : k.tok # issued /\ k.tok \notin Claimed
  BY <1>2, <1>3, <1>9
<1>11. Promises'
  BY <1>1, <1>2, <1>3, <1>7, <1>8, <1>9, <1>10 DEF Promises, Staged
<1>12. Lag'
  BY <1>1, <1>7, <1>8, <1>10 DEF Lag, Settled, Live, Lasting
<1>13. Order'
  BY <1>1, <1>2, <1>4, <1>7 DEF Order
<1>14. Sessions'
  BY <1>1, SessionsStay
<1>15. LinkInv'
  BY <1>1, <1>4 DEF LinkInv
<1>16. QED
  BY <1>5, <1>6, <1>11, <1>12, <1>13, <1>14, <1>15 DEF IInv

-----------------------------------------------------------------------------
(* Connections.                                                            *)

(* Another session than the one that moved is as it was.                   *)
LEMMA OtherSession ==
  ASSUME Sessions, NEW d \in Conn, UNCHANGED <<node, view, lastTok>>, sess'[d] = sess[d]
  PROVE  SessionOK(sess[d])'
<1>1. SessionOK(sess[d])
  BY DEF Sessions
<1>2. QED
  BY <1>1 DEF SessionOK, Settled

LEMMA HelloKeeps ==
  ASSUME IInv, NEW c \in Conn, NEW t, Hello(c, t), durable' \in {durable, disk}, faults' \in Nat,
         (t = disk /\ durable' = disk) \/ t = mem
  PROVE  IInv'
<1> DEFINE r == [NoSession EXCEPT !.st = "hello", !.tok = t]
<1>1. /\ TypeOK /\ RegistryInv /\ Promises /\ Lag /\ Order /\ Sessions /\ LinkInv
      /\ node' = node /\ view' = view /\ issued' = issued /\ lastTok' = lastTok
      /\ toAgent' = toAgent /\ toServer' = toServer /\ due' = due /\ active' = active
      /\ disk' = disk /\ mem' = t /\ link = NoConn /\ link' = c /\ task = NoTask /\ task' = NoTask
      /\ sess \in [Conn -> Session] /\ sess[c].st = "none" /\ sess' = [sess EXCEPT ![c] = r]
      /\ mem \in Nat /\ durable \in Nat /\ disk \in Nat /\ c # NoConn
  BY RenewalAssumption DEF IInv, regVars, wire, Hello, TypeOK, Moved
<1>2. 1 <= mem /\ mem <= durable /\ durable <= disk
  BY <1>1 DEF Order
<1>3. /\ t \in Nat /\ mem <= t /\ t <= durable' /\ durable' \in Nat /\ durable <= durable' /\ durable' <= disk
  BY <1>1, <1>2
<1>4. r \in Session /\ r.st = "hello" /\ r.tok = t /\ r.gen = 0 /\ ~r.fresh /\ r.cand = None
  <2>1. NoSession \in Session /\ ~NoSession.fresh /\ NoSession.tok = 0 /\ NoSession.gen = 0 /\ NoSession.cand = None
    BY DEF NoSession, Session, Stations, None, Cred
  <2>2. \A s \in Session : LET x == [s EXCEPT !.st = "hello", !.tok = t]
                          IN  x \in Session /\ x.st = "hello" /\ x.tok = t /\ x.gen = s.gen
                              /\ (x.fresh <=> s.fresh) /\ x.cand = s.cand
    BY <1>3 DEF Session, Stations
  <2>3. QED
    BY <2>1, <2>2, Zenon
<1> HIDE DEF r
<1>5. /\ sess' \in [Conn -> Session] /\ sess'[c] = r /\ \A d \in Conn : d # c => sess'[d] = sess[d]
  BY <1>1, <1>4
<1>6. NoTask \in Write /\ NoTask.st = "none"
  BY DEF NoTask, Write, None, Cred
<1>7. TypeOK'
  BY <1>1, <1>3, <1>5, <1>6 DEF TypeOK
<1>8. RegistryInv'
  BY <1>1, RegistryStays
<1>9. toAgent[c] = <<>> /\ toServer[c] = <<>>
  BY <1>1 DEF Sessions
<1>10. Coming' = {}
  BY <1>1, <1>4, <1>5, <1>6, <1>9 DEF Coming, Frames
<1>11. Held' \subseteq Held /\ (mem' = mem \/ Held' = {mem'})
  BY <1>1, <1>10 DEF Held
<1>12. Claimed' \subseteq Claimed \cup {0, mem'}
  <2>1. ASSUME NEW d \in Conn PROVE Claims(d)' \subseteq Claims(d) \cup {mem'}
    <3>1. CASE d = c
      BY <1>1, <1>4, <1>5, <1>9, <3>1 DEF Claims, Confirmed
    <3>2. CASE d # c
      BY <1>1, <1>5, <3>2 DEF Claims, Confirmed
    <3>3. QED
      BY <3>1, <3>2
  <2>2. QED
    BY <2>1 DEF Claimed
<1>13. Promises' /\ Lag'
  <2>1. node'.cur = node.cur /\ node'.pend = node.pend /\ Coming' \subseteq Coming
    BY <1>1, <1>10
  <2>2. mem' \in Nat /\ mem <= mem'
    BY <1>1, <1>3
  <2>3. QED
    BY <1>1, <1>3, <1>11, <1>12, <2>1, <2>2, LiveStays, PromisesKeep
<1>14. Order'
  <2>1. \A u \in Held' : u <= lastTok'
    BY <1>1, <1>11 DEF Order
  <2>2. 1 <= mem' /\ mem' <= durable' /\ durable' <= disk'
    BY <1>1, <1>2, <1>3
  <2>3. QED
    BY <1>1, <1>6, <1>9, <2>1, <2>2 DEF Order
<1>15. Sessions'
  <2>1. SessionOK(sess[c])'
    BY <1>4, <1>5 DEF SessionOK, Candidateless
  <2>2. \A d \in Conn : SessionOK(sess[d])'
    BY <1>1, <1>5, <2>1, OtherSession
  <2>3. \A d \in Conn : sess'[d].st = "none" => toAgent'[d] = <<>>
    BY <1>1, <1>4, <1>5 DEF Sessions
  <2>4. \A d \in Conn : sess'[d].st \in {"none", "closed"} => toServer'[d] = <<>>
    BY <1>1, <1>4, <1>5 DEF Sessions
  <2>5. QED
    BY <2>2, <2>3, <2>4 DEF Sessions
<1>16. LinkInv'
  BY <1>1, <1>4, <1>5, <1>6, <1>9 DEF LinkInv
<1>17. QED
  BY <1>7, <1>8, <1>13, <1>14, <1>15, <1>16 DEF IInv

LEMMA ConnectKeeps == ASSUME IInv, NEW c \in Conn, Connect(c) \/ ConnectUnloaded(c) PROVE IInv'
<1>1. faults \in Nat
  BY DEF IInv, TypeOK
<1>2. CASE Connect(c)
  BY <1>1, <1>2, HelloKeeps DEF Connect
<1>3. CASE ConnectUnloaded(c)
  BY <1>1, <1>3, HelloKeeps DEF ConnectUnloaded, Fault
<1>4. QED
  BY <1>2, <1>3

LEMMA ForgetKeeps == ASSUME IInv, NEW c \in Conn, Forget(c) PROVE IInv'
<1>1. /\ TypeOK /\ RegistryInv /\ Promises /\ Lag /\ Order /\ Sessions /\ LinkInv
      /\ node' = node /\ view' = view /\ issued' = issued /\ lastTok' = lastTok
      /\ toServer' = toServer /\ due' = due /\ active' = active /\ faults' = faults
      /\ disk' = disk /\ mem' = mem /\ durable' = durable /\ link' = link /\ task' = task /\ link # c
      /\ sess \in [Conn -> Session] /\ sess[c].st = "closed"
      /\ sess' = [sess EXCEPT ![c] = NoSession] /\ toAgent' = [toAgent EXCEPT ![c] = <<>>]
      /\ mem \in Nat /\ durable \in Nat
  BY DEF IInv, regVars, agentVars, Forget, TypeOK, Moved
<1>2. /\ NoSession \in Session /\ ~NoSession.fresh /\ NoSession.tok = 0 /\ NoSession.gen = 0
      /\ NoSession.cand = None /\ NoSession.st = "none"
  BY DEF NoSession, Session, Stations, None, Cred
<1>3. /\ sess' \in [Conn -> Session] /\ sess'[c] = NoSession /\ \A d \in Conn : d # c => sess'[d] = sess[d]
  BY <1>1, <1>2
<1>4. /\ toAgent' \in [Conn -> Seq(Cred)] /\ toAgent'[c] = <<>> /\ \A d \in Conn : d # c => toAgent'[d] = toAgent[d]
  BY <1>1 DEF TypeOK
<1>5. TypeOK'
  BY <1>1, <1>3, <1>4 DEF TypeOK
<1>6. RegistryInv'
  BY <1>1, RegistryStays
<1>7. link # NoConn => link \in Conn /\ sess'[link] = sess[link] /\ toAgent'[link] = toAgent[link]
  BY <1>1, <1>3, <1>4 DEF TypeOK
<1>8. Coming' = Coming /\ Held' = Held
  <2>1. Coming' = Coming
    BY <1>1, <1>7 DEF Coming, Frames
  <2>2. QED
    BY <1>1, <2>1 DEF Held
<1>9. Claimed' \subseteq Claimed \cup {0, mem'}
  <2>1. ASSUME NEW d \in Conn PROVE Claims(d)' \subseteq Claims(d) \cup {0}
    <3>1. CASE d = c
      BY <1>1, <1>2, <1>3, <3>1 DEF Claims, Confirmed
    <3>2. CASE d # c
      BY <1>1, <1>3, <3>2 DEF Claims, Confirmed
    <3>3. QED
      BY <3>1, <3>2
  <2>2. QED
    BY <2>1 DEF Claimed
<1>10. Promises' /\ Lag'
  <2>1. Held' \subseteq Held /\ Coming' \subseteq Coming /\ mem <= mem' /\ durable <= durable' /\ mem' \in Nat /\ durable' \in Nat
    BY <1>1, <1>8
  <2>2. node'.cur = node.cur /\ node'.pend = node.pend
    BY <1>1
  <2>3. QED
    BY <1>1, <1>9, <2>1, <2>2, LiveStays, PromisesKeep
<1>11. Order'
  BY <1>1, <1>7, <1>8 DEF Order
<1>12. Sessions'
  <2>1. SessionOK(sess[c])'
    <3>1. node.cur.tok >= 0 /\ node.cur.gen >= 0
      BY <1>1, Registry
    <3>2. QED
      BY <1>1, <1>2, <1>3, <3>1 DEF SessionOK, Settled
  <2>2. \A d \in Conn : SessionOK(sess[d])'
    BY <1>1, <1>3, <2>1, OtherSession
  <2>3. \A d \in Conn : sess'[d].st = "none" => toAgent'[d] = <<>>
    BY <1>1, <1>3, <1>4 DEF Sessions
  <2>4. \A d \in Conn : sess'[d].st \in {"none", "closed"} => toServer'[d] = <<>>
    BY <1>1, <1>2, <1>3 DEF Sessions
  <2>5. QED
    BY <2>2, <2>3, <2>4 DEF Sessions
<1>13. LinkInv'
  BY <1>1, <1>7 DEF LinkInv, Given
<1>14. QED
  BY <1>5, <1>6, <1>10, <1>11, <1>12, <1>13 DEF IInv
LEMMA SendKeeps == ASSUME IInv, NEW c \in Conn, Send(c) PROVE IInv'
<1> DEFINE r == [sess[c] EXCEPT !.st = "open"]
           k == sess[c].cand
           q == toAgent[c]
<1>1. /\ TypeOK /\ RegistryInv /\ Promises /\ Lag /\ Order /\ Sessions /\ LinkInv
      /\ node' = node /\ view' = view /\ issued' = issued /\ lastTok' = lastTok
      /\ toServer' = toServer /\ due' = due /\ active' = active /\ faults' = faults
      /\ disk' = disk /\ mem' = mem /\ durable' = durable /\ link' = link /\ task' = task
      /\ sess \in [Conn -> Session] /\ sess[c].st = "sending"
      /\ sess' = [sess EXCEPT ![c] = r] /\ toAgent' = [toAgent EXCEPT ![c] = Append(q, k)]
      /\ mem \in Nat /\ durable \in Nat /\ disk \in Nat /\ toAgent \in [Conn -> Seq(Cred)]
  BY DEF IInv, regVars, agentVars, Send, TypeOK, Moved, Goes
<1>2. Record(r, "open", sess[c].tok, sess[c].gen, sess[c].fresh, k)
  BY SessionFacts, WithStation DEF Stations
<1>3. k # None /\ k \in Cred /\ k.tok \in Nat /\ sess[c].tok \in Nat /\ sess[c].tok < k.tok /\ k.tok <= lastTok
  BY <1>1 DEF Session, Cred, Sessions, SessionOK
<1> HIDE DEF r
<1>4. /\ sess' \in [Conn -> Session] /\ sess'[c] = r /\ \A d \in Conn : d # c => sess'[d] = sess[d]
  BY <1>1, <1>2 DEF Record
<1>5. q \in Seq(Cred)
  BY <1>1
<1> HIDE DEF q
<1>6. /\ Append(q, k) \in Seq(Cred)
      /\ \A i \in DOMAIN Append(q, k) :
           /\ i \in Nat /\ i <= Len(q) + 1
           /\ (i \in DOMAIN q /\ Append(q, k)[i] = q[i]) \/ (i = Len(q) + 1 /\ Append(q, k)[i] = k)
      /\ \A i \in DOMAIN q : i \in Nat /\ i <= Len(q) /\ q[i] \in Cred
      /\ Len(q) \in Nat
  BY <1>3, <1>5
<1>7. /\ toAgent' \in [Conn -> Seq(Cred)] /\ toAgent'[c] = Append(q, k)
      /\ \A d \in Conn : d # c => toAgent'[d] = toAgent[d]
  BY <1>1, <1>6
<1> HIDE DEF k
<1>8. TypeOK'
  BY <1>1, <1>4, <1>7 DEF TypeOK
<1>9. RegistryInv'
  BY <1>1, RegistryStays
<1>10. link # NoConn => link \in Conn
  BY <1>1 DEF TypeOK
<1>11. Frames(c)' \subseteq Frames(c) \cup {k.tok}
  <2>1. \A i \in DOMAIN toAgent'[c] : (i \in DOMAIN toAgent[c] /\ toAgent'[c][i] = toAgent[c][i]) \/ toAgent'[c][i] = k
    BY <1>6, <1>7 DEF q
  <2>2. QED
    BY <2>1 DEF Frames
<1>12. Coming' \subseteq Coming
  <2>1. CASE link = c
    <3>1. Coming' \subseteq Coming \cup {k.tok}
      BY <1>1, <1>2, <1>4, <1>11, <2>1 DEF Coming, Record, k
    <3>2. link # NoConn
      BY <2>1, RenewalAssumption
    <3>3. k.tok \in Coming
      BY <1>3, <2>1, <3>2 DEF Coming, k
    <3>4. QED
      BY <3>1, <3>3
  <2>2. CASE link # c
    BY <1>1, <1>4, <1>7, <1>10, <2>2 DEF Coming, Frames
  <2>3. QED
    BY <2>1, <2>2
<1>13. Held' \subseteq Held
  BY <1>1, <1>12 DEF Held
<1>14. Claimed' \subseteq Claimed \cup {0, mem'}
  <2>1. ASSUME NEW d \in Conn PROVE Claims(d)' \subseteq Claims(d)
    <3>1. CASE d = c
      BY <1>1, <1>2, <1>4, <3>1 DEF Claims, Confirmed, Record
    <3>2. CASE d # c
      BY <1>1, <1>4, <3>2 DEF Claims, Confirmed
    <3>3. QED
      BY <3>1, <3>2
  <2>2. QED
    BY <2>1 DEF Claimed
<1>15. Promises' /\ Lag'
  <2>1. mem <= mem' /\ durable <= durable' /\ mem' \in Nat /\ durable' \in Nat /\ mem' = mem
    BY <1>1
  <2>2. node'.cur = node.cur /\ node'.pend = node.pend
    BY <1>1
  <2>3. QED
    BY <1>1, <1>12, <1>13, <1>14, <2>1, <2>2, LiveStays, PromisesKeep
<1>16. ASSUME link = c
       PROVE  /\ disk <= k.tok
              /\ task.st # "none" => task.cand.tok <= k.tok
              /\ \A i \in DOMAIN q : q[i].tok <= k.tok
  <2>1. link # NoConn
    BY <1>16, RenewalAssumption
  <2>2. disk <= k.tok /\ (task.st # "none" => Given(task.cand, sess[c])) /\ \A i \in DOMAIN q : Given(q[i], sess[c])
    BY <1>1, <1>3, <1>16, <2>1 DEF LinkInv, k, q
  <2>3. \A x : x.tok \in Nat /\ Given(x, sess[c]) => x.tok <= k.tok
    BY <1>3 DEF Given, k
  <2>4. task.cand.tok \in Nat /\ \A i \in DOMAIN q : q[i].tok \in Nat
    BY <1>1, <1>16, <2>1, LinkTypes DEF q
  <2>5. QED
    BY <2>2, <2>3, <2>4
<1>17. Order'
  <2>1. (\A u \in Held' : u <= lastTok') /\ (1 <= mem' /\ mem' <= durable' /\ durable' <= disk')
    BY <1>1, <1>13 DEF Order
  <2>2. CASE link = c
    <3>1. \A i \in DOMAIN q :
            /\ disk <= q[i].tok
            /\ task.st # "none" => task.cand.tok <= q[i].tok
            /\ \A j \in DOMAIN q : i <= j => q[i].tok <= q[j].tok
      BY <1>1, <2>2, RenewalAssumption DEF Order, q
    <3>2. \A i \in DOMAIN Append(q, k) :
            /\ disk <= Append(q, k)[i].tok
            /\ task.st # "none" => task.cand.tok <= Append(q, k)[i].tok
      BY <1>6, <1>16, <2>2, <3>1
    <3>3. ASSUME NEW i \in DOMAIN Append(q, k), NEW j \in DOMAIN Append(q, k), i <= j
          PROVE  Append(q, k)[i].tok <= Append(q, k)[j].tok
      <4>1. CASE j \in DOMAIN q /\ Append(q, k)[j] = q[j]
        BY <1>6, <3>1, <3>3, <4>1
      <4>2. CASE j = Len(q) + 1 /\ Append(q, k)[j] = k
        <5>1. CASE i \in DOMAIN q /\ Append(q, k)[i] = q[i]
          BY <1>16, <2>2, <4>2, <5>1
        <5>2. CASE Append(q, k)[i] = k
          BY <1>3, <4>2, <5>2 DEF k
        <5>3. QED
          BY <1>6, <5>1, <5>2
      <4>3. QED
        BY <1>6, <4>1, <4>2
    <3>4. QED
      BY <1>1, <1>7, <2>1, <2>2, <3>2, <3>3 DEF Order
  <2>3. CASE link # c
    BY <1>1, <1>7, <1>10, <2>1, <2>3 DEF Order
  <2>4. QED
    BY <2>2, <2>3
<1>18. Sessions'
  <2>1. SessionOK(sess[c])
    BY <1>1 DEF Sessions
  <2>2. SessionOK(sess[c])'
    BY <1>1, <1>2, <1>4, <2>1 DEF SessionOK, Settled, Candidateless, Record, k
  <2>3. \A d \in Conn : SessionOK(sess[d])'
    BY <1>1, <1>4, <2>2, OtherSession
  <2>4. \A d \in Conn : sess'[d].st = "none" => toAgent'[d] = <<>>
    BY <1>1, <1>2, <1>4, <1>7 DEF Sessions, Record
  <2>5. \A d \in Conn : sess'[d].st \in {"none", "closed"} => toServer'[d] = <<>>
    BY <1>1, <1>2, <1>4 DEF Sessions, Record
  <2>6. QED
    BY <2>3, <2>4, <2>5 DEF Sessions
<1>19. LinkInv'
  <2>1. CASE link = c
    <3>1. link # NoConn
      BY <2>1, RenewalAssumption
    <3>2. \A i \in DOMAIN toAgent'[c] : Given(toAgent'[c][i], sess[c])
      BY <1>1, <1>6, <1>7, <2>1, <3>1 DEF LinkInv, Given, k, q
    <3>3. r.tok = sess[c].tok /\ r.cand = sess[c].cand /\ r.st = "open"
      BY <1>2 DEF Record, k
    <3>4. QED
      BY <1>1, <1>4, <2>1, <3>1, <3>2, <3>3 DEF LinkInv, Given
  <2>2. CASE link # c
    BY <1>1, <1>4, <1>7, <1>10, <2>2 DEF LinkInv, Given
  <2>3. QED
    BY <2>1, <2>2
<1>20. QED
  BY <1>8, <1>9, <1>15, <1>17, <1>18, <1>19 DEF IInv

LEMMA AdoptKeeps == ASSUME IInv, NEW c \in Conn, Adopt(c) PROVE IInv'
<1> DEFINE r == Adopted(sess[c])
           k == sess[c].cand
<1>1. /\ TypeOK /\ RegistryInv /\ Promises /\ Lag /\ Order /\ Sessions /\ LinkInv
      /\ node' = node /\ view' = view /\ issued' = issued /\ lastTok' = lastTok
      /\ toServer' = toServer /\ toAgent' = toAgent /\ due' = due /\ active' = active /\ faults' = faults
      /\ disk' = disk /\ mem' = mem /\ durable' = durable /\ link' = link /\ task' = task
      /\ sess \in [Conn -> Session] /\ sess[c].st = "committed" /\ sess' = [sess EXCEPT ![c] = r]
      /\ mem \in Nat /\ durable \in Nat /\ disk \in Nat
  BY DEF IInv, regVars, agentVars, wire, Adopt, TypeOK, Moved
<1>2. /\ k # None /\ k \in Cred /\ k.tok \in Nat /\ k.gen \in Nat /\ sess[c].tok \in Nat /\ sess[c].tok < k.tok
      /\ k.tok <= node.cur.tok /\ k.gen <= node.cur.gen
  BY <1>1 DEF Session, Cred, Sessions, SessionOK
<1>3. k.tok \in Claims(c)
  BY <1>1 DEF Claims
<1>4. r.st = "open" /\ r.tok = k.tok /\ r.gen = k.gen /\ ~r.fresh /\ r.cand = None /\ r \in Session
  <2>1. None \in Cred
    BY DEF None, Cred
  <2>2. ASSUME NEW t \in Nat, NEW g \in Nat, NEW n \in Cred
        PROVE  LET x == [st |-> "open", tok |-> t, gen |-> g, fresh |-> FALSE, cand |-> n]
               IN  x \in Session /\ x.st = "open" /\ x.tok = t /\ x.gen = g /\ ~x.fresh /\ x.cand = n
    BY DEF Session, Stations
  <2>3. QED
    BY <1>2, <2>1, <2>2, Zenon DEF Adopted
<1> HIDE DEF r, k
<1>5. /\ sess' \in [Conn -> Session] /\ sess'[c] = r /\ \A d \in Conn : d # c => sess'[d] = sess[d]
  BY <1>1, <1>4
<1>6. TypeOK'
  BY <1>1, <1>5 DEF TypeOK
<1>7. RegistryInv'
  BY <1>1, RegistryStays
<1>8. link # NoConn => link \in Conn
  BY <1>1 DEF TypeOK
<1>9. Coming' \subseteq Coming /\ Held' \subseteq Held
  <2>1. link # NoConn => sess'[link] = sess[link] \/ sess'[link].cand = None
    BY <1>4, <1>5, <1>8
  <2>2. Coming' \subseteq Coming
    BY <1>1, <2>1 DEF Coming, Frames
  <2>3. QED
    BY <1>1, <2>2 DEF Held
<1>10. Claimed' \subseteq Claimed \cup {0, mem'}
  <2>1. ASSUME NEW d \in Conn PROVE Claims(d)' \subseteq Claims(d)
    <3>1. CASE d = c
      BY <1>1, <1>3, <1>4, <1>5, <3>1 DEF Claims, Confirmed
    <3>2. CASE d # c
      BY <1>1, <1>5, <3>2 DEF Claims, Confirmed
    <3>3. QED
      BY <3>1, <3>2
  <2>2. QED
    BY <2>1 DEF Claimed
<1>11. Promises' /\ Lag'
  <2>1. mem <= mem' /\ durable <= durable' /\ mem' \in Nat /\ durable' \in Nat /\ mem' = mem
    BY <1>1
  <2>2. node'.cur = node.cur /\ node'.pend = node.pend
    BY <1>1
  <2>3. QED
    BY <1>1, <1>9, <1>10, <2>1, <2>2, LiveStays, PromisesKeep
<1>12. Order'
  BY <1>1, <1>9 DEF Order
<1>13. Sessions'
  <2>1. SessionOK(sess[c])'
    BY <1>1, <1>2, <1>4, <1>5 DEF SessionOK, Settled, Candidateless
  <2>2. \A d \in Conn : SessionOK(sess[d])'
    BY <1>1, <1>5, <2>1, OtherSession
  <2>3. \A d \in Conn : sess'[d].st = "none" => toAgent'[d] = <<>>
    BY <1>1, <1>4, <1>5 DEF Sessions
  <2>4. \A d \in Conn : sess'[d].st \in {"none", "closed"} => toServer'[d] = <<>>
    BY <1>1, <1>4, <1>5 DEF Sessions
  <2>5. QED
    BY <2>2, <2>3, <2>4 DEF Sessions
<1>14. LinkInv'
  <2>1. CASE link = c
    <3>1. link # NoConn
      BY <2>1, RenewalAssumption
    <3>2. k.tok <= mem
      BY <1>1, <1>3 DEF Promises, Claimed
    <3>3. mem = sess[c].tok \/ mem = k.tok
      BY <1>1, <2>1, <3>1 DEF LinkInv, k
    <3>4. mem = k.tok
      BY <1>1, <1>2, <3>2, <3>3
    <3>5. \A x : x.tok \in Nat /\ Given(x, sess[c]) => x.tok <= k.tok
      BY <1>2 DEF Given, k
    <3>6. \A i \in DOMAIN toAgent[c] : toAgent[c][i].tok <= k.tok
      BY <1>1, <2>1, <3>1, <3>5, LinkTypes DEF LinkInv
    <3>7. task.st # "none" => task.cand.tok <= k.tok
      BY <1>1, <2>1, <3>1, <3>5, LinkTypes DEF LinkInv
    <3>8. QED
      BY <1>1, <1>4, <1>5, <2>1, <3>4, <3>6, <3>7 DEF LinkInv, Given
  <2>2. CASE link # c
    BY <1>1, <1>5, <1>8, <2>2 DEF LinkInv, Given
  <2>3. QED
    BY <2>1, <2>2
<1>15. QED
  BY <1>6, <1>7, <1>11, <1>12, <1>13, <1>14 DEF IInv
-----------------------------------------------------------------------------
(* The registry changes under the sessions.                                *)

(* A session that is where it was, and perhaps has to check its token.     *)
Rested(c) ==
  /\ sess'[c].st = sess[c].st /\ sess'[c].tok = sess[c].tok /\ sess'[c].gen = sess[c].gen
  /\ sess'[c].cand = sess[c].cand /\ (sess'[c].fresh => sess[c].fresh)
Own(c) == [tok |-> sess[c].tok, gen |-> sess[c].gen]

LEMMA StaleSessions ==
  ASSUME TypeOK
  PROVE  /\ Stale(sess) \in [Conn -> Session]
         /\ \A c \in Conn : LET s == Stale(sess)[c]
                            IN  s.st = sess[c].st /\ s.tok = sess[c].tok /\ s.gen = sess[c].gen
                                /\ s.cand = sess[c].cand /\ ~s.fresh
<1>1. \A c \in Conn : sess[c] \in Session
  BY DEF TypeOK
<1>2. \A c \in Conn : Record([sess[c] EXCEPT !.fresh = FALSE], sess[c].st, sess[c].tok, sess[c].gen, FALSE, sess[c].cand)
  BY <1>1, WithFresh
<1>3. \A c \in Conn : Stale(sess)[c] = [sess[c] EXCEPT !.fresh = FALSE]
  BY DEF Stale
<1>4. Stale(sess) \in [Conn -> Session]
  BY <1>2 DEF Stale, Record
<1>5. QED
  BY <1>2, <1>3, <1>4, Zenon DEF Record

LEMMA SessionOKStays ==
  ASSUME NEW c \in Conn, SessionOK(sess[c]), Rested(c),
         sess[c].tok \in Nat, sess[c].cand \in Cred, lastTok \in Nat, lastTok' \in Nat, lastTok <= lastTok',
         node.cur \in Cred, node'.cur \in Cred,
         node.cur.tok <= node'.cur.tok, node.cur.gen <= node'.cur.gen,
         Settled(Own(c)) => Own(c) \in node'.pend \/ (sess[c].tok <= node'.cur.tok /\ sess[c].gen <= node'.cur.gen),
         sess'[c].fresh => Own(c) \in Live(view')
  PROVE  SessionOK(sess[c])'
<1>1. /\ sess'[c].st = sess[c].st /\ sess'[c].tok = sess[c].tok /\ sess'[c].gen = sess[c].gen
      /\ sess'[c].cand = sess[c].cand
      /\ Own(c) = [tok |-> sess[c].tok, gen |-> sess[c].gen] /\ Own(c)' = Own(c)
      /\ node.cur.tok \in Nat /\ node'.cur.tok \in Nat /\ node.cur.gen \in Nat /\ node'.cur.gen \in Nat
      /\ sess[c].cand.tok \in Nat /\ sess[c].cand.gen \in Nat
  BY DEF Rested, Own, Cred
<1>2. sess'[c].st # "hello" => Settled([tok |-> sess[c].tok, gen |-> sess[c].gen])'
  <2>1. sess'[c].st # "hello" => Settled(Own(c))
    BY <1>1 DEF SessionOK
  <2>2. Own(c).tok = sess[c].tok /\ Own(c).gen = sess[c].gen
    BY <1>1
  <2>3. QED
    BY <1>1, <2>1, <2>2 DEF Settled
<1>3. sess'[c].st \notin {"hello", "matched"} => sess'[c].tok <= node'.cur.tok
  BY <1>1 DEF SessionOK
<1>4. sess'[c].cand # None => sess'[c].tok < sess'[c].cand.tok /\ sess'[c].cand.tok <= lastTok'
  BY <1>1 DEF SessionOK
<1>5. /\ sess'[c].st \in Candidateless => sess'[c].cand = None
      /\ sess'[c].st \in {"sending", "committed"} => sess'[c].cand # None
      /\ sess'[c].st \in {"none", "closed"} => sess'[c].tok = 0
  BY <1>1 DEF SessionOK
<1>6. sess'[c].st = "committed" => sess'[c].cand.tok <= node'.cur.tok /\ sess'[c].cand.gen <= node'.cur.gen
  BY <1>1 DEF SessionOK
<1>7. QED
  BY <1>1, <1>2, <1>3, <1>4, <1>5, <1>6 DEF SessionOK

(* What does not depend on the registry.                                   *)
LEMMA RestedFacts ==
  ASSUME IInv, UNCHANGED <<wire, agentVars>>, sess' \in [Conn -> Session], \A c \in Conn : Rested(c),
         lastTok' \in Nat, lastTok <= lastTok'
  PROVE  Coming' = Coming /\ Held' = Held /\ Claimed' = Claimed /\ Order' /\ LinkInv'
<1>1. /\ TypeOK /\ Order /\ LinkInv
      /\ toServer' = toServer /\ toAgent' = toAgent
      /\ disk' = disk /\ mem' = mem /\ durable' = durable /\ link' = link /\ task' = task
      /\ mem \in Nat /\ disk \in Nat /\ durable \in Nat /\ lastTok \in Nat
  BY DEF IInv, agentVars, wire, TypeOK
<1>2. link # NoConn => link \in Conn
  BY <1>1 DEF TypeOK
<1>3. Coming' = Coming
  BY <1>1, <1>2 DEF Coming, Frames, Rested
<1>4. Held' = Held
  BY <1>1, <1>3 DEF Held
<1>5. Claimed' = Claimed
  <2>1. \A c \in Conn : Claims(c)' = Claims(c)
    BY <1>1 DEF Claims, Confirmed, Rested
  <2>2. QED
    BY <2>1 DEF Claimed
<1>6. Held \subseteq Nat
  <2>1. Coming \subseteq Nat
    <3>1. task.cand.tok \in Nat
      BY <1>1 DEF TypeOK, Write, Cred
    <3>2. QED
      BY <1>1, <3>1, LinkTypes DEF Coming, Frames
  <2>2. QED
    BY <1>1, <2>1 DEF Held
<1>7. Order'
  <2>1. \A t \in Held' : t <= lastTok'
    BY <1>1, <1>4, <1>6 DEF Order
  <2>2. QED
    BY <1>1, <2>1 DEF Order
<1>8. LinkInv'
  <2>1. link # NoConn =>
          /\ sess'[link].st = sess[link].st /\ sess'[link].tok = sess[link].tok /\ sess'[link].cand = sess[link].cand
    BY <1>2 DEF Rested
  <2>2. QED
    BY <1>1, <2>1 DEF LinkInv, Given
<1>9. QED
  BY <1>3, <1>4, <1>5, <1>7, <1>8

LEMMA SessionsRest ==
  ASSUME IInv, UNCHANGED wire, \A c \in Conn : Rested(c), \A c \in Conn : SessionOK(sess[c])'
  PROVE  Sessions'
<1>1. Sessions /\ toServer' = toServer /\ toAgent' = toAgent
  BY DEF IInv, wire
<1>2. QED
  BY <1>1 DEF Sessions, Rested

LEMMA AgeKeeps == ASSUME IInv, Age PROVE IInv'
<1>1. /\ TypeOK /\ RegistryInv /\ Promises /\ Lag /\ Order /\ Sessions /\ LinkInv
      /\ node' = node /\ view' = view /\ issued' = issued /\ lastTok' = lastTok /\ sess' = sess
      /\ toServer' = toServer /\ toAgent' = toAgent /\ due' \in BOOLEAN /\ active' = active /\ faults' = faults
      /\ disk' = disk /\ mem' = mem /\ durable' = durable /\ link' = link /\ task' = task
      /\ mem \in Nat /\ durable \in Nat
  BY DEF IInv, agentVars, wire, Age, TypeOK
<1>2. TypeOK'
  BY <1>1 DEF TypeOK
<1>3. RegistryInv'
  BY <1>1, RegistryStays
<1>4. Coming' = Coming /\ Held' = Held /\ Claimed' = Claimed
  BY <1>1 DEF Coming, Held, Frames, Claimed, Claims, Confirmed
<1>5. Promises' /\ Lag'
  <2>1. mem <= mem' /\ durable <= durable' /\ mem' \in Nat /\ durable' \in Nat /\ mem' = mem
    BY <1>1
  <2>2. node'.cur = node.cur /\ node'.pend = node.pend /\ Claimed' \subseteq Claimed \cup {0, mem'}
    BY <1>1, <1>4
  <2>3. QED
    BY <1>1, <1>4, <2>1, <2>2, LiveStays, PromisesKeep
<1>6. Order'
  BY <1>1, <1>4 DEF Order
<1>7. Sessions'
  BY <1>1, SessionsStay
<1>8. LinkInv'
  BY <1>1 DEF LinkInv, Given
<1>9. QED
  BY <1>2, <1>3, <1>5, <1>6, <1>7, <1>8 DEF IInv

(* A step of the registry that keeps what lasts, as a reload or the end of *)
(* a grace period.                                                         *)
LEMMA LastingStays ==
  ASSUME IInv, UNCHANGED <<issued, lastTok, due, active, wire, agentVars, faults>>,
         node' \in Entry, view' \in Entry, GoodEntry(node)', GoodEntry(view)',
         node'.cur = node.cur, node'.pend = node.pend,
         (view'.pend = view.pend /\ Live(view') \subseteq Live(view)) \/ view' = node,
         sess' \in [Conn -> Session], \A c \in Conn : Rested(c),
         \A c \in Conn : sess'[c].fresh => Own(c) \in Live(view')
  PROVE  IInv'
<1>1. /\ TypeOK /\ RegistryInv /\ Promises /\ Lag /\ Order /\ Sessions /\ LinkInv
      /\ issued' = issued /\ lastTok' = lastTok /\ due' = due /\ active' = active /\ faults' = faults
      /\ toServer' = toServer /\ toAgent' = toAgent
      /\ disk' = disk /\ mem' = mem /\ durable' = durable /\ link' = link /\ task' = task
      /\ mem \in Nat /\ durable \in Nat /\ lastTok \in Nat
  BY DEF IInv, agentVars, wire, TypeOK
<1>2. TypeOK'
  BY <1>1 DEF TypeOK
<1>3. RegistryInv'
  BY <1>1 DEF RegistryInv, Lasting
<1>4. Coming' = Coming /\ Held' = Held /\ Claimed' = Claimed /\ Order' /\ LinkInv'
  BY <1>1, RestedFacts
<1>5. Promises' /\ Lag'
  <2>1. mem <= mem' /\ durable <= durable' /\ mem' \in Nat /\ durable' \in Nat /\ mem' = mem
    BY <1>1
  <2>2. Held' \subseteq Held /\ Coming' \subseteq Coming /\ Claimed' \subseteq Claimed \cup {0, mem'}
    BY <1>4
  <2>3. QED
    BY <1>1, <2>1, <2>2, PromisesKeep
<1>6. ASSUME NEW c \in Conn PROVE SessionOK(sess[c])'
  <2>1. SessionOK(sess[c]) /\ sess[c].tok \in Nat /\ sess[c].cand \in Cred
    BY SessionFacts DEF Session
  <2>2. node.cur \in Cred /\ node.cur.tok <= node'.cur.tok /\ node.cur.gen <= node'.cur.gen
    BY <1>1, Registry
  <2>3. Settled(Own(c)) => Own(c) \in node'.pend \/ (sess[c].tok <= node'.cur.tok /\ sess[c].gen <= node'.cur.gen)
    <3>1. Own(c).tok = sess[c].tok /\ Own(c).gen = sess[c].gen
      BY DEF Own
    <3>2. QED
      BY <3>1 DEF Settled
  <2>4. QED
    BY <1>1, <2>1, <2>2, <2>3, SessionOKStays
<1>7. Sessions'
  BY <1>6, SessionsRest
<1>8. QED
  BY <1>2, <1>3, <1>4, <1>5, <1>7 DEF IInv

LEMMA ReloadKeeps == ASSUME IInv, Reload PROVE IInv'
<1>1. /\ TypeOK /\ RegistryInv /\ node \in Entry /\ GoodEntry(node)
      /\ node' = node /\ view' = node /\ sess' = Stale(sess)
      /\ UNCHANGED <<issued, lastTok, due, active, wire, agentVars, faults>>
  BY DEF IInv, Reload, Install, TypeOK, RegistryInv
<1>2. sess' \in [Conn -> Session] /\ (\A c \in Conn : Rested(c)) /\ \A c \in Conn : ~sess'[c].fresh
  BY <1>1, StaleSessions DEF Rested
<1>3. GoodEntry(node)' /\ GoodEntry(view)'
  BY <1>1 DEF GoodEntry, Live, Lasting
<1>4. QED
  BY <1>1, <1>2, <1>3, LastingStays

LEMMA LessPrevious ==
  ASSUME NEW n \in Entry, NEW k
  PROVE  LET m == [n EXCEPT !.prev = @ \ {k}]
         IN  m \in Entry /\ m.cur = n.cur /\ m.pend = n.pend /\ m.prev = n.prev \ {k}
BY DEF Entry

LEMMA GraceEndsKeeps == ASSUME IInv, GraceEnds PROVE IInv'
<1>1. PICK k \in node.prev \cup view.prev :
        /\ node' = [node EXCEPT !.prev = @ \ {k}]
        /\ view' = [view EXCEPT !.prev = @ \ {k}]
        /\ sess' = [c \in Conn |-> IF sess[c].tok = k.tok
                                  THEN [sess[c] EXCEPT !.fresh = FALSE] ELSE sess[c]]
  BY DEF GraceEnds
<1>2. TypeOK /\ RegistryInv /\ node \in Entry /\ view \in Entry /\ GoodEntry(node) /\ GoodEntry(view) /\ lastTok' = lastTok
  BY DEF IInv, TypeOK, RegistryInv, GraceEnds
<1>3. /\ node' \in Entry /\ node'.cur = node.cur /\ node'.pend = node.pend /\ node'.prev = node.prev \ {k}
      /\ view' \in Entry /\ view'.cur = view.cur /\ view'.pend = view.pend /\ view'.prev = view.prev \ {k}
  BY <1>1, <1>2, LessPrevious
<1>4. GoodEntry(node)' /\ GoodEntry(view)' /\ Live(view') \subseteq Live(view)
      /\ Live(view) \ {k} \subseteq Live(view')
  BY <1>2, <1>3 DEF GoodEntry, Live, Lasting
<1>5. ASSUME NEW c \in Conn
      PROVE  sess'[c] \in Session /\ Rested(c) /\ (sess'[c].fresh => sess[c].tok # k.tok)
  <2>1. Record([sess[c] EXCEPT !.fresh = FALSE], sess[c].st, sess[c].tok, sess[c].gen, FALSE, sess[c].cand)
    BY SessionFacts, WithFresh
  <2>2. sess'[c] = IF sess[c].tok = k.tok THEN [sess[c] EXCEPT !.fresh = FALSE] ELSE sess[c]
    BY <1>1
  <2>3. CASE sess[c].tok = k.tok
    BY <2>1, <2>2, <2>3, Zenon DEF Record, Rested
  <2>4. CASE sess[c].tok # k.tok
    BY <2>2, <2>4, SessionFacts, Zenon DEF Rested
  <2>5. QED
    BY <2>3, <2>4
<1>6. ASSUME NEW c \in Conn, sess'[c].fresh PROVE Own(c) \in Live(view')
  <2>1. Own(c) \in Live(view)
    BY <1>5, <1>6, SessionFacts DEF SessionOK, Rested, Own
  <2>2. Own(c).tok # k.tok
    BY <1>5, <1>6 DEF Own
  <2>3. QED
    BY <1>4, <2>1, <2>2
<1>7. sess' \in [Conn -> Session]
  BY <1>1, <1>5
<1>8. QED
  BY <1>3, <1>4, <1>5, <1>6, <1>7, LastingStays DEF GraceEnds
LEMMA ServerCrashKeeps == ASSUME IInv, ServerCrash PROVE IInv'
<1>1. /\ TypeOK /\ RegistryInv /\ Promises /\ Lag /\ Order /\ Sessions /\ LinkInv
      /\ node \in Entry /\ GoodEntry(node) /\ sess \in [Conn -> Session]
      /\ node' = node /\ view' = node /\ issued' = issued /\ lastTok' = lastTok /\ due' = due
      /\ active' = NoConn /\ toServer' = [c \in Conn |-> <<>>] /\ toAgent' = toAgent
      /\ disk' = disk /\ mem' = mem /\ durable' = durable /\ link' = link /\ task' = task
      /\ mem \in Nat /\ durable \in Nat /\ lastTok \in Nat /\ faults' \in Nat
  BY DEF IInv, agentVars, ServerCrash, TypeOK, RegistryInv, Fault
<1>2. /\ sess' \in [Conn -> Session]
      /\ \A c \in Conn : /\ sess'[c].st = (IF sess[c].st = "none" THEN "none" ELSE "closed")
                         /\ sess'[c].tok = 0 /\ sess'[c].gen = 0 /\ ~sess'[c].fresh /\ sess'[c].cand = None
  <2>1. /\ NoSession \in Session /\ ~NoSession.fresh /\ NoSession.tok = 0 /\ NoSession.gen = 0
        /\ NoSession.cand = None /\ NoSession.st = "none"
    BY DEF NoSession, Session, Stations, None, Cred
  <2> DEFINE r == [NoSession EXCEPT !.st = "closed"]
  <2>2. Record(r, "closed", 0, 0, FALSE, None)
    <3>1. "closed" \in Stations
      BY DEF Stations
    <3>2. Record(r, "closed", NoSession.tok, NoSession.gen, NoSession.fresh, NoSession.cand)
      BY <2>1, <3>1, WithStation, Zenon
    <3>3. QED
      BY <2>1, <3>2, Zenon DEF Record
  <2>3. sess' = [c \in Conn |-> IF sess[c].st = "none" THEN NoSession ELSE r]
    BY DEF ServerCrash
  <2> HIDE DEF r
  <2>4. r \in Session /\ r.st = "closed" /\ r.tok = 0 /\ r.gen = 0 /\ ~r.fresh /\ r.cand = None
    BY <2>2, Zenon DEF Record
  <2>5. QED
    BY <2>1, <2>3, <2>4
<1>3. TypeOK'
  BY <1>1, <1>2 DEF TypeOK, Ack
<1>4. RegistryInv'
  BY <1>1 DEF RegistryInv, GoodEntry, Live, Lasting
<1>5. link # NoConn => link \in Conn
  BY <1>1 DEF TypeOK
<1>6. Coming' \subseteq Coming /\ Held' \subseteq Held
  <2>1. Coming' \subseteq Coming
    BY <1>1, <1>2, <1>5 DEF Coming, Frames
  <2>2. QED
    BY <1>1, <2>1 DEF Held
<1>7. Claimed' \subseteq {0}
  <2>1. \A c \in Conn : Claims(c)' \subseteq {0}
    BY <1>1, <1>2 DEF Claims, Confirmed
  <2>2. QED
    BY <2>1 DEF Claimed
<1>8. Promises' /\ Lag'
  <2>1. mem <= mem' /\ durable <= durable' /\ mem' \in Nat /\ durable' \in Nat /\ mem' = mem
    BY <1>1
  <2>2. node'.cur = node.cur /\ node'.pend = node.pend /\ Claimed' \subseteq Claimed \cup {0, mem'}
    BY <1>1, <1>7
  <2>3. QED
    BY <1>1, <1>6, <2>1, <2>2, PromisesKeep
<1>9. Order'
  BY <1>1, <1>6 DEF Order
<1>10. Sessions'
  <2>1. node.cur.tok >= 0 /\ node.cur.gen >= 0
    BY <1>1, Registry
  <2>2. \A c \in Conn : SessionOK(sess[c])'
    BY <1>1, <1>2, <2>1 DEF SessionOK, Settled
  <2>3. QED
    BY <1>1, <1>2, <2>2 DEF Sessions
<1>11. LinkInv'
  BY <1>1, <1>2, <1>5 DEF LinkInv
<1>12. QED
  BY <1>3, <1>4, <1>8, <1>9, <1>10, <1>11 DEF IInv

(* A new generation is newer than those of the credentials that last.      *)
LEMMA NextGenFacts ==
  ASSUME TypeOK, RegistryInv
  PROVE  NextGen(node) \in Nat /\ \A k \in Lasting(node) : k.gen < NextGen(node)
<1> DEFINE G == {k.gen + 1 : k \in Lasting(node)}
<1>1. \A k \in Lasting(node) : k.gen \in Nat
  BY Registry DEF Live, Lasting
<1>2. PICK top \in Lasting(node) : \A k \in Lasting(node) : k.gen <= top.gen
  BY DEF RegistryInv
<1>3. top.gen + 1 \in G /\ \A k \in Lasting(node) : k.gen < top.gen + 1
  BY <1>1, <1>2
<1>4. NextGen(node) \in G /\ \A k \in Lasting(node) : k.gen < NextGen(node)
  BY <1>3 DEF NextGen
<1>5. G \subseteq Nat
  BY <1>1
<1>6. QED
  BY <1>4, <1>5

LEMMA HeldTypes == ASSUME IInv PROVE \A t \in Held \cup Claimed : t \in Nat /\ t <= lastTok
<1>1. /\ TypeOK /\ RegistryInv /\ Promises /\ Order /\ mem \in Nat /\ disk \in Nat /\ durable \in Nat /\ lastTok \in Nat
  BY DEF IInv, TypeOK
<1>2. task.cand.tok \in Nat
  BY <1>1 DEF TypeOK, Write, Cred
<1>3. Coming \subseteq Nat
  BY <1>1, <1>2, LinkTypes DEF Coming, Frames
<1>4. \A t \in Held : t \in Nat /\ t <= lastTok
  BY <1>1, <1>3 DEF Held, Order
<1>5. \A t \in Claimed : t \in Nat /\ t <= mem
  BY <1>1, ClaimTypes DEF Promises
<1>6. mem <= lastTok
  BY <1>4 DEF Held
<1>7. QED
  BY <1>1, <1>4, <1>5, <1>6

LEMMA ReissueKeeps == ASSUME IInv, Reissue PROVE IInv'
<1> DEFINE g == NextGen(node)
           t == lastTok + 1
<1>1. /\ TypeOK /\ RegistryInv /\ Promises /\ Lag /\ Order /\ Sessions /\ LinkInv
      /\ node \in Entry /\ view \in Entry /\ GoodEntry(node) /\ GoodEntry(view) /\ sess \in [Conn -> Session]
      /\ lastTok' = t /\ issued' = t /\ view' = view /\ due' = FALSE /\ active' = active /\ faults' = faults
      /\ node' = [cur |-> [tok |-> t, gen |-> g], prev |-> {}, pend |-> {}]
      /\ sess' = sess /\ toServer' = toServer /\ toAgent' = toAgent
      /\ disk' = disk /\ mem' = mem /\ durable' = durable /\ link' = link /\ task' = task
      /\ mem \in Nat /\ durable \in Nat /\ lastTok \in Nat /\ t \in Nat /\ lastTok < t
  BY DEF IInv, agentVars, wire, Reissue, TypeOK, RegistryInv
<1>2. g \in Nat /\ \A k \in Lasting(node) : k.gen < g
  BY <1>1, NextGenFacts
<1> HIDE DEF g, t
<1>3. /\ node' \in Entry /\ node'.cur.tok = t /\ node'.cur.gen = g /\ node'.prev = {} /\ node'.pend = {}
      /\ node'.cur \in Cred /\ Lasting(node') = {node'.cur} /\ Live(node') = {node'.cur}
      /\ node.cur \in Cred /\ node.cur.tok <= lastTok /\ node.cur.gen < g /\ 1 <= lastTok
      /\ node.cur.tok \in Nat /\ node.cur.gen \in Nat
      /\ \A k \in node.pend : k.tok <= lastTok /\ k.gen < g /\ k.tok \in Nat /\ k.gen \in Nat
  <2>1. node' \in Entry /\ node'.cur.tok = t /\ node'.cur.gen = g /\ node'.prev = {} /\ node'.pend = {} /\ node'.cur \in Cred
    BY <1>1, <1>2 DEF Entry, Cred
  <2>2. Lasting(node') = {node'.cur} /\ Live(node') = {node'.cur}
    BY <2>1 DEF Lasting, Live
  <2>3. node.cur \in Lasting(node) /\ \A k \in node.pend : k \in Lasting(node)
    BY DEF Lasting
  <2>4. node.cur.gen < g /\ \A k \in node.pend : k.gen < g
    BY <1>2, <2>3
  <2>5. node.cur \in Cred /\ node.cur.tok <= lastTok /\ 1 <= lastTok /\ node.cur.tok \in Nat /\ node.cur.gen \in Nat
    BY <1>1, Registry
  <2>6. \A k \in node.pend : k.tok <= lastTok /\ k.tok \in Nat /\ k.gen \in Nat
    BY <1>1, Registry
  <2>7. QED
    BY <2>1, <2>2, <2>4, <2>5, <2>6
<1>4. TypeOK'
  <2>1. Cardinality(node'.pend) = 0 /\ 0 <= MaxPending
    BY <1>3, FS_EmptySet, RenewalAssumption
  <2>2. QED
    BY <1>1, <1>3, <2>1 DEF TypeOK
<1>5. RegistryInv'
  <2>1. GoodEntry(node)'
    <3>1. node'.cur.tok = t /\ lastTok' = t /\ t >= 1 /\ t <= t
      BY <1>1, <1>3
    <3>2. \A k \in Live(node') : k = node'.cur
      BY <1>3
    <3>3. \A k \in Live(node') : k.tok <= lastTok'
      BY <3>1, <3>2
    <3>4. QED
      BY <1>3, <3>1, <3>3 DEF GoodEntry
  <2>2. GoodEntry(view)'
    <3>1. \A k \in Live(view) : k.tok \in Nat
      BY <1>1, Registry
    <3>2. QED
      BY <1>1, <3>1 DEF GoodEntry, Live, Lasting
  <2>3. IsFiniteSet(node'.pend)
    BY <1>3, FS_EmptySet
  <2>4. 1 <= issued' /\ issued' <= node'.cur.tok
    BY <1>1, <1>3
  <2>5. \A k \in Lasting(node') : k.gen <= node'.cur.gen
    BY <1>2, <1>3
  <2>6. node'.cur \in Lasting(node')
    BY <1>3
  <2>7. QED
    BY <2>1, <2>2, <2>3, <2>4, <2>5, <2>6 DEF RegistryInv
<1>6. \A c \in Conn : Rested(c)
  BY <1>1 DEF Rested
<1>7. Coming' = Coming /\ Held' = Held /\ Claimed' = Claimed /\ Order' /\ LinkInv'
  BY <1>1, <1>6, RestedFacts DEF wire, agentVars
<1>8. \A u \in Held \cup Claimed : u \in Nat /\ u < t
  BY <1>1, HeldTypes
<1>9. Promises'
  <2>1. \A u \in Held' : u < issued'
    BY <1>1, <1>7, <1>8
  <2>2. \A u \in Claimed' : u <= mem' /\ u <= node'.cur.tok
    BY <1>1, <1>3, <1>7, <1>8 DEF Promises
  <2>3. \A u \in Coming' : u \in Nat /\ u < node'.cur.tok
    BY <1>1, <1>3, <1>7, <1>8 DEF Held
  <2>4. node'.cur.tok = issued' /\ node'.pend = {}
    BY <1>1, <1>3
  <2>5. \A u \in Coming' : ~(u > node'.cur.tok)
    BY <1>1, <1>3, <2>3
  <2>6. QED
    BY <2>1, <2>2, <2>4, <2>5 DEF Promises
<1>10. Lag'
  <2>1. ASSUME NEW m \in Live(view), m.tok \in Held \cup Claimed \cup {t} PROVE m.tok <= t /\ m.gen <= g
    <3>1. m.tok \in Nat /\ m.gen \in Nat /\ m.tok <= lastTok
      BY <1>1, Registry DEF GoodEntry
    <3>2. m.tok \in Held \cup Claimed
      BY <1>1, <2>1, <3>1
    <3>3. Settled(m)
      BY <1>1, <3>2 DEF Lag
    <3>4. m.gen <= g
      BY <1>2, <1>3, <3>1, <3>3 DEF Settled
    <3>5. QED
      BY <1>1, <3>1, <3>4
  <2>2. Live(view') = Live(view)
    BY <1>1 DEF Live, Lasting
  <2>3. QED
    BY <1>1, <1>3, <1>7, <2>1, <2>2 DEF Lag, Settled
<1>11. ASSUME NEW c \in Conn PROVE SessionOK(sess[c])'
  <2>1. SessionOK(sess[c]) /\ sess[c].tok \in Nat /\ sess[c].gen \in Nat /\ sess[c].cand \in Cred /\ sess[c].tok \in Claimed
    BY SessionFacts DEF Session
  <2>2. node.cur.tok <= node'.cur.tok /\ node.cur.gen <= node'.cur.gen
    BY <1>1, <1>2, <1>3
  <2>3. Settled(Own(c)) => sess[c].tok <= node'.cur.tok /\ sess[c].gen <= node'.cur.gen
    <3>1. Own(c).tok = sess[c].tok /\ Own(c).gen = sess[c].gen
      BY DEF Own
    <3>2. QED
      BY <1>1, <1>2, <1>3, <2>1, <3>1 DEF Settled
  <2>4. sess'[c].fresh => Own(c) \in Live(view')
    BY <1>1, <2>1 DEF SessionOK, Own, Live, Lasting
  <2>5. QED
    BY <1>1, <1>3, <1>6, <2>1, <2>2, <2>3, <2>4, SessionOKStays
<1>12. Sessions'
  BY <1>1, <1>6, <1>11, SessionsRest DEF wire
<1>13. QED
  BY <1>4, <1>5, <1>7, <1>9, <1>10, <1>12 DEF IInv
-----------------------------------------------------------------------------
(* A candidate that a session claims becomes the current credential.  It   *)
(* is the only token the agent has, and older ones stay behind it.         *)
LEMMA ActivationFacts ==
  ASSUME IInv, NEW k \in node.pend, k.tok \in Claimed, node' = Activated(k), view' \in {node', view},
         UNCHANGED <<issued, lastTok, mem, durable>>,
         Held' \subseteq Held, Coming' \subseteq Coming, Claimed' \subseteq Claimed \cup {0}
  PROVE  /\ node' \in Entry /\ Cardinality(node'.pend) <= MaxPending /\ node'.cur = k /\ k \in Cred
         /\ RegistryInv' /\ Promises' /\ Lag'
         /\ node.cur \in Cred /\ node.cur.tok < k.tok /\ node.cur.gen < k.gen /\ durable = k.tok
         /\ \A m \in Cred : m.tok \in Held \cup Claimed /\ Settled(m) => m.tok <= k.tok /\ m.gen <= k.gen
<1>1. /\ TypeOK /\ RegistryInv /\ Promises /\ Lag /\ Order /\ node \in Entry /\ view \in Entry
      /\ GoodEntry(node) /\ GoodEntry(view)
      /\ issued' = issued /\ lastTok' = lastTok /\ mem' = mem /\ durable' = durable
      /\ mem \in Nat /\ durable \in Nat /\ lastTok \in Nat /\ issued \in Nat
  BY DEF IInv, TypeOK, RegistryInv
<1>2. /\ k \in Cred /\ k.tok \in Nat /\ k.gen \in Nat /\ k.tok <= lastTok
      /\ node.cur \in Cred /\ node.cur.tok \in Nat /\ node.cur.gen \in Nat /\ 1 <= node.cur.tok
      /\ node.cur.tok < k.tok /\ node.cur.gen < k.gen /\ issued <= node.cur.tok /\ 1 <= issued
  BY <1>1, Registry
<1>3. /\ node'.cur = k /\ node'.prev = {node.cur} /\ node'.pend = {} /\ node' \in Entry
      /\ Lasting(node') = {k} /\ Live(node') = {k, node.cur}
  BY <1>2 DEF Activated, Entry, Lasting, Live
<1>4. Held = {k.tok} /\ mem = k.tok /\ durable = k.tok
  BY <1>1 DEF Promises, Held
<1>5. GoodEntry(node)'
  <2>1. \A m \in Live(node') : m.tok <= lastTok'
    BY <1>1, <1>2, <1>3
  <2>2. QED
    BY <1>2, <1>3, <2>1 DEF GoodEntry
<1>6. GoodEntry(view)'
  <2>1. CASE view' = node'
    BY <1>5, <2>1 DEF GoodEntry, Live, Lasting
  <2>2. CASE view' = view
    BY <1>1, <2>2 DEF GoodEntry, Live, Lasting
  <2>3. QED
    BY <2>1, <2>2
<1>7. RegistryInv'
  <2>1. IsFiniteSet(node'.pend)
    BY <1>3, FS_EmptySet
  <2>2. issued' <= node'.cur.tok /\ 1 <= issued'
    BY <1>1, <1>2, <1>3
  <2>3. \A m \in Lasting(node') : m.gen <= k.gen
    BY <1>2, <1>3
  <2>4. k \in Lasting(node')
    BY <1>3
  <2>5. QED
    BY <1>5, <1>6, <2>1, <2>2, <2>3, <2>4 DEF RegistryInv
<1>8. Cardinality(node'.pend) <= MaxPending
  BY <1>3, FS_EmptySet, RenewalAssumption
<1>9. ASSUME NEW m \in Cred, m.tok \in Held \cup Claimed \cup {issued}, Settled(m)
      PROVE  m.tok <= k.tok /\ m.gen <= k.gen
  <2>1. CASE m \in node.pend
    <3>1. m.tok \in Nat /\ m.tok > node.cur.tok
      BY <1>1, <2>1, Registry
    <3>2. m.tok \in Held \cup Claimed
      BY <1>1, <1>2, <1>9, <3>1
    <3>3. m.tok = k.tok
      BY <1>1, <1>4, <2>1, <3>2 DEF Promises
    <3>4. m = k
      BY <1>1, <2>1, <3>3 DEF GoodEntry
    <3>5. QED
      BY <1>2, <3>4
  <2>2. CASE m.tok <= node.cur.tok /\ m.gen <= node.cur.gen
    BY <1>2, <2>2 DEF Cred
  <2>3. QED
    BY <1>9, <2>1, <2>2 DEF Settled
<1>10. Promises'
  <2>1. \A t \in Held' : t = node'.cur.tok
    BY <1>3, <1>4
  <2>2. \A t \in Claimed' : t <= mem' /\ t <= node'.cur.tok
    BY <1>1, <1>2, <1>3, <1>4 DEF Promises
  <2>3. \A t \in Coming' : ~(t > node'.cur.tok)
    BY <1>2, <1>3, <1>4 DEF Held
  <2>4. ~(durable' < issued')
    BY <1>1, <1>2, <1>4
  <2>5. QED
    BY <1>3, <2>1, <2>2, <2>3, <2>4 DEF Promises
<1>11. Lag'
  <2>1. ASSUME NEW m \in Live(view'), m.tok \in Held' \cup Claimed' \cup {issued'}
        PROVE  m.tok <= k.tok /\ m.gen <= k.gen
    <3>1. CASE view' = node'
      BY <1>2, <1>3, <3>1
    <3>2. CASE view' = view
      <4>1. m \in Live(view) /\ m \in Cred /\ m.tok # 0
        BY <1>1, <3>2, Registry DEF Live, Lasting
      <4>2. m.tok \in Held \cup Claimed \cup {issued}
        BY <1>1, <2>1, <4>1
      <4>3. Settled(m)
        BY <1>1, <4>1, <4>2 DEF Lag
      <4>4. QED
        BY <1>9, <4>1, <4>2, <4>3
    <3>3. QED
      BY <3>1, <3>2
  <2>2. QED
    BY <1>3, <2>1 DEF Lag, Settled
<1>12. QED
  BY <1>2, <1>3, <1>4, <1>7, <1>8, <1>9, <1>10, <1>11

(* A matched session whose token is the generation of a staged candidate   *)
(* was opened with that candidate.                                         *)
LEMMA MatchedCandidate ==
  ASSUME IInv, NEW c \in Conn, sess[c].st = "matched", NEW k \in Unactivated(c) \cap node.pend
  PROVE  k = Own(c) /\ k.tok \in Claimed
<1>1. TypeOK /\ RegistryInv /\ GoodEntry(node) /\ node \in Entry
  BY DEF IInv, RegistryInv, TypeOK
<1>2. k.gen = sess[c].gen /\ k \in Cred /\ k.gen \in Nat /\ k.gen > node.cur.gen /\ node.cur.gen \in Nat
  BY <1>1, Registry DEF Unactivated
<1>3. Settled(Own(c)) /\ Own(c).gen = sess[c].gen /\ Own(c).tok = sess[c].tok
  BY SessionFacts DEF SessionOK, Own
<1>4. Own(c) \in node.pend
  BY <1>2, <1>3 DEF Settled
<1>5. k = Own(c)
  BY <1>1, <1>2, <1>3, <1>4 DEF GoodEntry
<1>6. QED
  BY <1>3, <1>5, SessionFacts

(* The session that activates it goes on; the others check again.          *)
LEMMA ActivationKeeps ==
  ASSUME IInv, NEW c \in Conn, NEW k \in node.pend, k.tok \in Claimed,
         node' = Activated(k), view' = node', due' = FALSE,
         UNCHANGED <<issued, lastTok, active, wire, agentVars, faults>>,
         NEW st \in {"activated", "committed"}, sess' = [Stale(sess) EXCEPT ![c].st = st],
         st = "activated" => sess[c].st = "matched",
         st = "committed" => sess[c].st = "committing" /\ sess[c].cand = k
  PROVE  IInv'
<1>1. /\ TypeOK /\ RegistryInv /\ Promises /\ Lag /\ Order /\ Sessions /\ LinkInv
      /\ issued' = issued /\ lastTok' = lastTok /\ active' = active /\ faults' = faults
      /\ toServer' = toServer /\ toAgent' = toAgent
      /\ disk' = disk /\ mem' = mem /\ durable' = durable /\ link' = link /\ task' = task
      /\ lastTok \in Nat
  BY DEF IInv, agentVars, wire, TypeOK
<1>2. /\ sess' \in [Conn -> Session] /\ \A d \in Conn : d # c => Rested(d)
      /\ sess'[c].st = st /\ sess'[c].tok = sess[c].tok /\ sess'[c].gen = sess[c].gen
      /\ sess'[c].cand = sess[c].cand /\ \A d \in Conn : ~sess'[d].fresh
  <2> DEFINE s == Stale(sess)
             r == [s[c] EXCEPT !.st = st]
  <2>1. /\ s \in [Conn -> Session]
        /\ \A d \in Conn : s[d].st = sess[d].st /\ s[d].tok = sess[d].tok /\ s[d].gen = sess[d].gen
                           /\ s[d].cand = sess[d].cand /\ ~s[d].fresh
    BY <1>1, StaleSessions
  <2>2. Record(r, st, s[c].tok, s[c].gen, s[c].fresh, s[c].cand)
    BY <2>1, WithStation DEF Stations
  <2>3. sess' = [s EXCEPT ![c] = r]
    OBVIOUS
  <2> HIDE DEF s, r
  <2>4. /\ sess' \in [Conn -> Session] /\ sess'[c] = r /\ \A d \in Conn : d # c => sess'[d] = s[d]
    BY <2>1, <2>2, <2>3 DEF Record
  <2>5. QED
    BY <2>1, <2>2, <2>4, Zenon DEF Record, Rested
<1>3. /\ link # NoConn => link \in Conn
      /\ \A d \in Conn : sess'[d].tok = sess[d].tok /\ sess'[d].cand = sess[d].cand
      /\ \A d \in Conn : sess'[d].st \in {"none", "closed"} <=> sess[d].st \in {"none", "closed"}
      /\ \A d \in Conn : sess'[d].st = "none" <=> sess[d].st = "none"
  BY <1>1, <1>2 DEF TypeOK, Rested
<1>4. Coming' = Coming /\ Held' = Held
  <2>1. Coming' = Coming
    BY <1>1, <1>3 DEF Coming, Frames
  <2>2. QED
    BY <1>1, <2>1 DEF Held
<1>5. Claimed' \subseteq Claimed
  <2>1. ASSUME NEW d \in Conn PROVE Claims(d)' \subseteq Claims(d)
    <3>1. CASE d = c
      BY <1>1, <1>2, <3>1 DEF Claims, Confirmed
    <3>2. CASE d # c
      BY <1>1, <1>2, <3>2 DEF Claims, Confirmed, Rested
    <3>3. QED
      BY <3>1, <3>2
  <2>2. QED
    BY <2>1 DEF Claimed
<1>6. /\ node' \in Entry /\ Cardinality(node'.pend) <= MaxPending /\ node'.cur = k /\ k \in Cred
      /\ RegistryInv' /\ Promises' /\ Lag'
      /\ node.cur \in Cred /\ node.cur.tok < k.tok /\ node.cur.gen < k.gen
      /\ \A m \in Cred : m.tok \in Held \cup Claimed /\ Settled(m) => m.tok <= k.tok /\ m.gen <= k.gen
  BY <1>1, <1>4, <1>5, ActivationFacts
<1>7. TypeOK'
  BY <1>1, <1>2, <1>6 DEF TypeOK
<1>8. Order'
  BY <1>1, <1>4 DEF Order
<1>9. ASSUME NEW d \in Conn PROVE Own(d) \in Cred /\ (Settled(Own(d)) => sess[d].tok <= k.tok /\ sess[d].gen <= k.gen)
  <2>1. Own(d) \in Cred /\ Own(d).tok = sess[d].tok /\ Own(d).gen = sess[d].gen /\ Own(d).tok \in Claimed
    BY SessionFacts DEF Own, Cred
  <2>2. QED
    BY <1>6, <2>1
<1>10. ASSUME NEW d \in Conn, d # c PROVE SessionOK(sess[d])'
  <2>1. SessionOK(sess[d]) /\ sess[d].tok \in Nat /\ sess[d].cand \in Cred /\ Rested(d) /\ ~sess'[d].fresh
    BY <1>2, <1>10, SessionFacts DEF Session
  <2>2. node.cur.tok <= node'.cur.tok /\ node.cur.gen <= node'.cur.gen
    BY <1>6 DEF Cred
  <2>3. Settled(Own(d)) => sess[d].tok <= node'.cur.tok /\ sess[d].gen <= node'.cur.gen
    BY <1>6, <1>9
  <2>4. QED
    BY <1>1, <1>6, <2>1, <2>2, <2>3, SessionOKStays
<1>11. SessionOK(sess[c])'
  <2>1. SessionOK(sess[c]) /\ Settled(Own(c)) /\ sess[c].cand \in Cred
    BY SessionFacts DEF SessionOK, Own, Session
  <2>2. sess[c].tok <= k.tok /\ sess[c].gen <= k.gen
    BY <1>9, <2>1
  <2>3. st = "committed" => k # None /\ k.tok <= k.tok /\ k.gen <= k.gen
    BY <1>6, Registry, <1>1 DEF None, Cred
  <2>4. st = "activated" => sess[c].cand = None
    BY <2>1 DEF SessionOK, Candidateless
  <2>5. QED
    BY <1>1, <1>2, <1>6, <2>1, <2>2, <2>3, <2>4 DEF SessionOK, Settled, Candidateless
<1>12. Sessions'
  <2>1. \A d \in Conn : SessionOK(sess[d])'
    BY <1>10, <1>11
  <2>2. QED
    BY <1>1, <1>3, <2>1 DEF Sessions
<1>13. LinkInv'
  BY <1>1, <1>3 DEF LinkInv, Given
<1>14. QED
  BY <1>6, <1>7, <1>8, <1>12, <1>13 DEF IInv

LEMMA CommittingClaims ==
  ASSUME NEW c \in Conn, sess[c].st = "committing" PROVE sess[c].cand.tok \in Claimed
BY DEF Claimed, Claims

LEMMA CommitKeeps == ASSUME IInv, NEW c \in Conn, Commit(c) PROVE IInv'
BY CommittingClaims, ActivationKeeps DEF Commit, StillStaged

LEMMA ActivateSavedKeeps == ASSUME IInv, NEW c \in Conn, ActivateSaved(c) PROVE IInv'
<1>1. PICK k \in Unactivated(c) \cap node.pend :
        node' = Activated(k) /\ view' = node' /\ sess' = [Stale(sess) EXCEPT ![c].st = "activated"]
  BY DEF ActivateSaved
<1>2. k.tok \in Claimed /\ k \in node.pend /\ sess[c].st = "matched"
  BY MatchedCandidate DEF ActivateSaved
<1>3. QED
  BY <1>1, <1>2, ActivationKeeps DEF ActivateSaved
(* The write of an activation fails once the file is replaced: the session *)
(* ends, and memory keeps what it had.                                     *)
LEMMA LostActivationKeeps ==
  ASSUME IInv, NEW c \in Conn, NEW k \in node.pend, k.tok \in Claimed,
         node' = Activated(k), due' = FALSE, sess' = Ended(c), sess[c].st # "none",
         toServer' = [toServer EXCEPT ![c] = <<>>],
         UNCHANGED <<view, issued, lastTok, toAgent, agentVars>>,
         active' \in Conn \cup {NoConn}, faults' \in Nat
  PROVE  IInv'
<1>1. /\ TypeOK /\ RegistryInv /\ Promises /\ Lag /\ Order /\ Sessions /\ LinkInv
      /\ view' = view /\ issued' = issued /\ lastTok' = lastTok /\ toAgent' = toAgent
      /\ disk' = disk /\ mem' = mem /\ durable' = durable /\ link' = link /\ task' = task
      /\ lastTok \in Nat /\ toServer \in [Conn -> Seq(Ack)]
  BY DEF IInv, agentVars, TypeOK, Ack
<1>2. /\ sess' \in [Conn -> Session] /\ \A d \in Conn : d # c => sess'[d] = sess[d]
      /\ sess'[c].st = "closed" /\ sess'[c].tok = 0 /\ sess'[c].gen = 0 /\ ~sess'[c].fresh
      /\ sess'[c].cand = None
  BY <1>1, EndedSession
<1>3. /\ toServer' \in [Conn -> Seq(Ack)] /\ toServer'[c] = <<>>
      /\ \A d \in Conn : d # c => toServer'[d] = toServer[d]
  BY <1>1
<1>4. link # NoConn => link \in Conn
  BY <1>1 DEF TypeOK
<1>5. Coming' \subseteq Coming /\ Held' \subseteq Held
  <2>1. link # NoConn => sess'[link].cand = sess[link].cand \/ sess'[link].cand = None
    BY <1>2, <1>4
  <2>2. Coming' \subseteq Coming
    BY <1>1, <2>1 DEF Coming, Frames
  <2>3. QED
    BY <1>1, <2>2 DEF Held
<1>6. Claimed' \subseteq Claimed \cup {0}
  <2>1. ASSUME NEW d \in Conn PROVE Claims(d)' \subseteq Claims(d) \cup {0}
    <3>1. CASE d = c
      BY <1>2, <1>3, <3>1 DEF Claims, Confirmed
    <3>2. CASE d # c
      BY <1>2, <1>3, <3>2 DEF Claims, Confirmed
    <3>3. QED
      BY <3>1, <3>2
  <2>2. QED
    BY <2>1 DEF Claimed
<1>7. /\ node' \in Entry /\ Cardinality(node'.pend) <= MaxPending /\ node'.cur = k /\ k \in Cred
      /\ RegistryInv' /\ Promises' /\ Lag'
      /\ node.cur \in Cred /\ node.cur.tok < k.tok /\ node.cur.gen < k.gen
      /\ \A m \in Cred : m.tok \in Held \cup Claimed /\ Settled(m) => m.tok <= k.tok /\ m.gen <= k.gen
  BY <1>1, <1>5, <1>6, ActivationFacts
<1>8. TypeOK'
  BY <1>1, <1>2, <1>3, <1>7 DEF TypeOK, Ack
<1>9. Order'
  BY <1>1, <1>5 DEF Order
<1>10. ASSUME NEW d \in Conn, d # c PROVE SessionOK(sess[d])'
  <2>1. SessionOK(sess[d]) /\ sess[d].tok \in Nat /\ sess[d].cand \in Cred /\ Rested(d)
    BY <1>2, <1>10, SessionFacts DEF Session, Rested
  <2>2. node.cur.tok <= node'.cur.tok /\ node.cur.gen <= node'.cur.gen
    BY <1>7 DEF Cred
  <2>3. Settled(Own(d)) => sess[d].tok <= node'.cur.tok /\ sess[d].gen <= node'.cur.gen
    <3>1. Own(d) \in Cred /\ Own(d).tok = sess[d].tok /\ Own(d).gen = sess[d].gen /\ Own(d).tok \in Claimed
      BY SessionFacts DEF Own, Cred
    <3>2. QED
      BY <1>7, <3>1
  <2>4. sess'[d].fresh => Own(d) \in Live(view')
    BY <1>1, <1>2, <1>10, <2>1 DEF SessionOK, Own, Live, Lasting
  <2>5. QED
    BY <1>1, <1>7, <2>1, <2>2, <2>3, <2>4, SessionOKStays
<1>11. Sessions'
  <2>1. SessionOK(sess[c])'
    <3>1. k.tok >= 0 /\ k.gen >= 0
      BY <1>7 DEF Cred
    <3>2. QED
      BY <1>2, <1>7, <3>1 DEF SessionOK, Settled
  <2>2. \A d \in Conn : SessionOK(sess[d])'
    BY <1>10, <2>1
  <2>3. \A d \in Conn : sess'[d].st = "none" => toAgent'[d] = <<>>
    BY <1>1, <1>2 DEF Sessions
  <2>4. \A d \in Conn : sess'[d].st \in {"none", "closed"} => toServer'[d] = <<>>
    BY <1>1, <1>2, <1>3 DEF Sessions
  <2>5. QED
    BY <2>2, <2>3, <2>4 DEF Sessions
<1>12. LinkInv'
  BY <1>1, <1>2, <1>4 DEF LinkInv, Given
<1>13. QED
  BY <1>7, <1>8, <1>9, <1>11, <1>12 DEF IInv

LEMMA ActivationFailsKeeps == ASSUME IInv, NEW c \in Conn, ActivationFails(c) PROVE IInv'
<1>1. /\ sess[c].st # "none" /\ sess' = Ended(c) /\ toServer' = [toServer EXCEPT ![c] = <<>>]
      /\ UNCHANGED <<view, issued, lastTok, toAgent, agentVars>>
  BY DEF ActivationFails
<1>2. active' \in Conn \cup {NoConn} /\ faults' \in Nat
  BY SessionFacts DEF ActivationFails, Fault
<1>3. CASE UNCHANGED <<node, due>>
  BY <1>1, <1>2, <1>3, SessionEnds
<1>4. CASE /\ \E k \in node.pend :
                /\ \/ sess[c].st = "committing" /\ k = sess[c].cand
                   \/ sess[c].st = "matched" /\ k \in Unactivated(c)
                /\ node' = Activated(k)
           /\ due' = FALSE
  <2>1. PICK k \in node.pend :
          /\ \/ sess[c].st = "committing" /\ k = sess[c].cand
             \/ sess[c].st = "matched" /\ k \in Unactivated(c)
          /\ node' = Activated(k)
    BY <1>4
  <2>2. k.tok \in Claimed
    BY <2>1, CommittingClaims, MatchedCandidate
  <2>3. QED
    BY <1>1, <1>2, <1>4, <2>1, <2>2, LostActivationKeeps
<1>5. QED
  BY <1>3, <1>4 DEF ActivationFails

-----------------------------------------------------------------------------
(* A candidate is staged: nobody has it yet.                               *)
LEMMA StagedFacts ==
  ASSUME IInv, NEW g, Stageable(node, g), NEW k, k = [tok |-> lastTok + 1, gen |-> NextGen(node)],
         node' = [node EXCEPT !.pend = @ \cup {k}], view' \in {node', view},
         lastTok' = lastTok + 1, UNCHANGED <<issued, mem, durable>>,
         Held' \subseteq Held \cup {k.tok}, Coming' \subseteq Coming \cup {k.tok}, Claimed' \subseteq Claimed,
         view' = node' \/ Held' = Held,
         Held' = Held \/ (mem <= node.cur.tok /\ \A t \in Coming : t <= node.cur.tok)
  PROVE  /\ node' \in Entry /\ Cardinality(node'.pend) <= MaxPending /\ node'.cur = node.cur
         /\ node'.pend = node.pend \cup {k} /\ k \in Cred /\ k.tok = lastTok + 1
         /\ RegistryInv' /\ Promises' /\ Lag'
<1>1. /\ TypeOK /\ RegistryInv /\ Promises /\ Lag /\ Order /\ node \in Entry /\ view \in Entry
      /\ GoodEntry(node) /\ GoodEntry(view) /\ IsFiniteSet(node.pend)
      /\ issued' = issued /\ lastTok' = lastTok + 1 /\ mem' = mem /\ durable' = durable
      /\ mem \in Nat /\ durable \in Nat /\ lastTok \in Nat /\ issued \in Nat /\ MaxPending \in Nat
  BY RenewalAssumption DEF IInv, TypeOK, RegistryInv
<1>2. /\ node.cur \in Cred /\ node.cur.tok \in Nat /\ node.cur.gen \in Nat /\ node.cur.tok <= lastTok
      /\ issued <= node.cur.tok /\ 1 <= issued
      /\ \A m \in node.pend : m \in Cred /\ m.tok \in Nat /\ m.gen \in Nat /\ m.tok <= lastTok /\ m.tok > node.cur.tok
  BY <1>1, Registry
<1>3. /\ k \in Cred /\ k.tok = lastTok + 1 /\ k.gen = NextGen(node) /\ k.gen \in Nat
      /\ \A m \in Lasting(node) : m.gen < k.gen
  BY <1>1, NextGenFacts DEF Cred
<1>4. /\ node' \in Entry /\ node'.cur = node.cur /\ node'.prev = node.prev /\ node'.pend = node.pend \cup {k}
  <2>1. ASSUME NEW n \in Entry, NEW x \in Cred
        PROVE  LET m == [n EXCEPT !.pend = @ \cup {x}]
               IN  m \in Entry /\ m.cur = n.cur /\ m.prev = n.prev /\ m.pend = n.pend \cup {x}
    BY DEF Entry
  <2>2. QED
    BY <1>1, <1>3, <2>1, Zenon
<1>5. k \notin node.pend /\ IsFiniteSet(node'.pend) /\ Cardinality(node'.pend) <= MaxPending
  <2>1. k \notin node.pend
    BY <1>1, <1>2, <1>3
  <2>2. IsFiniteSet(node'.pend) /\ Cardinality(node'.pend) = Cardinality(node.pend) + 1
    <3>1. IsFiniteSet(node.pend)
      BY <1>1
    <3>2. /\ IsFiniteSet(node.pend \cup {k})
          /\ Cardinality(node.pend \cup {k}) = IF k \in node.pend THEN Cardinality(node.pend)
                                               ELSE Cardinality(node.pend) + 1
      BY <3>1, FS_AddElement
    <3>3. QED
      BY <1>4, <2>1, <3>2
  <2>3. Cardinality(node.pend) < MaxPending /\ Cardinality(node.pend) \in Nat
    BY <1>1, FS_CardinalityType DEF Stageable
  <2>4. QED
    BY <1>1, <2>1, <2>2, <2>3
<1>6. \A m \in node.pend : m.gen < k.gen /\ m.tok < k.tok
  BY <1>1, <1>2, <1>3 DEF Lasting
<1>7. node.cur.gen < k.gen /\ node.cur.tok < k.tok
  BY <1>1, <1>2, <1>3 DEF Lasting
<1>8. GoodEntry(node)'
  <2>1. node'.cur.tok >= 1
    BY <1>1, <1>2, <1>4
  <2>2. \A m \in node'.prev : m.tok >= 1 /\ m.tok < node'.cur.tok /\ m.gen < node'.cur.gen
    BY <1>1, <1>4 DEF GoodEntry
  <2>3. \A m \in node'.pend : node'.cur.tok < m.tok /\ node'.cur.gen < m.gen
    BY <1>1, <1>4, <1>7 DEF GoodEntry
  <2>4. \A j, m \in node'.prev : j = m
    BY <1>1, <1>4 DEF GoodEntry
  <2>5. ASSUME NEW j \in node'.pend, NEW m \in node'.pend, j.tok = m.tok \/ j.gen = m.gen PROVE j = m
    <3>1. CASE j \in node.pend /\ m \in node.pend
      BY <1>1, <2>5, <3>1 DEF GoodEntry
    <3>2. CASE j = k /\ m \in node.pend
      BY <1>1, <1>2, <1>3, <1>6, <2>5, <3>2
    <3>3. CASE m = k /\ j \in node.pend
      BY <1>1, <1>2, <1>3, <1>6, <2>5, <3>3
    <3>4. QED
      BY <1>4, <3>1, <3>2, <3>3
  <2>6. \A m \in Live(node') : m.tok <= lastTok'
    <3>1. \A m \in Live(node) : m.tok <= lastTok /\ m.tok \in Nat
      BY <1>1, Registry DEF GoodEntry
    <3>2. Live(node') = Live(node) \cup {k}
      BY <1>4 DEF Live, Lasting
    <3>3. QED
      BY <1>1, <1>3, <3>1, <3>2
  <2>7. QED
    BY <2>1, <2>2, <2>3, <2>4, <2>5, <2>6 DEF GoodEntry
<1>9. GoodEntry(view)'
  <2>1. CASE view' = node'
    BY <1>8, <2>1 DEF GoodEntry, Live, Lasting
  <2>2. CASE view' = view
    <3>1. \A m \in Live(view) : m.tok \in Nat
      BY <1>1, Registry
    <3>2. QED
      BY <1>1, <2>2, <3>1 DEF GoodEntry, Live, Lasting
  <2>3. QED
    BY <2>1, <2>2
<1>10. RegistryInv'
  <2>1. Lasting(node') = Lasting(node) \cup {k}
    BY <1>4 DEF Lasting
  <2>2. \A m \in Lasting(node) : m.gen \in Nat
    BY <1>1, Registry DEF Live
  <2>3. k \in Lasting(node') /\ \A m \in Lasting(node') : m.gen <= k.gen
    <3>1. \A m \in Lasting(node) : m.gen <= k.gen
      BY <1>3, <2>2
    <3>2. k.gen <= k.gen
      BY <1>3
    <3>3. QED
      BY <2>1, <3>1, <3>2
  <2>4. QED
    BY <1>1, <1>2, <1>4, <1>5, <1>8, <1>9, <2>3 DEF RegistryInv
<1>11. \A t \in Held \cup Claimed : t \in Nat /\ t < k.tok /\ t # k.tok
  <2>1. \A t \in Held \cup Claimed : t \in Nat /\ t <= lastTok
    BY HeldTypes
  <2>2. QED
    BY <1>1, <1>3, <2>1
<1>12. \A t : Staged(t) => Staged(t)'
  BY <1>4 DEF Staged
<1>13. Promises'
  <2>1. \A t \in Held' : t < issued' \/ t = node'.cur.tok \/ Staged(t)'
    <3>1. Staged(k.tok)'
      BY <1>4 DEF Staged
    <3>2. \A t \in Held : t < issued' \/ t = node'.cur.tok \/ Staged(t)'
      BY <1>1, <1>4, <1>12 DEF Promises
    <3>3. QED
      BY <3>1, <3>2
  <2>2. \A t \in Claimed' : t <= mem' /\ (t <= node'.cur.tok \/ Staged(t)')
    BY <1>1, <1>4, <1>12 DEF Promises
  <2>3. ASSUME NEW j \in node'.pend, j.tok = mem' \/ j.tok \in Claimed' PROVE Held' = {j.tok}
    <3>1. mem \in Held /\ j.tok \in Held \cup Claimed
      BY <1>1, <2>3 DEF Held
    <3>2. j \in node.pend
      BY <1>4, <1>11, <3>1
    <3>3. Held = {j.tok}
      BY <1>1, <2>3, <3>2 DEF Promises
    <3>4. mem > node.cur.tok
      BY <1>2, <3>1, <3>2, <3>3
    <3>5. Held' = Held
      BY <1>1, <1>2, <3>4
    <3>6. QED
      BY <3>3, <3>5
  <2>4. ASSUME NEW t \in Coming', NEW u \in Coming', t > node'.cur.tok, u > node'.cur.tok PROVE t = u
    <3>1. CASE Held' = Held
      <4>1. Coming' \subseteq Coming
        <5>1. Coming' \subseteq Held
          BY <3>1 DEF Held
        <5>2. QED
          BY <1>11, <5>1
      <4>2. QED
        BY <1>1, <1>4, <2>4, <4>1 DEF Promises
    <3>2. CASE \A x \in Coming : x <= node.cur.tok
      <4>1. \A x \in Coming : x \in Nat /\ ~(x > node.cur.tok)
        BY <1>2, <1>11, <3>2 DEF Held
      <4>2. t = k.tok /\ u = k.tok
        BY <1>4, <2>4, <4>1
      <4>3. QED
        BY <4>2
    <3>3. QED
      BY <3>1, <3>2
  <2>5. durable' < issued' => node'.cur.tok = issued'
    BY <1>1, <1>4 DEF Promises
  <2>6. QED
    BY <2>1, <2>2, <2>3, <2>4, <2>5 DEF Promises, Staged
<1>14. Lag'
  <2>1. CASE view' = node'
    <3>1. \A m \in Live(node) : m.tok \in Nat /\ m.gen \in Nat
      BY <1>1, Registry
    <3>2. \A m \in node.prev : m.tok <= node.cur.tok /\ m.gen <= node.cur.gen
      BY <1>1, <1>2, <3>1 DEF GoodEntry, Live
    <3>3. \A m \in Live(node') : m \in node'.pend \/ m = node.cur \/ m \in node.prev
      BY <1>4 DEF Live, Lasting
    <3>4. \A m \in Live(node') : m \in node'.pend \/ (m.tok <= node'.cur.tok /\ m.gen <= node'.cur.gen)
      <4>1. node.cur.tok <= node.cur.tok /\ node.cur.gen <= node.cur.gen
        BY <1>2
      <4>2. QED
        BY <1>4, <3>2, <3>3, <4>1
    <3>5. QED
      BY <2>1, <3>4 DEF Lag, Settled, Live, Lasting
  <2>2. CASE view' = view /\ Held' = Held
    <3>1. \A m \in Live(view) : m.tok \in Held' \cup Claimed' \cup {issued'} => Settled(m)
      BY <1>1, <2>2 DEF Lag
    <3>2. \A m : Settled(m) => Settled(m)'
      BY <1>4 DEF Settled
    <3>3. \A j \in node'.pend : j.tok \in Held' \cup Claimed' => j \in view.pend
      BY <1>1, <1>4, <1>11, <2>2 DEF Lag
    <3>4. Live(view') = Live(view)
      BY <2>2 DEF Live, Lasting
    <3>5. QED
      BY <2>2, <3>1, <3>2, <3>3, <3>4 DEF Lag, Settled
  <2>3. QED
    BY <2>1, <2>2
<1>15. QED
  BY <1>3, <1>4, <1>5, <1>10, <1>13, <1>14
LEMMA StagingKeeps ==
  ASSUME IInv, NEW c \in Conn, NEW k, k = [tok |-> lastTok + 1, gen |-> NextGen(node)],
         sess[c].st = "staging", Stageable(node, sess[c].gen),
         node' = [node EXCEPT !.pend = @ \cup {k}], lastTok' = lastTok + 1,
         UNCHANGED <<issued, due, active, wire, agentVars>>, faults' \in Nat,
         sess' \in [Conn -> Session], \A d \in Conn : d # c => Rested(d),
         sess'[c].tok = sess[c].tok, sess'[c].gen = sess[c].gen, sess'[c].fresh => sess[c].fresh,
         \/ /\ view' = node' /\ \A d \in Conn : ~sess'[d].fresh
            /\ sess'[c].st = "sending" /\ sess'[c].cand = k
         \/ /\ view' = view
            /\ sess'[c].st = "open" /\ sess'[c].cand = sess[c].cand
  PROVE  IInv'
<1>1. /\ TypeOK /\ RegistryInv /\ Promises /\ Lag /\ Order /\ Sessions /\ LinkInv
      /\ issued' = issued /\ active' = active /\ due' = due
      /\ toServer' = toServer /\ toAgent' = toAgent
      /\ disk' = disk /\ mem' = mem /\ durable' = durable /\ link' = link /\ task' = task
      /\ lastTok \in Nat /\ disk \in Nat /\ view \in Entry
  BY DEF IInv, agentVars, wire, TypeOK
<1>2. k.tok = lastTok + 1
  OBVIOUS
<1>3. /\ sess[c].cand = None /\ sess[c].tok <= node.cur.tok /\ sess[c].tok \in Nat /\ node.cur.tok \in Nat
      /\ node.cur.tok <= lastTok /\ k # None
  <2>1. sess[c].cand = None /\ sess[c].tok <= node.cur.tok /\ sess[c].tok \in Nat
    BY SessionFacts DEF SessionOK, Candidateless
  <2>2. node.cur.tok \in Nat /\ node.cur.tok <= lastTok
    BY <1>1, Registry
  <2>3. k # None
    BY <1>1, <1>2 DEF None
  <2>4. QED
    BY <2>1, <2>2, <2>3
<1>4. link # NoConn => link \in Conn
  BY <1>1 DEF TypeOK
<1>5. Coming' \subseteq Coming \cup {k.tok} /\ Held' \subseteq Held \cup {k.tok}
  <2>1. Coming' \subseteq Coming \cup {k.tok}
    <3>1. CASE link = c
      BY <1>1, <3>1 DEF Coming, Frames
    <3>2. CASE link # c
      BY <1>1, <1>4, <3>2 DEF Coming, Frames, Rested
    <3>3. QED
      BY <3>1, <3>2
  <2>2. QED
    BY <1>1, <2>1 DEF Held
<1>6. link # c \/ sess'[c].st = "open" => Coming' = Coming /\ Held' = Held
  <2>1. ASSUME link # c \/ sess'[c].st = "open" PROVE Coming' = Coming
    <3>1. link # NoConn => sess'[link].cand = sess[link].cand
      BY <1>4, <2>1 DEF Rested
    <3>2. QED
      BY <1>1, <3>1 DEF Coming, Frames
  <2>2. QED
    BY <1>1, <2>1 DEF Held
<1>7. Claimed' \subseteq Claimed
  <2>1. ASSUME NEW d \in Conn PROVE Claims(d)' \subseteq Claims(d)
    <3>1. CASE d = c
      BY <1>1, <3>1 DEF Claims, Confirmed
    <3>2. CASE d # c
      BY <1>1, <3>2 DEF Claims, Confirmed, Rested
    <3>3. QED
      BY <3>1, <3>2
  <2>2. QED
    BY <2>1 DEF Claimed
<1>8. link = c => mem <= node.cur.tok /\ \A t \in Coming : t <= node.cur.tok
  <2>1. ASSUME link = c PROVE mem <= node.cur.tok /\ \A t \in Coming : t <= node.cur.tok
    <3>1. link # NoConn /\ sess[c].st # "closed"
      BY <2>1, RenewalAssumption
    <3>2. mem = sess[c].tok
      BY <1>1, <1>3, <2>1, <3>1 DEF LinkInv
    <3>3. \A x : x.tok \in Nat /\ Given(x, sess[c]) => x.tok <= node.cur.tok
      BY <1>3 DEF Given, None
    <3>4. \A i \in DOMAIN toAgent[c] : toAgent[c][i].tok <= node.cur.tok
      BY <1>1, <2>1, <3>1, <3>3, LinkTypes DEF LinkInv
    <3>5. task.st # "none" => task.cand.tok <= node.cur.tok
      BY <1>1, <2>1, <3>1, <3>3, LinkTypes DEF LinkInv
    <3>6. \A t \in Coming : t <= node.cur.tok
      BY <1>3, <2>1, <3>4, <3>5 DEF Coming, Frames
    <3>7. QED
      BY <1>3, <3>2, <3>6
  <2>2. QED
    BY <2>1
<1>9. /\ node' \in Entry /\ Cardinality(node'.pend) <= MaxPending /\ node'.cur = node.cur
      /\ node'.pend = node.pend \cup {k} /\ k \in Cred /\ k.tok = lastTok + 1
      /\ RegistryInv' /\ Promises' /\ Lag'
  <2>1. view' = node' \/ Held' = Held
    BY <1>6
  <2>2. Held' = Held \/ (mem <= node.cur.tok /\ \A t \in Coming : t <= node.cur.tok)
    BY <1>6, <1>8
  <2>3. view' \in {node', view} /\ UNCHANGED <<issued, mem, durable>>
    BY <1>1
  <2>4. QED
    BY <1>5, <1>7, <2>1, <2>2, <2>3, StagedFacts
<1>10. TypeOK'
  <2>1. view' \in Entry /\ lastTok' \in Nat
    <3>1. view' = node' \/ view' = view
      BY Zenon
    <3>2. view' \in Entry
      BY <1>1, <1>9, <3>1, Zenon
    <3>3. lastTok + 1 \in Nat
      BY <1>1
    <3>4. QED
      BY <3>2, <3>3
  <2>2. /\ issued \in Nat /\ due \in BOOLEAN /\ active \in Conn \cup {NoConn}
        /\ toAgent \in [Conn -> Seq(Cred)] /\ toServer \in [Conn -> Seq([tok : Nat, persisted : BOOLEAN])]
        /\ mem \in Nat /\ durable \in Nat /\ link \in Conn \cup {NoConn} /\ task \in Write
    BY <1>1 DEF TypeOK
  <2>3. node' \in Entry /\ Cardinality(node'.pend) <= MaxPending
    BY <1>9
  <2>4. QED
    BY <1>1, <2>1, <2>2, <2>3, Zenon DEF TypeOK
<1>11. Order'
  <2>1. \A t \in Held' : t <= lastTok'
    <3>1. \A t \in Held : t \in Nat /\ t <= lastTok
      BY HeldTypes
    <3>2. QED
      BY <1>1, <1>2, <1>5, <3>1
  <2>2. QED
    BY <1>1, <2>1 DEF Order
<1>12. ASSUME NEW d \in Conn, d # c PROVE SessionOK(sess[d])'
  <2>1. SessionOK(sess[d]) /\ sess[d].tok \in Nat /\ sess[d].cand \in Cred /\ Rested(d)
    BY <1>12, SessionFacts DEF Session
  <2>2. node.cur \in Cred /\ node.cur.tok <= node'.cur.tok /\ node.cur.gen <= node'.cur.gen /\ lastTok' \in Nat /\ lastTok <= lastTok'
    BY <1>1, <1>9, Registry
  <2>3. Settled(Own(d)) => Own(d) \in node'.pend \/ (sess[d].tok <= node'.cur.tok /\ sess[d].gen <= node'.cur.gen)
    <3>1. Own(d).tok = sess[d].tok /\ Own(d).gen = sess[d].gen
      BY DEF Own
    <3>2. QED
      BY <1>9, <3>1 DEF Settled
  <2>4. sess'[d].fresh => Own(d) \in Live(view')
    BY <2>1 DEF SessionOK, Own, Live, Lasting, Rested
  <2>5. QED
    BY <1>1, <1>9, <2>1, <2>2, <2>3, <2>4, SessionOKStays
<1>13. SessionOK(sess[c])'
  <2>1. SessionOK(sess[c]) /\ Settled(Own(c)) /\ Own(c) = [tok |-> sess[c].tok, gen |-> sess[c].gen]
    BY SessionFacts DEF SessionOK, Own
  <2>2. Settled(Own(c))'
    <3>1. Own(c)' = Own(c) /\ Own(c).tok = sess[c].tok /\ Own(c).gen = sess[c].gen
      BY <2>1 DEF Own
    <3>2. QED
      BY <1>9, <2>1, <3>1 DEF Settled
  <2>3. sess'[c].fresh => Own(c) \in Live(view')
    BY <2>1 DEF SessionOK, Live, Lasting
  <2>4. sess'[c].cand # None => sess'[c].tok < sess'[c].cand.tok /\ sess'[c].cand.tok <= lastTok'
    BY <1>1, <1>2, <1>3
  <2>5. sess'[c].tok <= node'.cur.tok
    BY <1>3, <1>9
  <2>6. sess'[c].st \in {"sending", "open"} /\ (sess'[c].st = "sending" => sess'[c].cand # None)
    BY <1>3
  <2>7. QED
    BY <2>1, <2>2, <2>3, <2>4, <2>5, <2>6 DEF SessionOK, Candidateless, Own
<1>14. Sessions'
  <2>1. \A d \in Conn : SessionOK(sess[d])'
    BY <1>12, <1>13
  <2>2. \A d \in Conn : sess'[d].st = "none" => sess[d].st = "none"
    BY DEF Rested
  <2>3. \A d \in Conn : sess'[d].st \in {"none", "closed"} => sess[d].st \in {"none", "closed"}
    BY DEF Rested
  <2>4. QED
    BY <1>1, <2>1, <2>2, <2>3 DEF Sessions
<1>15. LinkInv'
  <2>1. CASE link = c
    <3>1. link # NoConn /\ sess[c].st # "closed" /\ sess[c].st # "none"
      BY <2>1, RenewalAssumption
    <3>2. mem = sess[c].tok /\ (\A i \in DOMAIN toAgent[c] : Given(toAgent[c][i], sess[c]))
          /\ (task.st # "none" => Given(task.cand, sess[c]) /\ task.for = c /\ c \in Conn)
          /\ (task.st = "none" => task = NoTask)
      BY <1>1, <1>3, <2>1, <3>1 DEF LinkInv
    <3>3. \A x : Given(x, sess[c]) => x.tok <= sess'[c].tok \/ x = sess'[c].cand
      <4>1. \A x : Given(x, sess[c]) => x.tok <= sess[c].tok
        BY <1>3 DEF Given, None
      <4>2. QED
        BY <4>1
    <3>4. sess'[c].cand # None => disk <= sess'[c].cand.tok
      <4>1. disk <= lastTok
        BY HeldTypes DEF Held
      <4>2. QED
        BY <1>1, <1>2, <1>3, <4>1
    <3>5. sess'[c].st \in {"sending", "open"}
      OBVIOUS
    <3>6. QED
      BY <1>1, <2>1, <3>1, <3>2, <3>3, <3>4, <3>5 DEF LinkInv, Given
  <2>2. CASE link # c
    <3>1. link # NoConn =>
            sess'[link].st = sess[link].st /\ sess'[link].tok = sess[link].tok /\ sess'[link].cand = sess[link].cand
      BY <1>4, <2>2 DEF Rested
    <3>2. QED
      BY <1>1, <3>1 DEF LinkInv, Given
  <2>3. QED
    BY <2>1, <2>2
<1>16. QED
  BY <1>9, <1>10, <1>11, <1>14, <1>15 DEF IInv

LEMMA StageKeeps == ASSUME IInv, NEW c \in Conn, Stage(c) PROVE IInv'
<1> DEFINE k == [tok |-> lastTok + 1, gen |-> NextGen(node)]
           s == Stale(sess)
<1>1. /\ sess[c].st = "staging" /\ Stageable(node, sess[c].gen) /\ lastTok' = lastTok + 1
      /\ node' = [node EXCEPT !.pend = @ \cup {k}] /\ view' = node'
      /\ sess' = [s EXCEPT ![c].st = "sending", ![c].cand = k]
      /\ UNCHANGED <<issued, due, active, wire, agentVars, faults>>
  BY DEF Stage
<1>2. /\ s \in [Conn -> Session]
      /\ \A d \in Conn : s[d].st = sess[d].st /\ s[d].tok = sess[d].tok /\ s[d].gen = sess[d].gen
                         /\ s[d].cand = sess[d].cand /\ ~s[d].fresh
  BY StaleSessions DEF IInv
<1>3. k \in Cred
  BY NextGenFacts DEF IInv, TypeOK, Cred
<1> HIDE DEF k, s
<1>4. /\ sess' \in [Conn -> Session] /\ \A d \in Conn : d # c => sess'[d] = s[d]
      /\ sess'[c].st = "sending" /\ sess'[c].tok = s[c].tok /\ sess'[c].gen = s[c].gen
      /\ (sess'[c].fresh <=> s[c].fresh) /\ sess'[c].cand = k
  BY <1>1, <1>2, <1>3 DEF Session, Stations
<1>5. (\A d \in Conn : d # c => Rested(d)) /\ \A d \in Conn : ~sess'[d].fresh
  BY <1>2, <1>4, Zenon DEF Rested
<1>6. QED
  BY <1>1, <1>2, <1>4, <1>5, SessionFacts, StagingKeeps DEF k

LEMMA StageFailsKeeps == ASSUME IInv, NEW c \in Conn, StageFails(c) PROVE IInv'
<1>1. /\ sess[c].st = "staging" /\ Goes(c, "open") /\ faults' \in Nat
      /\ UNCHANGED <<view, issued, due, active, wire, agentVars>>
      /\ active \in Conn \cup {NoConn}
  BY SessionFacts DEF StageFails, Fault
<1>2. CASE UNCHANGED <<node, lastTok>>
  BY <1>1, <1>2, PlaceChanges
<1>3. CASE /\ Stageable(node, sess[c].gen) /\ lastTok' = lastTok + 1
           /\ node' = [node EXCEPT !.pend = @ \cup {[tok |-> lastTok', gen |-> NextGen(node)]}]
  <2> DEFINE r == [sess[c] EXCEPT !.st = "open"]
             k == [tok |-> lastTok + 1, gen |-> NextGen(node)]
  <2>1. Record(r, "open", sess[c].tok, sess[c].gen, sess[c].fresh, sess[c].cand)
    BY SessionFacts, WithStation DEF Stations
  <2>2. sess' = [sess EXCEPT ![c] = r] /\ sess \in [Conn -> Session]
    BY <1>1 DEF Goes, Moved, IInv, TypeOK
  <2> HIDE DEF r
  <2>3. /\ sess' \in [Conn -> Session] /\ sess'[c] = r
        /\ \A d \in Conn : d # c => sess'[d] = sess[d]
    BY <2>1, <2>2 DEF Record
  <2>4. /\ \A d \in Conn : d # c => Rested(d)
        /\ sess'[c].tok = sess[c].tok /\ sess'[c].gen = sess[c].gen /\ (sess'[c].fresh => sess[c].fresh)
        /\ sess'[c].st = "open" /\ sess'[c].cand = sess[c].cand
    BY <2>1, <2>3, Zenon DEF Record, Rested
  <2>5. node' = [node EXCEPT !.pend = @ \cup {k}]
    BY <1>3
  <2>6. QED
    BY <1>1, <1>3, <2>3, <2>4, <2>5, StagingKeeps
<1>4. QED
  BY <1>2, <1>3 DEF StageFails
-----------------------------------------------------------------------------
(* The invariant, and what it says.                                        *)
LEMMA InitEstablishes == Init => IInv
<1> SUFFICES ASSUME Init PROVE IInv
  OBVIOUS
<1>1. /\ node = [cur |-> [tok |-> 1, gen |-> 1], prev |-> {}, pend |-> {}] /\ view = node
      /\ issued = 1 /\ lastTok = 1 /\ mem = 1 /\ disk = 1 /\ durable = 1
      /\ link = NoConn /\ task = NoTask
      /\ sess = [c \in Conn |-> NoSession]
      /\ toAgent = [c \in Conn |-> <<>>] /\ toServer = [c \in Conn |-> <<>>]
      /\ due = FALSE /\ active = NoConn /\ faults = 0
  BY DEF Init
<1>2. /\ node \in Entry /\ node.cur.tok = 1 /\ node.cur.gen = 1 /\ node.prev = {} /\ node.pend = {}
      /\ Live(node) = {node.cur} /\ Lasting(node) = {node.cur}
  <2>1. node \in Entry /\ node.cur.tok = 1 /\ node.cur.gen = 1 /\ node.prev = {} /\ node.pend = {}
    BY <1>1 DEF Entry, Cred
  <2>2. QED
    BY <2>1 DEF Live, Lasting
<1>3. /\ NoSession \in Session /\ ~NoSession.fresh /\ NoSession.tok = 0 /\ NoSession.gen = 0
      /\ NoSession.cand = None /\ NoSession.st = "none"
  BY DEF NoSession, Session, Stations, None, Cred
<1>4. NoTask \in Write /\ NoTask.st = "none"
  BY DEF NoTask, Write, None, Cred
<1>5. IsFiniteSet(node.pend) /\ Cardinality(node.pend) <= MaxPending
  BY <1>2, FS_EmptySet, RenewalAssumption
<1>6. TypeOK
  <2>1. sess \in [Conn -> Session] /\ toAgent \in [Conn -> Seq(Cred)]
        /\ toServer \in [Conn -> Seq([tok : Nat, persisted : BOOLEAN])]
    BY <1>1, <1>3
  <2>2. QED
    BY <1>1, <1>2, <1>4, <1>5, <2>1 DEF TypeOK
<1>7. GoodEntry(node)
  BY <1>1, <1>2 DEF GoodEntry
<1>8. RegistryInv
  BY <1>1, <1>2, <1>5, <1>7 DEF RegistryInv
<1>9. Coming = {} /\ Held = {1}
  BY <1>1, <1>4 DEF Coming, Held
<1>10. Claimed \subseteq {0}
  <2>1. \A c \in Conn : Claims(c) \subseteq {0}
    BY <1>1, <1>3 DEF Claims, Confirmed
  <2>2. QED
    BY <2>1 DEF Claimed
<1>11. Promises
  BY <1>1, <1>2, <1>9, <1>10 DEF Promises, Staged
<1>12. Lag
  BY <1>1, <1>2 DEF Lag, Settled
<1>13. Order
  BY <1>1, <1>4, <1>9 DEF Order
<1>14. Sessions
  <2>1. \A c \in Conn : sess[c] = NoSession /\ toAgent[c] = <<>> /\ toServer[c] = <<>>
    BY <1>1
  <2>2. SessionOK(NoSession)
    BY <1>2, <1>3 DEF SessionOK, Settled
  <2>3. QED
    BY <2>1, <2>2 DEF Sessions
<1>15. LinkInv
  BY <1>1, <1>4 DEF LinkInv
<1>16. QED
  BY <1>6, <1>8, <1>11, <1>12, <1>13, <1>14, <1>15 DEF IInv

LEMMA StutterKeeps == ASSUME IInv, UNCHANGED vars PROVE IInv'
<1>1. /\ TypeOK /\ RegistryInv /\ Promises /\ Lag /\ Order /\ Sessions /\ LinkInv
      /\ node' = node /\ view' = view /\ issued' = issued /\ lastTok' = lastTok /\ sess' = sess
      /\ toServer' = toServer /\ toAgent' = toAgent /\ due' = due /\ active' = active /\ faults' = faults
      /\ disk' = disk /\ mem' = mem /\ durable' = durable /\ link' = link /\ task' = task
  BY DEF IInv, vars, regVars, agentVars, wire
<1>2. TypeOK'
  BY <1>1 DEF TypeOK
<1>3. RegistryInv'
  BY <1>1, RegistryStays
<1>4. Coming' = Coming /\ Held' = Held /\ Claimed' = Claimed
  BY <1>1 DEF Coming, Held, Frames, Claimed, Claims, Confirmed
<1>5. Promises' /\ Lag'
  BY <1>1, <1>4 DEF Promises, Staged, Lag, Settled, Live, Lasting
<1>6. Order'
  BY <1>1, <1>4 DEF Order
<1>7. Sessions'
  BY <1>1, SessionsStay
<1>8. LinkInv'
  BY <1>1 DEF LinkInv, Given
<1>9. QED
  BY <1>2, <1>3, <1>5, <1>6, <1>7, <1>8 DEF IInv

LEMMA HandlerKeeps == ASSUME IInv, NEW c \in Conn, Handler(c) PROVE IInv'
<1>1. CASE ServerStep(c)
  BY <1>1, AuthorizeKeeps, EndsKeep, ActivateSavedKeeps, NothingToActivateKeeps, AuthorizeAgainKeeps,
     RegisterKeeps, BeginStageKeeps, StageKeeps, StageRefusedKeeps, SendKeeps, CommitKeeps, AdoptKeeps
     DEF ServerStep
<1>2. CASE EndStale(c) \/ Revalidate(c) \/ TickRefresh(c) \/ TakeAck(c) \/ PeerGone(c) \/ Forget(c)
  BY <1>2, EndsKeep, RevalidateKeeps, TickRefreshKeeps, TakeAckKeeps, ForgetKeeps
<1>3. QED
  BY <1>1, <1>2 DEF Handler

LEMMA AgentKeeps == ASSUME IInv, Agent PROVE IInv'
BY ConnectKeeps, ReceiveKeeps, RenameKeeps, SyncedKeeps, LeavingKeeps DEF Agent

LEMMA NextPreserves == IInv /\ [Next]_vars => IInv'
<1> SUFFICES ASSUME IInv, [Next]_vars PROVE IInv'
  OBVIOUS
<1>1. CASE Age \/ GraceEnds \/ Reissue \/ Reload \/ Reinstall
  BY <1>1, AgeKeeps, GraceEndsKeeps, ReissueKeeps, ReloadKeeps, ReinstallKeeps
<1>2. ASSUME NEW c \in Conn,
             Handler(c) \/ ManualRefresh(c) \/ StageFails(c) \/ ActivationFails(c) \/ ConnectUnloaded(c)
      PROVE  IInv'
  BY <1>2, HandlerKeeps, ManualRefreshKeeps, StageFailsKeeps, ActivationFailsKeeps, ConnectKeeps
<1>3. CASE Agent
  BY <1>3, AgentKeeps
<1>4. CASE Leave \/ WriteFails \/ ServerCrash \/ AgentCrash \/ HostCrash
  BY <1>4, LeavingKeeps, WriteFailsKeeps, ServerCrashKeeps
<1>5. CASE UNCHANGED vars
  BY <1>5, StutterKeeps
<1>6. QED
  BY <1>1, <1>2, <1>3, <1>4, <1>5 DEF Next

LEMMA Invariance == Spec => []IInv
BY InitEstablishes, NextPreserves, PTL DEF Spec

(* The registry, the sessions and the agent always hold values of their    *)
(* types, and no more candidates are staged than MAX_PENDING_TOKENS        *)
(* (registry/renewal.rs).                                                  *)
THEOREM TypeCorrect == Spec => []TypeOK
<1>1. IInv => TypeOK
  BY DEF IInv
<1>2. QED
  BY Invariance, <1>1, PTL

(* Whatever is interrupted, the token the agent would present next is      *)
(* accepted for good, unless an operator has revoked it since              *)
(* (registry/renewal.rs, ws/refresh.rs).                                   *)
THEOREM NeverLockedOut == Spec => []SavedTokenAccepted
<1>1. ASSUME IInv, NEW t \in {mem, disk, durable}, t >= issued PROVE \E k \in Lasting(node) : k.tok = t
  <2>1. TypeOK /\ Promises /\ t \in Held
    BY <1>1 DEF IInv, Held
  <2>2. t \in Nat /\ issued \in Nat
    BY <2>1 DEF TypeOK
  <2>3. t = node.cur.tok \/ Staged(t)
    BY <1>1, <2>1, <2>2 DEF Promises
  <2>4. QED
    BY <2>3 DEF Staged, Lasting
<1>2. IInv => SavedTokenAccepted
  BY <1>1 DEF SavedTokenAccepted
<1>3. QED
  BY Invariance, <1>2, PTL

(* What a session takes for granted across its awaits: the generation of   *)
(* its token is no other's, a check it skips would succeed, and a          *)
(* candidate it is about to commit is the one the agent saved              *)
(* (ws/refresh.rs ensure_current_token, handle_refresh_ack).               *)
THEOREM SessionsInform == Spec => []SessionsKnowTheirTokens
<1>1. IInv => GenerationsDistinct
  <2> SUFFICES ASSUME IInv, NEW j \in Live(node), NEW k \in Live(node), j.gen = k.gen PROVE j = k
    BY DEF GenerationsDistinct
  <2>1. GoodEntry(node) /\ node \in Entry
    BY DEF IInv, RegistryInv, TypeOK
  <2>2. QED
    BY <2>1, Distinct
<1>2. IInv => FreshIsValid
  BY SessionFacts DEF FreshIsValid, SessionOK
<1>3. IInv => CommitsTheSavedOne
  <2> SUFFICES ASSUME IInv, NEW c \in Conn, sess[c].st = "committing", sess[c].cand \in node.pend
               PROVE  disk = sess[c].cand.tok /\ durable = disk
    BY DEF CommitsTheSavedOne
  <2>1. sess[c].cand.tok \in Claimed
    BY CommittingClaims
  <2>2. Held = {sess[c].cand.tok}
    BY <2>1 DEF IInv, Promises
  <2>3. QED
    BY <2>2 DEF Held
<1>4. IInv => SessionsKnowTheirTokens
  BY <1>1, <1>2, <1>3 DEF SessionsKnowTheirTokens
<1>5. QED
  BY Invariance, <1>4, PTL

(* A step of the registry: renewal makes only a token the agent has for    *)
(* good the current one, and a token once refused stays refused.           *)
Advance ==
  /\ node'.cur # node.cur => node'.cur.tok = issued' \/ node'.cur.tok = durable
  /\ \A t \in 1..lastTok : Knows(node', t) => Knows(node, t)

LEMMA SameEntry == ASSUME UNCHANGED node PROVE Advance
BY DEF Advance, Knows, Live, Lasting

LEMMA StagedAdvances ==
  ASSUME IInv, NEW k, k.tok = lastTok + 1, node' = [node EXCEPT !.pend = @ \cup {k}] PROVE Advance
<1>1. node \in Entry /\ lastTok \in Nat
  BY DEF IInv, TypeOK
<1>2. node'.cur = node.cur /\ node'.prev = node.prev /\ node'.pend = node.pend \cup {k}
  BY <1>1 DEF Entry
<1>3. Live(node') = Live(node) \cup {k}
  BY <1>2 DEF Live, Lasting
<1>4. \A t \in 1..lastTok : t # k.tok
  BY <1>1
<1>5. QED
  BY <1>2, <1>3, <1>4 DEF Advance, Knows

LEMMA ActivatedAdvances ==
  ASSUME IInv, NEW k \in node.pend, k.tok \in Claimed, node' = Activated(k) PROVE Advance
<1>1. Held = {k.tok}
  BY DEF IInv, Promises
<1>2. durable = k.tok
  BY <1>1 DEF Held
<1>3. node'.cur = k /\ Live(node') \subseteq Live(node)
  BY DEF Activated, Live, Lasting
<1>4. QED
  BY <1>2, <1>3 DEF Advance, Knows

LEMMA GraceAdvances == ASSUME IInv, GraceEnds PROVE Advance
<1>1. PICK k : node' = [node EXCEPT !.prev = @ \ {k}]
  BY DEF GraceEnds
<1>2. node \in Entry
  BY DEF IInv, TypeOK
<1>3. node'.cur = node.cur /\ node'.pend = node.pend /\ node'.prev = node.prev \ {k}
  BY <1>1, <1>2, LessPrevious
<1>4. Live(node') \subseteq Live(node)
  BY <1>3 DEF Live, Lasting
<1>5. QED
  BY <1>3, <1>4 DEF Advance, Knows

LEMMA ReissueAdvances == ASSUME IInv, Reissue PROVE Advance
<1>1. /\ lastTok \in Nat /\ issued' = lastTok + 1
      /\ node' = [cur |-> [tok |-> lastTok + 1, gen |-> NextGen(node)], prev |-> {}, pend |-> {}]
  BY DEF IInv, TypeOK, Reissue
<1>2. node'.cur.tok = lastTok + 1 /\ node'.prev = {} /\ node'.pend = {}
  BY <1>1
<1>3. \A k \in Live(node') : k.tok = lastTok + 1
  BY <1>2 DEF Live, Lasting
<1>4. \A t \in 1..lastTok : t # lastTok + 1
  BY <1>1
<1>5. QED
  BY <1>1, <1>2, <1>3, <1>4 DEF Advance, Knows

LEMMA ServerAdvances == ASSUME IInv, NEW c \in Conn, ServerStep(c) PROVE Advance
<1>1. CASE Stage(c)
  <2> DEFINE k == [tok |-> lastTok + 1, gen |-> NextGen(node)]
  <2>1. k.tok = lastTok + 1 /\ node' = [node EXCEPT !.pend = @ \cup {k}]
    BY <1>1 DEF Stage
  <2> HIDE DEF k
  <2>2. QED
    BY <2>1, StagedAdvances
<1>2. CASE Commit(c)
  BY <1>2, CommittingClaims, ActivatedAdvances DEF Commit, StillStaged
<1>3. CASE ActivateSaved(c)
  <2>1. PICK k \in Unactivated(c) \cap node.pend : node' = Activated(k)
    BY <1>3 DEF ActivateSaved
  <2>2. k.tok \in Claimed
    BY <1>3, MatchedCandidate DEF ActivateSaved
  <2>3. QED
    BY <2>1, <2>2, ActivatedAdvances
<1>4. CASE \/ Authorize(c) \/ Reject(c) \/ NothingToActivate(c) \/ ActivationRefused(c)
           \/ AuthorizeAgain(c) \/ Register(c) \/ BeginStage(c) \/ StageRefused(c) \/ Send(c)
           \/ CommitRefused(c) \/ Adopt(c)
  <2>1. UNCHANGED node
    BY <1>4, Zenon DEF Authorize, Reject, NothingToActivate, ActivationRefused, AuthorizeAgain, Register, BeginStage,
         StageRefused, Send, CommitRefused, Adopt, End, regVars
  <2>2. QED
    BY <2>1, SameEntry
<1>5. QED
  BY <1>1, <1>2, <1>3, <1>4 DEF ServerStep

LEMMA FailuresAdvance == ASSUME IInv, NEW c \in Conn, StageFails(c) \/ ActivationFails(c) PROVE Advance
<1>1. CASE UNCHANGED node
  BY <1>1, SameEntry
<1>2. CASE StageFails(c) /\ ~UNCHANGED node
  <2> DEFINE k == [tok |-> lastTok + 1, gen |-> NextGen(node)]
  <2>1. k.tok = lastTok + 1 /\ node' = [node EXCEPT !.pend = @ \cup {k}]
    BY <1>2 DEF StageFails
  <2> HIDE DEF k
  <2>2. QED
    BY <2>1, StagedAdvances
<1>3. CASE ActivationFails(c) /\ ~UNCHANGED node
  <2>1. PICK k \in node.pend :
          /\ \/ sess[c].st = "committing" /\ k = sess[c].cand
             \/ sess[c].st = "matched" /\ k \in Unactivated(c)
          /\ node' = Activated(k)
    BY <1>3 DEF ActivationFails
  <2>2. k.tok \in Claimed
    BY <2>1, CommittingClaims, MatchedCandidate
  <2>3. QED
    BY <2>1, <2>2, ActivatedAdvances
<1>4. QED
  BY <1>1, <1>2, <1>3

LEMMA StepAdvances == ASSUME IInv, [Next]_vars PROVE Advance
<1>1. CASE GraceEnds \/ Reissue
  BY <1>1, GraceAdvances, ReissueAdvances
<1>2. CASE Age \/ Reload \/ Reinstall \/ Leave \/ WriteFails \/ ServerCrash \/ AgentCrash \/ HostCrash
  <2>1. UNCHANGED node
    BY <1>2, Zenon DEF Age, Reload, Install, Reinstall, Leave, WriteFails, ServerCrash, AgentCrash, HostCrash, regVars
  <2>2. QED
    BY <2>1, SameEntry
<1>3. ASSUME NEW c \in Conn,
             Handler(c) \/ ManualRefresh(c) \/ StageFails(c) \/ ActivationFails(c) \/ ConnectUnloaded(c)
      PROVE  Advance
  <2>1. CASE ServerStep(c)
    BY <2>1, ServerAdvances
  <2>2. CASE StageFails(c) \/ ActivationFails(c)
    BY <2>2, FailuresAdvance
  <2>3. CASE \/ EndStale(c) \/ Revalidate(c) \/ TickRefresh(c) \/ TakeAck(c) \/ PeerGone(c) \/ Forget(c)
             \/ ManualRefresh(c) \/ ConnectUnloaded(c)
    <3>1. UNCHANGED node
      BY <2>3, Zenon DEF EndStale, Revalidate, TickRefresh, TakeAck, PeerGone, Forget, ManualRefresh,
           ConnectUnloaded, Hello, End, regVars
    <3>2. QED
      BY <3>1, SameEntry
  <2>4. QED
    BY <1>3, <2>1, <2>2, <2>3 DEF Handler
<1>4. CASE Agent
  <2>1. UNCHANGED node
    BY <1>4, Zenon DEF Agent, Connect, Hello, Receive, Rename, Synced, ServerLeft, regVars
  <2>2. QED
    BY <2>1, SameEntry
<1>5. CASE UNCHANGED vars
  <2>1. UNCHANGED node
    BY <1>5 DEF vars, regVars
  <2>2. QED
    BY <2>1, SameEntry
<1>6. QED
  BY <1>1, <1>2, <1>3, <1>4, <1>5 DEF Next

(* Renewal makes a candidate current only when the agent would survive a   *)
(* crash with it, and no late acknowledgement revives a token that the     *)
(* registry has stopped accepting (ws/refresh.rs, registry/renewal.rs).    *)
THEOREM NothingGoesBack == Spec => TokensOnlyAdvance
<1>1. ASSUME IInv, [Next]_vars
      PROVE  [node'.cur # node.cur => node'.cur.tok = issued' \/ node'.cur.tok = durable]_vars
  BY <1>1, StepAdvances DEF Advance
<1>2. ASSUME IInv, [Next]_vars
      PROVE  [\A t \in 1..lastTok : Knows(node', t) => Knows(node, t)]_vars
  BY <1>2, StepAdvances DEF Advance
<1>3. Spec => ActivatedWhenDurable
  BY Invariance, <1>1, PTL DEF Spec, ActivatedWhenDurable
<1>4. Spec => RevokedStaysRevoked
  BY Invariance, <1>2, PTL DEF Spec, RevokedStaysRevoked
<1>5. QED
  BY <1>3, <1>4, PTL DEF TokensOnlyAdvance
=============================================================================
