------------------------------ MODULE AuditTrail ------------------------------
(* The audit log as it is kept and read: events queued for a writer that     *)
(* stores them in batches, blocked requests of which only some are stored,   *)
(* logins stored at once so that their number is known, retention, and       *)
(* queries, of administrators and for the login before the present one.      *)
(* An event is its serial number, its kind and where it came from; the stop  *)
(* of the writer is in ServerStop.                                           *)
EXTENDS Integers, Sequences, FiniteSets, SequencesExt, FiniteSetsExt

CONSTANTS
  Origin,             \* address and agent of a client
  Reader,             \* handlers that log in or query
  NoLogin,            \* no login before
  Recorded,           \* the kinds of events the configuration asks for
  QueueRoom,          \* AUDIT_CHANNEL_CAPACITY
  BatchRoom,          \* audit.writer_batch_max
  Window,             \* RATE_LIMIT_AUDIT_WINDOW
  MaxTracked,         \* MAX_TRACKED_SOURCES
  Burst,              \* seconds within which logins of a browser are one
  Retention,          \* audit.retention_days
  MaxRows,            \* audit.max_rows
  QueryLimit,         \* rows of an answer, at most
  LastMoment,         \* bound: moments
  MaxMade,            \* bound: events
  MaxLogins,          \* bound: logins and queries
  MaxFailures         \* bound: writes that fail

ASSUME AuditAssumption ==
  /\ QueueRoom \in Nat \ {0} /\ BatchRoom \in Nat \ {0} /\ Window \in Nat /\ MaxTracked \in Nat /\ Burst \in Nat
  /\ Retention \in Nat /\ MaxRows \in Nat \ {0} /\ QueryLimit \in Nat \ {0} /\ LastMoment \in Nat
  /\ MaxMade \in Nat /\ MaxLogins \in Nat /\ MaxFailures \in Nat

VARIABLES
  moment,             \* the time
  made,               \* events so far
  tracked,            \* the throttle: when an origin's last blocked request was stored, and how many were not
  hidden,             \* for each origin: blocked requests not stored, and how many of them were told
  mail,               \* the channel to the writer
  batch,              \* collected by the writer
  writing,            \* the batch being stored, and who waits for it
  table,              \* audit_log
  lastId,             \* the last number given
  gone,               \* events dropped, not stored or pruned
  calls,              \* logins and queries under way
  failures            \* writes that failed so far

auditVars ==
  <<moment, made, tracked, hidden, mail, batch, writing, table, lastId, gone, calls, failures>>

NotWriting == [events |-> <<>>, ack |-> {}]
NoCall == [stage |-> "none"]

MakeEvent(kind, origin, told) ==
  [serial |-> made + 1, kind |-> kind, origin |-> origin, at |-> moment, told |-> told]

----------------------------------------------------------------------------
(* The throttle of blocked requests.                                        *)

Recent(entry) == moment - entry.last < Window

\* Whether the request of an origin is stored, with the number that were not; and what is tracked then.
Admits(o) == o \notin DOMAIN tracked \/ ~Recent(tracked[o])
Told(o) == IF o \in DOMAIN tracked THEN tracked[o].count ELSE 0
Room(entries) ==
  IF Cardinality(DOMAIN entries) < MaxTracked THEN DOMAIN entries
  ELSE {o \in DOMAIN entries : Recent(entries[o])}
Track(o) ==
  LET kept == IF o \in DOMAIN tracked THEN DOMAIN tracked ELSE Room(tracked)
      next == IF o \in DOMAIN tracked \/ Cardinality(kept) < MaxTracked THEN kept \cup {o} ELSE kept
  IN  [p \in next |-> IF p # o THEN tracked[p]
                      ELSE IF Admits(o) THEN [last |-> moment, count |-> 0] ELSE [tracked[o] EXCEPT !.count = @ + 1]]

\* try_send: a full channel drops the event.
Enqueue(event) ==
  IF Len(mail) < QueueRoom
  THEN mail' = Append(mail, [event |-> event, ack |-> {}]) /\ UNCHANGED gone
  ELSE gone' = gone \cup {event.serial} /\ UNCHANGED mail

\* A request is blocked.
RequestBlocked(o) ==
  /\ made < MaxMade /\ "limited" \in Recorded
  /\ made' = made + 1
  /\ tracked' = Track(o)
  /\ IF Admits(o)
     THEN /\ Enqueue(MakeEvent("limited", o, Told(o)))
          /\ hidden' = [hidden EXCEPT ![o].told = @ + Told(o)]
     ELSE hidden' = [hidden EXCEPT ![o].count = @ + 1] /\ UNCHANGED <<mail, gone>>
  /\ UNCHANGED <<moment, batch, writing, table, lastId, calls, failures>>

\* Something else is recorded.
Record(o) ==
  /\ made < MaxMade /\ "other" \in Recorded
  /\ made' = made + 1
  /\ Enqueue(MakeEvent("other", o, 0))
  /\ UNCHANGED <<moment, tracked, hidden, batch, writing, table, lastId, calls, failures>>

----------------------------------------------------------------------------
(* The writer.                                                              *)

Writes(events, ack) == writing' = [events |-> events, ack |-> ack] /\ batch' = <<>>

\* An answer to those who wait for what was sent before.
Ack(who) == calls' = [c \in Reader |-> IF c \in who THEN [calls[c] EXCEPT !.stage = "flushed"] ELSE calls[c]]

\* The next command: an event for the batch, or a flush, which waits for the batch.
WaitsForFull(events) == Len(events) >= BatchRoom
WaitsForBatch(events) == events # <<>>
TakeNext ==
  /\ mail # <<>> /\ writing = NotWriting
  /\ mail' = Tail(mail)
  /\ IF Head(mail).ack = {}
     THEN LET full == Append(batch, Head(mail).event) IN
          /\ IF Len(full) >= BatchRoom THEN Writes(full, {}) ELSE batch' = full /\ UNCHANGED writing
          /\ UNCHANGED calls
     ELSE IF WaitsForBatch(batch) THEN Writes(batch, Head(mail).ack) /\ UNCHANGED calls
     ELSE Ack(Head(mail).ack) /\ UNCHANGED <<batch, writing>>
  /\ UNCHANGED <<moment, made, tracked, hidden, table, lastId, gone, failures>>

\* The timer: only when nothing is in the channel.
FlushTimer ==
  /\ mail = <<>> /\ batch # <<>> /\ writing = NotWriting
  /\ Writes(batch, {})
  /\ UNCHANGED <<moment, made, tracked, hidden, mail, table, lastId, gone, calls, failures>>

\* A batch is stored whole, or not at all.
StoreBatch ==
  /\ writing # NotWriting
  /\ \/ /\ table' = table \cup {[id |-> lastId + i, event |-> writing.events[i]] : i \in DOMAIN writing.events}
        /\ lastId' = lastId + Len(writing.events)
        /\ UNCHANGED <<gone, failures>>
     \/ /\ failures < MaxFailures /\ failures' = failures + 1
        /\ gone' = gone \cup {writing.events[i].serial : i \in DOMAIN writing.events}
        /\ UNCHANGED <<table, lastId>>
  /\ Ack(writing.ack) /\ writing' = NotWriting
  /\ UNCHANGED <<moment, made, tracked, hidden, mail, batch>>

----------------------------------------------------------------------------
(* Retention.                                                               *)

TooOld(r) == r.event.at < moment - Retention
Pruned ==
  LET kept == {r \in table : ~TooOld(r)}
  IN  {r \in kept : r.id > Max({q.id : q \in kept}) - MaxRows}

Prune ==
  /\ table # Pruned
  /\ table' = Pruned
  /\ gone' = gone \cup {r.event.serial : r \in table \ Pruned}
  /\ UNCHANGED <<moment, made, tracked, hidden, mail, batch, writing, lastId, calls, failures>>

----------------------------------------------------------------------------
(* Logins and queries.                                                      *)

\* The events a query may ask for, the newest first, no more than its limit.
Chosen(kinds) ==
  LET newer(a, b) == a.event.at > b.event.at \/ (a.event.at = b.event.at /\ a.id > b.id)
      sorted == SetToSortSeq({r \in table : r.event.kind \in kinds}, newer)
  IN  SubSeq(sorted, 1, Min({Len(sorted), QueryLimit}))

\* Requests of one browser that crossed its cookie are one login.  Every login is by password alone here.
SameBurst(a, b) ==
  /\ a.event.kind = "login" /\ b.event.kind = "login" /\ a.event.origin = b.event.origin
  /\ a.event.at - b.event.at <= Burst /\ b.event.at - a.event.at <= Burst

\* The first of the answer that is before the present login and not of it; the first at all if that has no number.
PreviousLogin(answer, id) ==
  LET current == {i \in DOMAIN answer : answer[i].id = id}
      before == {i \in DOMAIN answer : id = 0 \/ (answer[i].id < id /\ \A j \in current : ~SameBurst(answer[j], answer[i]))}
  IN  IF before = {} THEN NoLogin ELSE answer[Min(before)]

\* What was sent before is stored first: a flush is sent, with as much patience as the channel needs.
Sent == {m.event.serial : m \in {mail[i] : i \in {j \in DOMAIN mail : mail[j].ack = {}}}}
  \cup {batch[i].serial : i \in DOMAIN batch} \cup {writing.events[i].serial : i \in DOMAIN writing.events}
  \cup {r.event.serial : r \in table}

\* A login is stored at once and asked for the one before it; a query asks for any events.
Begins(c, what, o) ==
  /\ calls[c].stage = "none" /\ Len(mail) < QueueRoom
  /\ Cardinality({d \in Reader : calls[d].stage # "none"}) < MaxLogins
  /\ IF what = "login" THEN made < MaxMade + MaxLogins /\ "login" \in Recorded /\ made' = made + 1 ELSE UNCHANGED made
  /\ mail' = Append(mail, [event |-> NoLogin, ack |-> {c}])
  /\ calls' = [calls EXCEPT ![c] = [stage |-> "flushing", what |-> what, event |-> MakeEvent("login", o, 0),
                                    sent |-> Sent, stored |-> what = "query", id |-> 0, answer |-> <<>>]]
  /\ UNCHANGED <<moment, tracked, hidden, batch, writing, table, lastId, gone, failures>>

\* The login's own row; its number stays with the session.
InsertLogin(c) ==
  /\ calls[c].stage = "flushed" /\ ~calls[c].stored
  /\ \/ /\ lastId' = lastId + 1
        /\ table' = table \cup {[id |-> lastId + 1, event |-> calls[c].event]}
        /\ calls' = [calls EXCEPT ![c].id = lastId + 1, ![c].stored = TRUE, ![c].stage = "in"]
        /\ UNCHANGED <<gone, failures>>
     \/ /\ failures < MaxFailures /\ failures' = failures + 1
        /\ gone' = gone \cup {calls[c].event.serial}
        /\ calls' = [calls EXCEPT ![c].stored = TRUE, ![c].stage = "in"]
        /\ UNCHANGED <<table, lastId>>
  /\ UNCHANGED <<moment, made, tracked, hidden, mail, batch, writing>>

\* The login before is asked for: a query, with its flush.
AsksLast(c) ==
  /\ calls[c].stage = "in" /\ Len(mail) < QueueRoom
  /\ mail' = Append(mail, [event |-> NoLogin, ack |-> {c}])
  /\ calls' = [calls EXCEPT ![c].stage = "flushing"]
  /\ UNCHANGED <<moment, made, tracked, hidden, batch, writing, table, lastId, gone, failures>>

\* A query reads.
ReadEvents(c) ==
  /\ calls[c].stage = "flushed" /\ calls[c].stored
  /\ calls' = [calls EXCEPT ![c].stage = "answered",
       ![c].answer = Chosen(IF calls[c].what = "login" THEN {"login"} ELSE Recorded)]
  /\ UNCHANGED <<moment, made, tracked, hidden, mail, batch, writing, table, lastId, gone, failures>>

MomentPasses ==
  /\ moment < LastMoment
  /\ moment' = moment + 1
  /\ UNCHANGED <<made, tracked, hidden, mail, batch, writing, table, lastId, gone, calls, failures>>

AuditInit ==
  /\ moment = 0 /\ made = 0 /\ tracked = <<>> /\ hidden = [o \in Origin |-> [count |-> 0, told |-> 0]]
  /\ mail = <<>> /\ batch = <<>> /\ writing = NotWriting /\ table = {} /\ lastId = 0 /\ gone = {}
  /\ calls = [c \in Reader |-> NoCall] /\ failures = 0

AuditNext ==
  \/ \E o \in Origin : RequestBlocked(o) \/ Record(o)
  \/ TakeNext \/ FlushTimer \/ StoreBatch \/ Prune \/ MomentPasses
  \/ \E c \in Reader, what \in {"login", "query"}, o \in Origin : Begins(c, what, o)
  \/ \E c \in Reader : InsertLogin(c) \/ AsksLast(c) \/ ReadEvents(c)

AuditSpec == AuditInit /\ [][AuditNext]_auditVars

----------------------------------------------------------------------------
(* Properties.                                                              *)

\* Every variable has a value of its type.
AuditTypeOK ==
  /\ moment \in 0..LastMoment /\ Len(mail) <= QueueRoom /\ Len(batch) < BatchRoom /\ failures \in 0..MaxFailures
  /\ DOMAIN tracked \subseteq Origin /\ Cardinality(DOMAIN tracked) <= MaxTracked
  /\ \A r \in table : r.id \in 1..lastId /\ r.event.serial \in 1..made
  /\ \A c \in Reader : calls[c].stage \in {"none", "flushing", "flushed", "in", "answered"}

\* An answer has whatever was sent before it was asked for, but what is dropped, failed or pruned, and what a
\* full answer has newer events in place of.
AnswersAreWhole ==
  \A c \in Reader : calls[c].stage = "answered" /\ calls[c].what = "query" =>
    \A e \in calls[c].sent \ gone :
      \/ \E i \in DOMAIN calls[c].answer : calls[c].answer[i].event.serial = e
      \/ Len(calls[c].answer) = QueryLimit

\* The login shown as the last one is neither the present one nor part of it, and no login from elsewhere that was
\* stored before the present one is passed over for an older one.
LastLoginIsTheLast ==
  \A c \in Reader : calls[c].stage = "answered" /\ calls[c].what = "login" =>
    LET previous == PreviousLogin(calls[c].answer, calls[c].id)
        mine == calls[c].event
    IN  /\ previous # NoLogin => previous.event.serial # mine.serial
        /\ \A i \in DOMAIN calls[c].answer :
             LET other == calls[c].answer[i] IN
             other.event.origin # mine.origin /\ (other.id < calls[c].id \/ calls[c].id = 0) =>
               previous # NoLogin /\ previous.event.at >= other.event.at

\* The audit log tells what happened: answers are whole although events are stored in batches behind the callers'
\* backs, the last login is the last, of the blocked requests that were not stored no more are told than there
\* were, and retention leaves the newest rows and no more than its limit (flush_pending, run_audit_writer,
\* RateLimitAuditThrottle::admit, previous_login, prune_expired_records).
AuditTells ==
  /\ AnswersAreWhole /\ LastLoginIsTheLast
  /\ \A o \in Origin : hidden[o].told + Told(o) <= hidden[o].count
  /\ Cardinality(Pruned) <= MaxRows
  /\ \A r \in Pruned, q \in table \ Pruned : q.id < r.id \/ TooOld(q)
===============================================================================
