----------------------------- MODULE AlertNotices -----------------------------
(***************************************************************************)
(* Alerts and daily summaries (server: alerts/): the evaluation of a rule  *)
(* for a node, the tracker of what is active and whom it has reached, the  *)
(* schedule of the daily inspection, the bounded queue of deliveries with  *)
(* its workers, and the attempts to reach the two channels, whose results  *)
(* come back late and in any order.                                        *)
(*                                                                         *)
(* One rule and one node; times are ages in ticks of the evaluation.  The  *)
(* text of messages, the statistics of a summary and the transport below   *)
(* an attempt are left out.  Everybody wants resolved notices.             *)
(***************************************************************************)
EXTENDS Integers, Sequences, SequencesExt

CONSTANTS
  Cooldown,       \* cooldown_minutes, in ticks
  RetryDelay,     \* DELIVERY_FAILURE_RETRY_DELAY_MINUTES, in ticks
  SummaryRetry,   \* INSPECTION_RETRY_INTERVAL_SECS, in ticks
  QueueSize,      \* DELIVERY_QUEUE_CAPACITY
  Workers,        \* MAX_CONCURRENT_DELIVERIES
  ResultSize,     \* DELIVERY_RESULT_CAPACITY
  MaxTries,       \* DELIVERY_MAX_ATTEMPTS
  MaxRounds,      \* bound: rounds of notices that begin
  MaxDay,         \* bound: last day
  MaxTrouble      \* bound: failed attempts, changes of the configuration, restarts

ASSUME NoticesAssumption ==
  /\ Cooldown \in Nat /\ RetryDelay \in 0..Cooldown /\ SummaryRetry \in Nat
  /\ QueueSize \in Nat \ {0} /\ Workers \in Nat \ {0} /\ ResultSize \in Nat \ {0}
  /\ MaxTries \in Nat \ {0} /\ MaxRounds \in Nat /\ MaxDay \in Nat
  /\ MaxTrouble \in Nat

VARIABLES
  subjects,    \* "alerts": there are rules; "summaries": inspection.enabled
  enabled,     \* alerts.enabled
  on,          \* channels the configuration and the rule deliver to
  entry,       \* AlertStateTracker.active
  schedule,    \* InspectionDispatchState
  day, past,   \* the local date, and whether local_time has passed
  queue,       \* delivery_rx
  working,     \* deliveries of the dispatcher
  results,     \* result_rx
  stopping,    \* the runtime has left its loop
  rounds,      \* rounds that have begun; a new alert begins one, and so does a repeat
  received,    \* <<round, channel>>: the channel has the trigger
  confirmed,   \* <<round, channel>>: the channel has said so
  crossed,     \* rounds into which the outcome of another round was recorded
  strange,     \* alerts into which the outcome of another alert was recorded
  unapplied,   \* alerts into which the outcome of a round for no channel was
  surprises,   \* alerts whose resolution reached a channel without their trigger
  repeats,     \* rounds that reached a channel again that had confirmed them
  told,        \* <<day, channel>>: the summary arrived, or did not apply
  trouble

noticeConfig == <<subjects, enabled, on>>
noticeClock == <<day, past>>
noticePipe == <<queue, working, results>>
receiptGhost == <<received, confirmed, surprises, repeats>>
outcomeGhost == <<crossed, strange, unapplied>>
noticeGhost == <<rounds, receiptGhost, outcomeGhost, told>>
noticeVars == <<noticeConfig, entry, schedule, noticeClock, noticePipe, stopping,
                noticeGhost, trouble>>

-----------------------------------------------------------------------------
Channel == {"webhook", "smtp"}
NoEntry == [active |-> FALSE]
NoDay == -1
Never == SummaryRetry   \* an age at which a failure no longer matters

Least(a, b) == IF a < b THEN a ELSE b
Trouble == trouble < MaxTrouble /\ trouble' = trouble + 1

NewSchedule == [sent |-> NoDay, pending |-> NoDay, failed |-> Never,
                date |-> NoDay, reached |-> {}]

(* The evaluation of a rule for a node it covers.  Load stands for CPU,    *)
(* memory, disk and latency: over a window the average of the history      *)
(* decides, if there is one, else what the node reports now.  Traffic is   *)
(* the usage of this month under the node's present settings.              *)
NoValue == -1
Threshold == 1
Measure == {NoValue} \cup 0..2

Rule == [metric : {"load", "offline", "traffic"}, comparator : {"gt", "lt"},
         window : 1..2, covers : BOOLEAN]
Status == [online : BOOLEAN, current : Measure, average : Measure, offline : 0..2,
           usage : Measure]

CurrentValue(r, s) ==
  CASE r.metric = "load" -> s.current
    [] r.metric = "offline" -> IF s.online THEN NoValue ELSE s.offline
    [] r.metric = "traffic" -> s.usage

UsesAverage(r) == r.window > 1 /\ r.metric = "load"
RuleValue(r, s) ==
  IF UsesAverage(r) /\ s.average # NoValue THEN s.average ELSE CurrentValue(r, s)

Compares(r, v) ==
  IF r.comparator = "lt" THEN v < Threshold
  ELSE v > Threshold \/ (r.metric = "traffic" /\ v = Threshold)

Matches(r, s) == r.covers /\ RuleValue(r, s) # NoValue /\ Compares(r, RuleValue(r, s))

-----------------------------------------------------------------------------
(* The tracker.                                                            *)

(* Alerts and rounds have numbers that the code does not keep: an alert    *)
(* has that of its first round, and its rounds are the ones up to "no".    *)
NewEntry ==
  [active |-> TRUE, age |-> 0, roundAge |-> 0, round |-> {}, seen |-> FALSE,
   retry |-> FALSE, ever |-> {}, resolved |-> FALSE,
   alert |-> rounds + 1, no |-> rounds + 1]

HoldsNothing(e) == FALSE
HoldsResolvedNotice(e) == ~e.seen \/ (e.retry /\ e.ever = {})
ResolvedChannels(e) == IF e.ever = {} THEN Channel ELSE e.ever

(* A job carries the configuration of its time: config is "on" then.       *)
Job(kind, d, chans, config) ==
  [kind |-> kind, day |-> d, config |-> config, left |-> chans \cap config,
   delivered |-> {}, failed |-> {}, tries |-> 0, alert |-> 0, no |-> 0]
OfAlert(job, e) == [job EXCEPT !.alert = e.alert, !.no = e.no]
TriggersAll(e) == OfAlert(Job("triggered", NoDay, Channel, on), e)
Trigger(e) == OfAlert(Job("triggered", NoDay, Channel \ e.round, on), e)
Resolution(e, config) == OfAlert(Job("resolved", NoDay, ResolvedChannels(e), config), e)

Aged(e) ==
  IF ~e.active THEN e
  ELSE [e EXCEPT !.age = Least(@ + 1, Cooldown), !.roundAge = Least(@ + 1, Cooldown)]

(* update: the entry and the events of one evaluation.                     *)
Repeated(e) ==
  IF ~e.retry \/ e.roundAge >= Cooldown
    THEN [e EXCEPT !.age = 0, !.roundAge = 0, !.round = {}, !.resolved = FALSE,
                   !.no = rounds + 1]
    ELSE [e EXCEPT !.age = 0, !.resolved = FALSE]

Updated(e, matched) ==
  CASE matched /\ ~e.active -> [entry |-> NewEntry, events |-> <<Trigger(NewEntry)>>]
    [] matched /\ e.active /\ e.age >= Cooldown ->
         [entry |-> Repeated(e), events |-> <<Trigger(Repeated(e))>>]
    [] matched /\ e.active /\ e.age < Cooldown ->
         [entry |-> [e EXCEPT !.resolved = FALSE], events |-> <<>>]
    [] ~matched /\ e.active /\ HoldsResolvedNotice(e) ->
         [entry |-> [e EXCEPT !.resolved = TRUE], events |-> <<>>]
    [] ~matched /\ e.active /\ ~HoldsResolvedNotice(e) ->
         [entry |-> NoEntry, events |-> <<Resolution(e, on)>>]
    [] OTHER -> [entry |-> e, events |-> <<>>]

(* record_delivery_outcome for a trigger.                                  *)
Reported(e, delivered, failed) ==
  [e EXCEPT !.seen = TRUE, !.round = @ \cup delivered, !.ever = @ \cup delivered,
            !.retry = failed, !.age = IF failed THEN Cooldown - RetryDelay ELSE @]

Recorded(e, job, delivered, failed) ==
  IF job.kind # "triggered" \/ ~e.active THEN [entry |-> e, events |-> <<>>]
  ELSE LET r == Reported(e, delivered, failed)
       IN IF r.resolved /\ ~HoldsResolvedNotice(r)
            THEN [entry |-> NoEntry, events |-> <<Resolution(r, job.config)>>]
            ELSE [entry |-> r, events |-> <<>>]

(* enqueue_alert_delivery: a full queue counts as a failed delivery.       *)
Enqueued(update, q) ==
  LET jobs == update.events
  IN IF jobs = <<>> THEN [entry |-> update.entry, queue |-> q]
     ELSE IF Len(q) < QueueSize
            THEN [entry |-> update.entry, queue |-> q \o jobs]
            ELSE [entry |-> Recorded(update.entry, Head(jobs), {}, TRUE).entry, queue |-> q]

-----------------------------------------------------------------------------
(* The schedule of summaries.                                              *)

SummaryDue(s) ==
  "summaries" \in subjects /\ on # {} /\ past /\ s.sent # day /\ s.pending # day /\ s.failed >= SummaryRetry

ChannelsDue(s) == IF s.date = day THEN Channel \ s.reached ELSE Channel

ScheduleAged(s) == [s EXCEPT !.failed = Least(@ + 1, Never)]

(* record_sent_channels: a late result of an earlier day changes nothing.  *)
RecordSent(s, d, delivered) ==
  IF s.date = d THEN [s EXCEPT !.reached = @ \cup delivered]
  ELSE IF s.date > d THEN s ELSE [s EXCEPT !.date = d, !.reached = delivered]

MarksAllSent(s, job) == [s EXCEPT !.sent = job.day, !.pending = NoDay, !.failed = Never]
Summarized(s, job) ==
  LET r == RecordSent(s, job.day, job.delivered)
  IN IF job.failed = {} THEN [r EXCEPT !.sent = job.day, !.pending = NoDay, !.failed = Never]
     ELSE [r EXCEPT !.pending = NoDay, !.failed = 0]

-----------------------------------------------------------------------------
NoticesInit ==
  /\ subjects \in SUBSET {"alerts", "summaries"} /\ enabled = TRUE /\ on = Channel
  /\ entry = NoEntry /\ schedule = NewSchedule
  /\ day = 0 /\ past = FALSE
  /\ queue = <<>> /\ working = <<>> /\ results = <<>>
  /\ stopping = FALSE
  /\ rounds = 0 /\ received = {} /\ confirmed = {} /\ crossed = {} /\ strange = {}
  /\ unapplied = {} /\ surprises = {} /\ repeats = {} /\ told = {}
  /\ trouble = 0

-----------------------------------------------------------------------------
(* A tick of the runtime: the rule, then the summary.  A rule that is gone *)
(* takes its entry with it.                                                *)
EnqueueSummary(q, s) ==
  IF ~SummaryDue(s) THEN schedule' = s /\ queue' = q
  ELSE IF Len(q) < QueueSize
         THEN /\ queue' = Append(q, Job("summary", day, ChannelsDue(s), on))
              /\ schedule' = [s EXCEPT !.pending = day]
         ELSE queue' = q /\ schedule' = [s EXCEPT !.pending = NoDay, !.failed = 0]

Evaluate(ruled, matched) ==
  /\ ~stopping /\ enabled
  /\ ruled => "alerts" \in subjects
  /\ LET u == Updated(Aged(entry), matched)
         e == IF ruled THEN Enqueued(u, queue) ELSE [entry |-> NoEntry, queue |-> queue]
     IN /\ entry' = e.entry
        /\ rounds' = IF e.entry.active /\ e.entry.no > rounds THEN e.entry.no ELSE rounds
        /\ rounds' <= MaxRounds
        /\ EnqueueSummary(e.queue, ScheduleAged(schedule))
  /\ UNCHANGED <<noticeConfig, noticeClock, working, results, stopping, receiptGhost,
                 outcomeGhost, told, trouble>>

EvaluateDisabled ==
  /\ ~stopping /\ ~enabled
  /\ entry' = NoEntry /\ schedule' = NewSchedule
  /\ UNCHANGED <<noticeConfig, noticeClock, noticePipe, stopping, noticeGhost, trouble>>

(* local_time passes, and midnight, which may be the same moment; only     *)
(* summaries care.                                                         *)
Clock ==
  /\ "summaries" \in subjects
  /\ \/ ~past /\ past' = TRUE /\ UNCHANGED day
     \/ past /\ day < MaxDay /\ day' = day + 1 /\ past' \in BOOLEAN
  /\ UNCHANGED <<noticeConfig, entry, schedule, noticePipe, stopping, noticeGhost, trouble>>

Configure(e, chans) ==
  /\ Trouble
  /\ <<e, chans>> # <<enabled, on>>
  /\ enabled' = e /\ on' = chans
  /\ UNCHANGED <<subjects, entry, schedule, noticeClock, noticePipe, stopping, noticeGhost>>

-----------------------------------------------------------------------------
(* The dispatcher and its workers.                                         *)

Dispatch ==
  /\ queue # <<>> /\ Len(working) < Workers
  /\ working' = Append(working, Head(queue))
  /\ queue' = Tail(queue)
  /\ UNCHANGED <<noticeConfig, entry, schedule, noticeClock, results, stopping, noticeGhost,
                 trouble>>

(* An attempt: what is reported, whether the channel has the message, and  *)
(* whether it is worth another try.  A mail is delivered when the server   *)
(* has answered for its body, whatever becomes of QUIT; a webhook when it  *)
(* answers 2xx, WeCom also errcode 0.  Without that answer nobody knows.   *)
Attempt(ok, taken, again) == [ok |-> ok, taken |-> taken, again |-> again]

(* run_smtp_dialog waits for eight answers: greeting, EHLO, AUTH, MAIL,    *)
(* RCPT, DATA, the body and QUIT; k is the one that fails, 9 none.         *)
BodyAnswer == 7
DoneAtData(k) == k >= BodyAnswer
DoneAtBody(k) == k > BodyAnswer
SmtpAttempts ==
  {Attempt(FALSE, FALSE, FALSE)} \* a header that is not valid
    \cup {Attempt(DoneAtBody(k), k > BodyAnswer \/ (k = BodyAnswer /\ t), TRUE) :
            k \in 1..9, t \in BOOLEAN}

WebhookAttempts ==
  {Attempt(FALSE, FALSE, FALSE), \* no valid request, or a final refusal
   Attempt(FALSE, FALSE, TRUE),  \* not reached, or busy: 429, 5xx, WeCom's -1 and 45009
   Attempt(FALSE, TRUE, TRUE),   \* no complete answer in time
   Attempt(FALSE, TRUE, FALSE),  \* an answer that is too long
   Attempt(TRUE, TRUE, FALSE)}

Attempts(c) == IF c = "smtp" THEN SmtpAttempts ELSE WebhookAttempts

NextChannel(job) == IF "webhook" \in job.left THEN "webhook" ELSE "smtp"

(* What a channel has received, and what it should not have.               *)
Saw(job, c) == \E r \in job.alert..job.no : <<r, c>> \in received
Receipt(job, c, attempt) ==
  /\ received' = IF job.kind = "triggered" /\ attempt.taken
                   THEN received \cup {<<job.no, c>>} ELSE received
  /\ confirmed' = IF job.kind = "triggered" /\ attempt.ok
                    THEN confirmed \cup {<<job.no, c>>} ELSE confirmed
  /\ surprises' = IF job.kind = "resolved" /\ attempt.taken /\ ~Saw(job, c)
                    THEN surprises \cup {job.alert} ELSE surprises
  /\ repeats' = IF job.kind = "triggered" /\ attempt.taken /\ <<job.no, c>> \in confirmed
                  THEN repeats \cup {job.no} ELSE repeats

(* retry_delivery: the job after an attempt.                               *)
Attempted(job, c, attempt) ==
  LET over == [job EXCEPT !.left = @ \ {c}, !.tries = 0]
  IN IF attempt.ok THEN [over EXCEPT !.delivered = @ \cup {c}]
     ELSE IF attempt.again /\ job.tries + 1 < MaxTries
            THEN [job EXCEPT !.tries = @ + 1]
            ELSE [over EXCEPT !.failed = @ \cup {c}]

Deliver(i) ==
  LET job == working[i]
      c == NextChannel(job)
  IN /\ job.left # {}
     /\ \E attempt \in Attempts(c) :
          /\ IF attempt.ok THEN UNCHANGED trouble ELSE Trouble
          /\ working' = [working EXCEPT ![i] = Attempted(job, c, attempt)]
          /\ Receipt(job, c, attempt)
     /\ UNCHANGED <<noticeConfig, entry, schedule, noticeClock, queue, results, stopping,
                    rounds, outcomeGhost, told>>

(* A worker keeps its slot until there is room for its result.             *)
Finish(i) ==
  LET job == working[i]
  IN /\ job.left = {}
     /\ stopping \/ Len(results) < ResultSize
     /\ working' = RemoveAt(working, i)
     /\ results' = IF stopping THEN results ELSE Append(results, job)
     /\ told' = IF job.kind # "summary" THEN told
                ELSE told \cup {<<job.day, c>> : c \in job.delivered \cup (Channel \ job.config)}
     /\ UNCHANGED <<noticeConfig, entry, schedule, noticeClock, queue, stopping, rounds,
                    receiptGhost, outcomeGhost, trouble>>

(* process_delivery_result.  The tracker finds its entry by rule and node. *)
Crossing(job) ==
  LET recorded == job.kind = "triggered" /\ entry.active
  IN /\ crossed' = IF recorded /\ job.no # entry.no THEN crossed \cup {entry.no} ELSE crossed
     /\ strange' = IF recorded /\ job.alert # entry.alert
                     THEN strange \cup {entry.alert} ELSE strange
     /\ unapplied' = IF recorded /\ job.delivered \cup job.failed = {}
                       THEN unapplied \cup {entry.alert} ELSE unapplied

Process ==
  LET job == Head(results)
      e == Enqueued(Recorded(entry, job, job.delivered, job.failed # {}), queue)
  IN /\ ~stopping /\ results # <<>>
     /\ results' = Tail(results)
     /\ IF job.kind = "summary"
          THEN schedule' = Summarized(schedule, job) /\ UNCHANGED <<entry, queue>>
          ELSE entry' = e.entry /\ queue' = e.queue /\ UNCHANGED schedule
     /\ Crossing(job)
     /\ UNCHANGED <<noticeConfig, noticeClock, working, stopping, rounds, receiptGhost, told,
                    trouble>>

(* Shutdown: results are no longer wanted; what is queued is delivered for *)
(* as long as the time limit allows.                                       *)
Stop ==
  /\ ~stopping /\ Trouble
  /\ stopping' = TRUE /\ results' = <<>>
  /\ UNCHANGED <<noticeConfig, entry, schedule, noticeClock, queue, working, noticeGhost>>

RestartRuntime ==
  /\ stopping
  /\ stopping' = FALSE
  /\ entry' = NoEntry /\ schedule' = NewSchedule
  /\ queue' = <<>> /\ working' = <<>>
  /\ UNCHANGED <<noticeConfig, noticeClock, results, noticeGhost, trouble>>

-----------------------------------------------------------------------------
Verdicts == {Matches(r, s) : r \in Rule, s \in Status}

NoticesNext ==
  \/ \E matched \in Verdicts : Evaluate(TRUE, matched)
  \/ Evaluate(FALSE, FALSE) \/ EvaluateDisabled \/ Clock
  \/ \E e \in BOOLEAN, chans \in SUBSET Channel : Configure(e, chans)
  \/ Dispatch \/ Process \/ Stop \/ RestartRuntime
  \/ \E i \in 1..Len(working) : Deliver(i) \/ Finish(i)

NoticesSpec == NoticesInit /\ [][NoticesNext]_noticeVars

-----------------------------------------------------------------------------
NoticesTypeOK ==
  /\ Len(queue) <= QueueSize /\ Len(working) <= Workers /\ Len(results) <= ResultSize
  /\ entry.active => /\ entry.age \in 0..Cooldown /\ entry.round \subseteq entry.ever
  /\ schedule.sent \in NoDay..MaxDay /\ schedule.reached \subseteq Channel

(* NoResolutionUnseen: no channel gets a resolution of an alert it never   *)
(* saw (tracker.rs, holds_resolved_notice), through results that come      *)
(* late, retries, repeats, alerts that come and go and a full queue.  The  *)
(* exceptions are an alert whose trigger applied to no channel at all, and *)
(* one whose entry got the late outcome of an earlier alert of that rule.  *)
NoResolutionUnseen == surprises \subseteq strange \cup unapplied

(* RetriesSkipWhoHasIt: a channel that has confirmed a notice does not get *)
(* it again when another channel's failure is retried (tracker.rs,         *)
(* round_delivered), unless the outcome of an earlier round came late and  *)
(* made this round look as if it had failed.                               *)
RetriesSkipWhoHasIt == repeats \subseteq crossed

(* ResolvedOnlyWhoSaw: the same without the second exception, as the code  *)
(* says (tracker.rs:74, no resolution for an alert that was never seen).   *)
ResolvedOnlyWhoSaw == surprises \subseteq unapplied

(* SentDaysReachedAll: a day counts as sent only when every channel has    *)
(* its summary, through partial failures, retries that skip who has it,    *)
(* and results that come in on another day (runtime.rs: a result for an    *)
(* earlier day that finishes after midnight must not reset today's).       *)
SentDaysReachedAll ==
  schedule.sent # NoDay => \A c \in Channel : <<schedule.sent, c>> \in told

(* What each channel has got adds up: no resolution of an alert it never   *)
(* saw, no notice again that it has confirmed, and no day counted as sent  *)
(* that it misses (alerts/tracker.rs, alerts/runtime.rs).                  *)
NoticesAddUp == NoResolutionUnseen /\ RetriesSkipWhoHasIt /\ SentDaysReachedAll
===============================================================================
