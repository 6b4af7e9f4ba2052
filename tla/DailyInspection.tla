--------------------------- MODULE DailyInspection ---------------------------
(* The daily inspection report: what the nodes' states show when it is due, *)
(* then, node by node and each in a query of its own, the trend and the     *)
(* peaks of the history, while nodes report, leave and come back.           *)
(* Two metrics stand for the four: the load of a snapshot and the latency.  *)
(* An event's text is its kind and its value.                               *)
EXTENDS Integers, Sequences, FiniteSets, FiniteSetsExt, SequencesExt

CONSTANTS
  Inspected,          \* nodes
  Lookback,           \* inspection.lookback_hours, in seconds of the model
  Grace,              \* inspection.offline_grace_minutes
  Warn,               \* the level from which a value is worth a mention
  TrendBuckets,       \* INSPECTION_TREND_BUCKETS
  MostEvents,         \* events kept for a node
  LastSecond,         \* bound: the last second
  MaxReports,         \* bound: reports of the nodes
  MaxMisses           \* bound: queries that fail, nodes that go

ASSUME InspectionAssumption ==
  /\ Lookback \in Nat \ {0} /\ Grace \in Nat /\ Warn \in Nat /\ TrendBuckets \in Nat \ {0}
  /\ MostEvents \in Nat \ {0} /\ LastSecond \in Nat /\ MaxReports \in Nat /\ MaxMisses \in Nat

VARIABLES
  second,             \* the time
  state,              \* the nodes' states
  points,             \* history_points of each node, with the second of their commit
  report,             \* the report being built
  reported,           \* reports so far
  misses              \* queries failed and nodes gone so far

inspectionVars == <<second, state, points, report, reported, misses>>

Nothing == -1
Metrics == {"load", "rtt"}
Levels == {Nothing, Warn, Warn + 1}

Unknown == [online |-> FALSE, seen |-> Nothing, load |-> Nothing, rtt |-> Nothing, taken |-> Nothing]
NotBegun == [stage |-> "none"]

----------------------------------------------------------------------------
(* The nodes' states when the report is due.                                *)

Event(at, kind, value) == [at |-> at, kind |-> kind, value |-> value]

\* How long a node is gone, as far as that is known.
OfflineFor(s) == IF s.online \/ s.seen = Nothing THEN Nothing ELSE Max({second - s.seen, 0})

\* When the reading of a state was taken: with its snapshot, else when the node was seen last.
ObservedAt(s) == IF s.taken # Nothing THEN s.taken ELSE IF s.seen # Nothing THEN s.seen ELSE second

\* What there is to say of a state.
CurrentEvents(s) ==
  {Event(Min({s.seen + Grace, second}), "offline", OfflineFor(s)) : x \in {y \in {0} : OfflineFor(s) >= Grace}}
    \cup {Event(ObservedAt(s), m, s[m]) : m \in {n \in Metrics : s[n] >= Warn}}

----------------------------------------------------------------------------
(* The history of the hours before.                                         *)

\* The hour at which the report begins looking, and the width of its trend's buckets.
Since(r) == r.now - Lookback
BucketCount == Min({Lookback, TrendBuckets})
TrendWidth(r) == LET span == Max({r.now - Since(r), 1}) IN (span + BucketCount - 1) \div BucketCount

\* A point of the last second of the range belongs to the last bucket.
UnclampedBucket(r, p) == Max({p.at - Since(r), 0}) \div TrendWidth(r)
BucketIndex(r, p) == Min({Max({p.at - Since(r), 0}) \div TrendWidth(r), BucketCount - 1})

\* The points of a node in the range of the report.
PointsOf(n, r) == {p \in points[n] : Since(r) <= p.at /\ p.at <= r.now}

\* The rows of the peaks: for each metric the highest value, the newest of equals; no value is below any.
PeakRows(n, r) ==
  LET best(m) == {p \in PointsOf(n, r) : \A q \in PointsOf(n, r) :
                    q[m] < p[m] \/ (q[m] = p[m] /\ q.at <= p.at)}
  IN  UNION {best(m) : m \in Metrics}

\* The peak of a metric among those rows: the highest from the warning on, the newest of equals.
PeakEvents(rows) ==
  {Event(p.at, "peak of " \o m, p[m]) : <<m, p>> \in
    {<<m, p>> \in Metrics \X rows : p[m] >= Warn
       /\ \A q \in rows : q[m] < p[m] \/ (q[m] = p[m] /\ q.at <= p.at)}}

\* A node's events, the newest first, without repeats and no more than fit.
Highlights(events) ==
  LET kinds == <<"load", "offline", "peak of load", "peak of rtt", "rtt">>
      rank(e) == CHOOSE i \in DOMAIN kinds : kinds[i] = e.kind
      sorted == SetToSortSeq(events, LAMBDA e, f : e.at > f.at \/ (e.at = f.at /\ rank(e) < rank(f)))
  IN  SubSeq(sorted, 1, Min({Len(sorted), MostEvents}))

----------------------------------------------------------------------------
(* The report.                                                              *)

\* The report is due: totals and events of the nodes' present states.
BeginReport ==
  /\ report.stage = "none" /\ second >= Lookback
  /\ report' = [stage |-> "list", now |-> second,
                known |-> {n \in Inspected : state[n] # Unknown},
                offline |-> Cardinality({n \in Inspected : state[n] # Unknown /\ OfflineFor(state[n]) >= Grace}),
                events |-> [n \in Inspected |-> IF state[n] = Unknown THEN {} ELSE CurrentEvents(state[n])],
                left |-> {}, node |-> Nothing, trend |-> [b \in 0..BucketCount - 1 |-> 0],
                read |-> 0, skipped |-> {}]
  /\ UNCHANGED <<second, state, points, reported, misses>>

\* The nodes whose history is read are listed anew.
ListNodes ==
  /\ report.stage = "list"
  /\ report' = [report EXCEPT !.stage = "trend", !.left = {n \in Inspected : state[n] # Unknown}]
  /\ UNCHANGED <<second, state, points, reported, misses>>

\* A node's points, into the buckets of the trend; or the query fails and its history is left out.
ReadTrend(n) ==
  /\ report.stage = "trend" /\ n \in report.left
  /\ \/ /\ report' = [report EXCEPT !.stage = "peaks", !.node = n, !.left = @ \ {n},
              !.read = @ + Cardinality(PointsOf(n, report)),
              !.trend = [b \in DOMAIN @ |-> @[b] + Cardinality({p \in PointsOf(n, report) : BucketIndex(report, p) = b})]]
        /\ UNCHANGED misses
     \/ /\ misses < MaxMisses /\ misses' = misses + 1
        /\ report' = [report EXCEPT !.left = @ \ {n}, !.skipped = @ \cup {n}]
  /\ UNCHANGED <<second, state, points, reported>>

\* Its peaks, in a query after that.
ReadPeaks ==
  /\ report.stage = "peaks"
  /\ LET n == report.node IN
       \/ /\ report' = [report EXCEPT !.stage = "trend", !.events[n] = @ \cup PeakEvents(PeakRows(n, report))]
          /\ UNCHANGED misses
       \/ /\ misses < MaxMisses /\ misses' = misses + 1
          /\ report' = [report EXCEPT !.stage = "trend", !.skipped = @ \cup {n}]
  /\ UNCHANGED <<second, state, points, reported>>

\* What was found is merged, node by node.
MergeHighlights ==
  /\ report.stage = "trend" /\ report.left = {}
  /\ report' = [stage |-> "done", now |-> report.now, offline |-> report.offline, known |-> report.known,
                trend |-> report.trend, read |-> report.read, skipped |-> report.skipped,
                highlights |-> [n \in {m \in Inspected : report.events[m] # {}} |-> Highlights(report.events[n])]]
  /\ UNCHANGED <<second, state, points, reported, misses>>

----------------------------------------------------------------------------
(* The nodes.                                                               *)

\* A node reports, or answers a ping; a sample of a report goes to the history, or waits for its interval.
Reports(n, load, rtt) ==
  /\ reported < MaxReports /\ reported' = reported + 1
  /\ state' = [state EXCEPT ![n] = [online |-> TRUE, seen |-> second, load |-> load, rtt |-> rtt, taken |-> second]]
  /\ \/ points' = [points EXCEPT ![n] = @ \cup {[at |-> second, load |-> load, rtt |-> rtt, commit |-> second]}]
     \/ UNCHANGED points
  /\ UNCHANGED <<second, report, misses>>

\* Its session ends: what it showed last stays.
GoesOffline(n) ==
  /\ state[n].online
  /\ state' = [state EXCEPT ![n].online = FALSE]
  /\ UNCHANGED <<second, points, report, reported, misses>>

\* It is removed; its samples are not.
NodeRemoved(n) ==
  /\ state[n] # Unknown /\ misses < MaxMisses
  /\ misses' = misses + 1
  /\ state' = [state EXCEPT ![n] = Unknown]
  /\ UNCHANGED <<second, points, report, reported>>

Passes ==
  /\ second < LastSecond
  /\ second' = second + 1
  /\ UNCHANGED <<state, points, report, reported, misses>>

InspectionInit ==
  /\ second = 0 /\ state = [n \in Inspected |-> Unknown] /\ points = [n \in Inspected |-> {}]
  /\ report = NotBegun /\ reported = 0 /\ misses = 0

InspectionNext ==
  \/ BeginReport \/ ListNodes \/ ReadPeaks \/ MergeHighlights \/ Passes
  \/ \E n \in Inspected : ReadTrend(n) \/ GoesOffline(n) \/ NodeRemoved(n)
  \/ \E n \in Inspected, load, rtt \in Levels : Reports(n, load, rtt)

InspectionSpec == InspectionInit /\ [][InspectionNext]_inspectionVars

----------------------------------------------------------------------------
(* Properties.                                                              *)

\* Every variable has a value of its type.
InspectionTypeOK ==
  /\ second \in 0..LastSecond /\ reported \in 0..MaxReports /\ misses \in 0..MaxMisses
  /\ \A n \in Inspected : state[n].seen \in Nothing..second /\ state[n].online \in BOOLEAN
  /\ \A n \in Inspected : \A p \in points[n] : p.at \in 0..second
  /\ report.stage \in {"none", "list", "trend", "peaks", "done"}

\* The samples of a node that were committed before the report began.
Before(n) == {p \in PointsOf(n, report) : p.commit < report.now}

\* A node's list has the peak of a metric, or is full of events no older.
HasPeak(n, m, top) ==
  \/ \E i \in DOMAIN report.highlights[n] :
       report.highlights[n][i].kind = "peak of " \o m /\ report.highlights[n][i].value >= top
  \/ /\ Len(report.highlights[n]) = MostEvents
     /\ \A i \in DOMAIN report.highlights[n] : \E p \in PointsOf(n, report) :
          p[m] >= top /\ report.highlights[n][i].at >= p.at

\* A finished report is complete although it is read in many queries: every point read is in one bucket of the
\* trend, and whatever a node that was there recorded at a warning level during the hours before has its peak
\* in the node's list, short of failed queries (build_inspection_history_analysis, merge_inspection_highlights).
InspectionIsComplete ==
  report.stage = "done" =>
    /\ FoldSet(LAMBDA b, sum : sum + report.trend[b], 0, DOMAIN report.trend) = report.read
    /\ report.offline <= Cardinality(report.known)
    /\ \A n \in Inspected \ report.skipped, m \in Metrics :
         state[n] # Unknown /\ n \in report.known /\ misses = 0
           => \A p \in Before(n) : p[m] >= Warn => n \in DOMAIN report.highlights /\ HasPeak(n, m, p[m])
    /\ \A n \in DOMAIN report.highlights :
         \A i, j \in DOMAIN report.highlights[n] : i < j => report.highlights[n][i].at >= report.highlights[n][j].at
===============================================================================
