--------------------------- MODULE HistoryQueries ---------------------------
(* Questions about a node's history: the samples the writer commits and     *)
(* prunes, the limit on concurrent reads, the reads themselves, which go on *)
(* when whoever asked is gone, and the short-lived cache of answers.        *)
(* A sample is the second at which it was recorded; an aggregated point is  *)
(* the set of the samples it averages.  One node; clock is both the wall    *)
(* clock and the monotonic one, in seconds.                                 *)
EXTENDS Integers, Sequences, FiniteSets, FiniteSetsExt, SequencesExt

CONSTANTS
  Caller,             \* requests of the history being answered
  ReadLimit,          \* reads at a time
  CacheEntries,       \* entries the cache holds
  CacheBytes,         \* bytes the cache holds, in points
  RetentionHours,     \* how long samples are kept
  FewestPoints,       \* no answer is asked for fewer points
  Days,               \* bound: the last second of the clock
  MaxAsked            \* bound: questions asked

ASSUME HistoryAssumption ==
  /\ ReadLimit \in Nat \ {0} /\ CacheEntries \in Nat \ {0} /\ CacheBytes \in Nat
  /\ RetentionHours \in Nat \ {0} /\ FewestPoints \in Nat \ {0} /\ Days \in Nat /\ MaxAsked \in Nat

\* An answer is kept for one second.
CacheTtl == 1
\* Samples are pruned at most once in this time.
PruneEvery == 2

VARIABLES
  clock,              \* the second it is
  rows,               \* history_points: the samples, with the second of their commit
  prunedAt,           \* last_pruned_at: the last pruning, 0 is never
  open,               \* available
  asking,             \* the callers and what they wait for
  reading,            \* the blocking reads, by the caller that started them
  queue,              \* callers waiting for a permit, in order
  permits,            \* permits that are free
  cache,              \* entries, the most recently used first
  bytes,              \* estimated_bytes, the cache's account
  asked               \* questions asked so far

historyVars == <<clock, rows, prunedAt, open, asking, reading, queue, permits, cache, bytes, asked>>

NotAsking == [stage |-> "idle"]
NoRead == [stage |-> "none"]

\* The retained samples reach back to this second.
RetentionFloor == clock - RetentionHours

----------------------------------------------------------------------------
(* The answer: half-open buckets, at most the number of points asked for.   *)

\* The width is taken from the span, as if its last second were not part of it.
BucketSecondsOfSpan(key) ==
  Max({(key.until - key.since + key.max - 1) \div key.max, 1})
\* The width of a bucket: the range holds one second more than its span.
BucketSeconds(key) ==
  LET inclusive == Max({key.until - key.since, 0}) + 1
  IN  Max({(inclusive + key.max - 1) \div key.max, 1})

\* The samples of the range, grouped by bucket in ascending order, cut to the limit.
QueryBetween(key) ==
  LET inRange == {t \in DOMAIN rows : key.since <= t /\ t <= key.until}
      bucket(t) == (t - key.since) \div BucketSeconds(key)
      groups == {{t \in inRange : bucket(t) = b} : b \in {bucket(t) : t \in inRange}}
      sorted == SetToSortSeq(groups, LAMBDA g, h : Max(g) < Max(h))
  IN  SubSeq(sorted, 1, Min({key.max, Len(sorted)}))

----------------------------------------------------------------------------
(* The cache of answers.                                                    *)

\* What an entry is thought to take: its key and its points.
EstimatedBytes(points) == 1 + Len(points)

Expired(entry) == clock - entry.at >= CacheTtl

\* The entries of S leave the cache and its account.
Without(entries, S) == SelectSeq(entries, LAMBDA e : e \notin S)
BytesOf(S) == FoldSet(LAMBDA e, sum : sum + EstimatedBytes(e.points), 0, S)

Entry(key) == {e \in Range(cache) : e.key = key}

\* A look at the cache: a hit moves the entry up, an expired entry is dropped.
Hit(key) == \E e \in Entry(key) : ~Expired(e)
Looked(key) ==
  \/ /\ Entry(key) = {}
     /\ UNCHANGED <<cache, bytes>>
  \/ \E e \in Entry(key) :
       IF Expired(e)
       THEN cache' = Without(cache, {e}) /\ bytes' = Max({0, bytes - EstimatedBytes(e.points)})
       ELSE cache' = <<e>> \o Without(cache, {e}) /\ UNCHANGED bytes

\* The least recently used entries go while the account is over the budget.
RECURSIVE Trimmed(_, _)
Trimmed(entries, total) ==
  IF total <= CacheBytes \/ entries = <<>> THEN [entries |-> entries, bytes |-> IF entries = <<>> THEN 0 ELSE total]
  ELSE Trimmed(Front(entries), Max({0, total - EstimatedBytes(Last(entries).points)}))

\* A new entry replaces the one of its key or, in a full cache, the oldest.
Insert(key, points, readAt) ==
  IF points = <<>> \/ EstimatedBytes(points) > CacheBytes THEN UNCHANGED <<cache, bytes>>
  ELSE LET entry == [key |-> key, points |-> points, at |-> clock, readAt |-> readAt]
           out == IF Entry(key) # {} THEN Entry(key)
                  ELSE IF Len(cache) = CacheEntries THEN {Last(cache)} ELSE {}
           new == Trimmed(<<entry>> \o Without(cache, out), bytes + EstimatedBytes(points) - BytesOf(out))
       IN  cache' = new.entries /\ bytes' = new.bytes

\* The housekeeping drops every expired entry.
PruneExpired ==
  LET old == {e \in Range(cache) : Expired(e)}
  IN  /\ old # {}
      /\ cache' = Without(cache, old) /\ bytes' = Max({0, bytes - BytesOf(old)})
      /\ UNCHANGED <<clock, rows, prunedAt, open, asking, reading, queue, permits, asked>>

----------------------------------------------------------------------------
(* Permits: a free one is taken at once, a returned one goes to the first   *)
(* in the queue.                                                            *)

Answered(points, readAt, key) == [stage |-> "answered", points |-> points, readAt |-> readAt, key |-> key]

\* A permit comes back while asking is otherwise changed to `callers`.
Release(callers) ==
  IF queue = <<>>
  THEN permits' = permits + 1 /\ asking' = callers /\ UNCHANGED queue
  ELSE /\ asking' = [callers EXCEPT ![Head(queue)] = [@ EXCEPT !.stage = "permitted"]]
       /\ queue' = Tail(queue)
       /\ UNCHANGED permits

----------------------------------------------------------------------------
(* Questions.                                                               *)

\* The last hours, or a range of the caller's choice.
WindowQuestion(hours, max) ==
  [since |-> clock - Max({1, Min({hours, RetentionHours})}), until |-> clock, max |-> Max({max, FewestPoints})]
RangeQuestion(start, end, max) ==
  [since |-> Max({start, RetentionFloor}), until |-> Min({end, clock}), max |-> Max({max, FewestPoints})]

\* The questions explored: windows short and beyond the retention, a range in the past and one that reaches the future.
Questions ==
  {WindowQuestion(RetentionHours + 1, 1), RangeQuestion(0, 2, 3), RangeQuestion(1, Days + 1, 1)}

\* A caller asks: nothing is read of a store that is gone, or of an empty range; a cached answer is given at once.
QueryHistory(c) ==
  /\ asking[c] = NotAsking /\ asked < MaxAsked
  /\ asked' = asked + 1
  /\ \E key \in Questions :
       \/ /\ ~open \/ key.until <= key.since
          /\ asking' = [asking EXCEPT ![c] = Answered(<<>>, 0, [key EXCEPT !.until = key.since - 1])]
          /\ UNCHANGED <<queue, permits, cache, bytes>>
       \/ /\ open /\ key.since < key.until
          /\ Looked(key)
          /\ \/ \E e \in Entry(key) :
                  /\ Hit(key)
                  /\ asking' = [asking EXCEPT ![c] = Answered(e.points, e.readAt, key)]
                  /\ UNCHANGED <<queue, permits>>
             \/ /\ ~Hit(key) /\ permits > 0
                /\ permits' = permits - 1
                /\ asking' = [asking EXCEPT ![c] = [stage |-> "permitted", key |-> key]]
                /\ UNCHANGED queue
             \/ /\ ~Hit(key) /\ permits = 0
                /\ queue' = Append(queue, c)
                /\ asking' = [asking EXCEPT ![c] = [stage |-> "waiting", key |-> key]]
                /\ UNCHANGED permits
  /\ UNCHANGED <<clock, rows, prunedAt, open, reading>>

\* With its permit the caller looks again: another may have read the same meanwhile.
Permitted(c) ==
  /\ asking[c].stage = "permitted"
  /\ LET key == asking[c].key IN
       /\ Looked(key)
       /\ \/ \E e \in Entry(key) :
               /\ Hit(key)
               /\ Release([asking EXCEPT ![c] = Answered(e.points, e.readAt, key)])
               /\ UNCHANGED reading
          \/ /\ ~Hit(key)
             /\ reading' = [reading EXCEPT ![c] = [stage |-> "running", key |-> key]]
             /\ asking' = [asking EXCEPT ![c] = [stage |-> "reading", key |-> key]]
             /\ UNCHANGED <<queue, permits>>
  /\ UNCHANGED <<clock, rows, prunedAt, open, asked>>

\* The blocking read: its permit goes with it, and comes back with the points.
ReadRows(c) ==
  /\ reading[c].stage = "running"
  /\ \/ \* whoever asked is there to take points and permit
        /\ asking[c].stage = "reading"
        /\ reading' = [reading EXCEPT ![c] =
             [stage |-> "done", key |-> @.key, points |-> QueryBetween(@.key), readAt |-> clock]]
        /\ UNCHANGED <<asking, queue, permits>>
     \/ \* nobody is: the permit falls with the result
        /\ asking[c].stage # "reading"
        /\ reading' = [reading EXCEPT ![c] = NoRead]
        /\ Release(asking)
  /\ UNCHANGED <<clock, rows, prunedAt, open, cache, bytes, asked>>

\* The read fails: the permit is dropped by the blocking task.
ReadFails(c) ==
  /\ reading[c].stage = "running"
  /\ reading' = [reading EXCEPT ![c] = NoRead]
  /\ Release(IF asking[c].stage = "reading" THEN [asking EXCEPT ![c] = NotAsking] ELSE asking)
  /\ UNCHANGED <<clock, rows, prunedAt, open, cache, bytes, asked>>

\* The points are cached, and only then the permit is returned.
CacheAndAnswer(c) ==
  /\ reading[c].stage = "done"
  /\ reading' = [reading EXCEPT ![c] = NoRead]
  /\ Insert(reading[c].key, reading[c].points, reading[c].readAt)
  /\ Release([asking EXCEPT ![c] = Answered(reading[c].points, reading[c].readAt, reading[c].key)])
  /\ UNCHANGED <<clock, rows, prunedAt, open, asked>>

\* Whoever asked goes away, at any point: what it holds is dropped, a running read goes on without it.
CallerLeaves(c) ==
  /\ asking[c] # NotAsking
  /\ reading[c].stage \in {"none", "running"} \/ asking[c].stage = "reading"
  /\ LET left == [asking EXCEPT ![c] = NotAsking] IN
       \/ /\ asking[c].stage = "waiting"
          /\ queue' = SelectSeq(queue, LAMBDA d : d # c)
          /\ asking' = left
          /\ UNCHANGED <<permits, reading>>
       \/ /\ asking[c].stage = "permitted"
          /\ Release(left)
          /\ UNCHANGED reading
       \/ /\ asking[c].stage = "reading" /\ reading[c].stage = "done"
          /\ reading' = [reading EXCEPT ![c] = NoRead]
          /\ Release(left)
       \/ /\ asking[c].stage = "reading" /\ reading[c].stage = "running"
          /\ asking' = [asking EXCEPT ![c] = [stage |-> "gone"]]
          /\ UNCHANGED <<queue, permits, reading>>
       \/ /\ asking[c].stage = "answered"
          /\ asking' = left
          /\ UNCHANGED <<queue, permits, reading>>
  /\ UNCHANGED <<clock, rows, prunedAt, open, cache, bytes, asked>>

\* The slot of a caller that left during its read is free when the read ended.
SlotFree(c) ==
  /\ asking[c].stage = "gone" /\ reading[c] = NoRead
  /\ asking' = [asking EXCEPT ![c] = NotAsking]
  /\ UNCHANGED <<clock, rows, prunedAt, open, reading, queue, permits, cache, bytes, asked>>

----------------------------------------------------------------------------
(* The writer, as the questions see it.                                     *)

\* Samples older than the retention leave, in transactions of their own.
PruneHistoryBefore(kept, cutoff) == [t \in {u \in DOMAIN kept : u >= cutoff} |-> kept[t]]

\* A sample is committed, a little after it was recorded; pruning, when due, follows and may fail.
WriteBatch(recorded) ==
  LET new == [t \in DOMAIN rows \cup {recorded} |-> IF t \in DOMAIN rows THEN rows[t] ELSE clock]
      due == prunedAt = 0 \/ clock - prunedAt >= PruneEvery
  IN  /\ open /\ recorded <= clock /\ recorded \notin DOMAIN rows
      /\ prunedAt' = IF due THEN clock ELSE prunedAt
      /\ \/ due /\ rows' = PruneHistoryBefore(new, RetentionFloor)
         \/ rows' = new
      /\ UNCHANGED <<clock, open, asking, reading, queue, permits, cache, bytes, asked>>

\* The writer is found to be gone.
StoreCloses ==
  /\ open /\ open' = FALSE
  /\ UNCHANGED <<clock, rows, prunedAt, asking, reading, queue, permits, cache, bytes, asked>>

HistoryTick ==
  /\ clock < Days
  /\ clock' = clock + 1
  /\ UNCHANGED <<rows, prunedAt, open, asking, reading, queue, permits, cache, bytes, asked>>

HistoryInit ==
  /\ clock = 1 /\ rows = [t \in {0} |-> 0] /\ prunedAt = 0 /\ open = TRUE
  /\ asking = [c \in Caller |-> NotAsking] /\ reading = [c \in Caller |-> NoRead]
  /\ queue = <<>> /\ permits = ReadLimit /\ cache = <<>> /\ bytes = 0 /\ asked = 0

HistoryNext ==
  \/ \E c \in Caller :
       \/ QueryHistory(c) \/ Permitted(c) \/ ReadRows(c) \/ ReadFails(c)
       \/ CacheAndAnswer(c) \/ CallerLeaves(c) \/ SlotFree(c)
  \/ \E recorded \in {clock - 1, clock} : WriteBatch(recorded)
  \/ PruneExpired \/ StoreCloses \/ HistoryTick

HistorySpec == HistoryInit /\ [][HistoryNext]_historyVars

----------------------------------------------------------------------------
(* Properties.                                                              *)

Stages == {"idle", "waiting", "permitted", "reading", "answered", "gone"}

\* Every variable has a value of its type.
HistoryTypeOK ==
  /\ clock \in 0..Days /\ prunedAt \in 0..Days /\ open \in BOOLEAN /\ asked \in 0..MaxAsked
  /\ DOMAIN rows \subseteq 0..Days /\ \A t \in DOMAIN rows : rows[t] \in t..clock
  /\ \A c \in Caller : asking[c].stage \in Stages /\ reading[c].stage \in {"none", "running", "done"}
  /\ Range(queue) \subseteq Caller /\ permits \in 0..ReadLimit
  /\ bytes \in 0..CacheBytes

\* Those who hold a permit: callers on their way to a read, and every read, wanted or not.
Holders == {c \in Caller : asking[c].stage = "permitted" \/ reading[c] # NoRead}

\* Every permit is free or held, none waits while one is free, and the queue is those that wait.
PermitsAddUp ==
  /\ permits + Cardinality(Holders) = ReadLimit
  /\ queue # <<>> => permits = 0
  /\ Len(queue) = Cardinality(Range(queue))
  /\ Range(queue) = {c \in Caller : asking[c].stage = "waiting"}

\* The account is the size of what is cached, within the budget; one entry for each key.
CacheAddsUp ==
  /\ bytes = BytesOf(Range(cache))
  /\ Len(cache) <= CacheEntries
  /\ \A i, j \in DOMAIN cache : cache[i].key = cache[j].key => i = j

\* An answer has at most the points asked for and covers every sample of its range that was committed before it was read.
Covers(points, readAt, key) ==
  LET shown == UNION Range(points)
  IN  /\ Len(points) <= key.max
      /\ shown \subseteq key.since..key.until
      /\ \A t \in DOMAIN rows : rows[t] < readAt /\ t \in key.since..key.until => t \in shown
      /\ \A i, j \in DOMAIN points : i < j => Max(points[i]) < Min(points[j])

\* History queries stay within their limits and leave nothing out: reads never exceed the permits, even when
\* callers leave during a read, every permit comes back, the cache's account is true, and an answer, cached or
\* read, shows every sample of its range in no more points than asked for (query_history_with_cache).
HistoryAnswersHold ==
  /\ PermitsAddUp /\ CacheAddsUp
  /\ \A c \in Caller : asking[c].stage = "answered" => Covers(asking[c].points, asking[c].readAt, asking[c].key)
  /\ \A e \in Range(cache) : Covers(e.points, e.readAt, e.key)
=============================================================================
