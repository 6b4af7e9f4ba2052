------------------------------ MODULE AgentLogs ------------------------------
(***************************************************************************)
(* Diagnostic lines from the agents to the server.  An agent keeps its     *)
(* last lines and sends them in batches once it is authenticated           *)
(* (nodelite-agent session.rs, session/connection.rs); between two         *)
(* sessions it waits, longer with every failure.  The server keeps the     *)
(* last lines of each node within a budget for all nodes together          *)
(* (agent_logs.rs), and forgets nodes that were removed.                   *)
(*                                                                         *)
(* Lines are numbered as they are written, and have a size; texts, levels  *)
(* and times are left out.  A blank line is one that sanitising drops.     *)
(***************************************************************************)
EXTENDS Integers, Sequences, FiniteSets

CONSTANTS
  Host,             \* nodes with their agents
  MaxPendingLogs,   \* MAX_PENDING_AGENT_LOGS
  MaxLogBatch,      \* MAX_AGENT_LOG_BATCH, of the agent
  MaxBatchEntries,  \* MAX_BATCH_ENTRIES, of the server
  MaxLogsPerNode,   \* MAX_LOGS_PER_NODE
  MaxLogEntries,    \* agent_logs.max_entries
  MaxLogBytes,      \* agent_logs.max_estimated_bytes
  LineSize,         \* sizes of lines; 0 is blank
  MaxLines,         \* bound: lines an agent writes
  MaxDelays         \* bound: failures of one agent

ASSUME AgentLogsAssumption ==
  /\ {MaxPendingLogs, MaxLogBatch, MaxBatchEntries, MaxLogsPerNode} \subseteq Nat \ {0}
  /\ {MaxLogEntries, MaxLogBytes, MaxLines, MaxDelays} \subseteq Nat
  /\ LineSize \subseteq Nat

VARIABLES
  agents,     \* per node: buffer, session, failures in a row, lines written
  wire,       \* per node: batches under way
  buffers,    \* per node: LogState.buffers
  counted,    \* LogState: entries, estimated_bytes, next_sequence
  evicted     \* the highest sequence the global budget has evicted

storeVars == <<buffers, counted, evicted>>
logVars == <<agents, wire, buffers, counted, evicted>>

-----------------------------------------------------------------------------
NewAgent == [lines |-> <<>>, stage |-> "down", refused |-> 0, failed |-> 0, wrote |-> 0]

LogsInit ==
  /\ agents = [h \in Host |-> NewAgent]
  /\ wire = [h \in Host |-> <<>>]
  /\ buffers = [h \in Host |-> <<>>]
  /\ counted = [entries |-> 0, bytes |-> 0, next |-> 1]
  /\ evicted = 0

LastOf(s, n) == SubSeq(s, IF Len(s) > n THEN Len(s) - n + 1 ELSE 1, Len(s))
FirstOf(s, n) == SubSeq(s, 1, IF Len(s) > n THEN n ELSE Len(s))

-----------------------------------------------------------------------------
(* The agent.                                                              *)

(* AgentLogBuffer::push: the oldest lines make room.                       *)
Written(a, size) ==
  [a EXCEPT !.lines = LastOf(Append(@, [line |-> a.wrote + 1, size |-> size]), MaxPendingLogs),
            !.wrote = @ + 1]

WriteLine(h) ==
  /\ agents[h].wrote < MaxLines
  /\ \E size \in LineSize : agents' = [agents EXCEPT ![h] = Written(@, size)]
  /\ UNCHANGED <<wire, storeVars>>

Authenticated(h) ==
  /\ agents[h].stage = "down"
  /\ agents' = [agents EXCEPT ![h].stage = "up"]
  /\ UNCHANGED <<wire, storeVars>>

(* flush_agent_logs: what was sent leaves the buffer after the send.       *)
FlushLogs(h) ==
  /\ agents[h].stage = "up" /\ agents[h].lines # <<>>
  /\ LET batch == FirstOf(agents[h].lines, MaxLogBatch) IN
     /\ wire' = [wire EXCEPT ![h] = Append(@, batch)]
     /\ agents' = [agents EXCEPT ![h].lines = SubSeq(@, Len(batch) + 1, Len(@))]
  /\ UNCHANGED storeVars

(* The send fails: part of the frame may have gone out, or all of it.      *)
FlushFails(h) ==
  /\ agents[h].stage = "up" /\ agents[h].lines # <<>> /\ agents[h].wrote < MaxLines
  /\ wire' \in {wire, [wire EXCEPT ![h] = Append(@, FirstOf(agents[h].lines, MaxLogBatch))]}
  /\ agents' = [agents EXCEPT ![h] =
       [Written(@, 1) EXCEPT !.stage = "waits", !.failed = 1, !.refused = 0]]
  /\ UNCHANGED storeVars

(* run_forever: an expired token has its own, slower schedule.             *)
SessionEnds(h) ==
  /\ agents[h].stage \in {"up", "down"} /\ agents[h].wrote < MaxLines
  /\ LET a == agents[h]
         established == a.stage = "up"
     IN \E expired \in IF established THEN {FALSE} ELSE BOOLEAN :
          /\ (IF established THEN 0 ELSE a.failed) + a.refused < MaxDelays
          /\ agents' = [agents EXCEPT ![h] =
               [Written(a, 1) EXCEPT !.stage = "waits",
                  !.refused = IF expired THEN @ + 1 ELSE 0,
                  !.failed = IF expired THEN 0 ELSE IF established THEN 1 ELSE @ + 1]]
  /\ UNCHANGED <<wire, storeVars>>

Reconnect(h) ==
  /\ agents[h].stage = "waits"
  /\ agents' = [agents EXCEPT ![h].stage = "down"]
  /\ UNCHANGED <<wire, storeVars>>

(* The connection's frames are gone with it.                               *)
LoseFrames(h) ==
  /\ agents[h].stage # "up" /\ wire[h] # <<>>
  /\ wire' = [wire EXCEPT ![h] = <<>>]
  /\ UNCHANGED <<agents, storeVars>>

-----------------------------------------------------------------------------
(* The server's store.                                                     *)

LogStore == [buffers |-> buffers, counted |-> counted, evicted |-> evicted]

PopsFront(st, h) ==
  LET gone == Head(st.buffers[h]) IN
  [st EXCEPT !.buffers[h] = Tail(@),
             !.counted.entries = @ - 1, !.counted.bytes = @ - gone.size]

TooMany(st) == st.counted.entries > MaxLogEntries
Overfull(st) == st.counted.entries > MaxLogEntries \/ st.counted.bytes > MaxLogBytes
Buffered(st) == {h \in Host : st.buffers[h] # <<>>}
FrontOf(st, h) == Head(st.buffers[h]).seq
Oldest(st) == CHOOSE h \in Buffered(st) : \A g \in Buffered(st) : FrontOf(st, h) <= FrontOf(st, g)
Fullest(st) ==
  CHOOSE h \in Buffered(st) : \A g \in Buffered(st) : Len(st.buffers[h]) >= Len(st.buffers[g])

(* enforce_global_budget: one line at a time, the oldest of all.           *)
Victim(st) == Oldest(st)
WithinBudget(st) ==
  LET Evict[n \in 0..MaxLogEntries + 1] ==
        IF n = 0 THEN st
        ELSE LET before == Evict[n - 1] IN
             IF Overfull(before) /\ Buffered(before) # {}
               THEN LET h == Victim(before) IN
                    [PopsFront(before, h) EXCEPT !.evicted =
                       IF FrontOf(before, h) > @ THEN FrontOf(before, h) ELSE @]
               ELSE before
  IN Evict[MaxLogEntries + 1]

PushesLine(st, h, l) ==
  [st EXCEPT !.buffers[h] = Append(@, [line |-> l.line, size |-> l.size, seq |-> st.counted.next]),
             !.counted = [entries |-> @.entries + 1, bytes |-> @.bytes + l.size,
                          next |-> @.next + 1]]

PerNode(st, h) == IF Len(st.buffers[h]) > MaxLogsPerNode THEN PopsFront(st, h) ELSE st

RecordsLine(st, h, l) ==
  IF l.size = 0 THEN st ELSE WithinBudget(PerNode(PushesLine(st, h, l), h))

(* record_entries, in one go under the lock.                               *)
RecordsBatch(st, h, batch) ==
  LET Taken[i \in 0..Len(batch)] ==
        IF i = 0 THEN st ELSE RecordsLine(Taken[i - 1], h, batch[i])
  IN Taken[Len(FirstOf(batch, MaxBatchEntries))]

Stores(st) == buffers' = st.buffers /\ counted' = st.counted /\ evicted' = st.evicted

RecordEntries(h) ==
  /\ wire[h] # <<>>
  /\ Stores(RecordsBatch(LogStore, h, Head(wire[h])))
  /\ wire' = [wire EXCEPT ![h] = Tail(@)]
  /\ UNCHANGED agents

(* forget_missing: the node was removed.                                   *)
SizeOf(lines) ==
  LET Sum[i \in 0..Len(lines)] == IF i = 0 THEN 0 ELSE Sum[i - 1] + lines[i].size
  IN Sum[Len(lines)]

ForgetMissing(h) ==
  /\ buffers[h] # <<>>
  /\ Stores([LogStore EXCEPT !.buffers[h] = <<>>,
                             !.counted.entries = @ - Len(buffers[h]),
                             !.counted.bytes = @ - SizeOf(buffers[h])])
  /\ UNCHANGED <<agents, wire>>

LogsNext ==
  \E h \in Host :
    \/ WriteLine(h) \/ Authenticated(h) \/ FlushLogs(h) \/ FlushFails(h)
    \/ SessionEnds(h) \/ Reconnect(h) \/ LoseFrames(h)
    \/ RecordEntries(h) \/ ForgetMissing(h)

LogsSpec == LogsInit /\ [][LogsNext]_logVars

-----------------------------------------------------------------------------
Lines(s) == \A i \in DOMAIN s : s[i].line \in 1..MaxLines /\ s[i].size \in LineSize \cup {1}

(* Every variable has a value of its type, within its limit.               *)
LogsTypeOK ==
  /\ \A h \in Host :
       /\ agents[h].stage \in {"down", "up", "waits"}
       /\ Len(agents[h].lines) <= MaxPendingLogs /\ Lines(agents[h].lines)
       /\ {agents[h].refused, agents[h].failed} \subseteq 0..MaxDelays
       /\ agents[h].wrote \in 0..MaxLines
       /\ \A i \in DOMAIN wire[h] : Lines(wire[h][i])
       /\ Len(buffers[h]) <= MaxLogsPerNode /\ Lines(buffers[h])
  /\ counted.entries \in 0..MaxLogEntries /\ counted.bytes \in 0..MaxLogBytes
  /\ counted.next \in Nat /\ evicted \in 0..counted.next

Total(f(_)) ==
  LET Sum[s \in SUBSET Host] ==
        IF s = {} THEN 0 ELSE LET h == CHOOSE h \in s : TRUE IN f(h) + Sum[s \ {h}]
  IN Sum[Host]

(* The budget counts what the store holds, after any mix of evictions and  *)
(* removals; each node's lines are in the order in which they came; and    *)
(* nothing the store still holds is older than a line it gave up for the   *)
(* budget of all, whichever node was to blame (agent_logs.rs).             *)
NewestLinesStay ==
  /\ counted.entries = Total(LAMBDA h : Len(buffers[h]))
  /\ counted.bytes = Total(LAMBDA h : SizeOf(buffers[h]))
  /\ \A h \in Host : \A i \in DOMAIN buffers[h] :
       /\ buffers[h][i].seq > evicted
       /\ i > 1 => buffers[h][i - 1].seq < buffers[h][i].seq
===============================================================================
