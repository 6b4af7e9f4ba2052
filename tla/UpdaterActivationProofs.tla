------------------------ MODULE UpdaterActivationProofs ------------------------
(***************************************************************************)
(* Whatever fails, is killed or loses power on its way, the updater runs a *)
(* release that is known to be good and recovers alone: for any releases,  *)
(* requests, boots, starts, kills, faults and applications.                *)
(***************************************************************************)
EXTENDS UpdaterActivation, SequenceTheorems, TLAPS

(* What a process may still have to do: the steps of the stage it is in,   *)
(* and the last ones of its command.                                       *)
Plan ==
  [end |-> <<>>,
   \* looking at what a crash left behind
   clear |-> <<"clear">>, boot |-> <<"clear", "downloads", "reconcile">>,
   look |-> <<"downloads", "reconcile">>, ended |-> <<"save", "reconcile">>,
   reconcile |-> <<"reconcile">>,
   \* one step of an open transaction
   save |-> <<"save">>, halt |-> <<"save", "stop">>, stop |-> <<"stop">>,
   preflight |-> <<"preflight">>, restart |-> <<"restart">>,
   try |-> <<"save", "to", "restart">>, point |-> <<"to", "restart">>,
   intend |-> <<"save", "recover">>, recover |-> <<"recover">>,
   return |-> <<"from", "restart", "save">>, returned |-> <<"restart", "save">>,
   \* applying a release
   take |-> <<"pend", "save", "collect", "fetch">>, claim |-> <<"save", "collect", "fetch">>,
   collect |-> <<"collect", "fetch">>, fetch |-> <<"fetch">>,
   same |-> <<"save", "object", "current">>, samefile |-> <<"object", "current">>,
   current |-> <<"current">>,
   newer |-> <<"save", "object", "prepare">>, newfile |-> <<"object", "prepare">>,
   prepare |-> <<"prepare">>,
   candidate |-> <<"candidate", "pend", "open", "save", "preflight">>,
   pend |-> <<"pend", "open", "save", "preflight">>,
   open |-> <<"open", "save", "preflight">>, opened |-> <<"save", "preflight">>,
   \* asking for the operator
   fail |-> <<"save!", "latch!">>, latch |-> <<"latch!">>]

Ending == [unpend |-> <<"unpend">>, both |-> <<"unpend", "result">>, result |-> <<"result">>,
           none |-> <<>>]

Todo(s, t) == Plan[s] \o Ending[t]

Looking == {"boot", "look", "ended", "reconcile"}
Deciding == {"intend", "recover"}
Trying == {"try", "point"}
Returning == {"return", "returned"}
Chosen == {"candidate", "pend", "open"}
Fetched == {"current", "prepare"} \cup Chosen
Applying == {"take", "claim", "collect", "fetch", "same", "samefile", "newer", "newfile"} \cup Fetched
Failing == {"fail", "latch"}
Lone == {"end", "clear", "stop", "preflight", "restart"}

(* The stages with a journal in memory that may be ahead of the file.      *)
Ahead == {"save", "halt", "try", "intend", "opened"} \cup Returning

Stages == Lone \cup Looking \cup Deciding \cup Trying \cup Applying \cup Failing \cup Ahead
Endings == {"unpend", "both", "result", "none"}

(* A journal that may be in the file or in memory now: what it says of the *)
(* files d, of the Agent a and of the boot is true.                        *)
Sound(j, d, a, h, t, c) ==
  /\ j.floor <= j.installed /\ j.installed <= j.seen
  /\ j.installed \in d.objects
  /\ j.tx # NoTx =>
       /\ j.tx.from \in d.objects /\ j.tx.to \in d.objects
       /\ j.tx.from < j.tx.to /\ j.tx.to <= j.seen
       /\ j.tx.boot <= h.boot
       /\ j.phase \notin {"committed", "manual"} => j.tx.from = j.installed
  /\ j.phase \in {"prepared", "stopping", "trial", "rollback_intent"} => j.tx # NoTx
  /\ j.phase \notin {"trial", "rollback_intent", "manual"} =>
       d.active = j.installed /\ a.run \in {0, j.installed}
  /\ d.active # j.installed =>
       /\ j.tx # NoTx /\ d.active = j.tx.to
       /\ h.state = "up" => t = h.boot
  /\ a.run \notin {0, j.installed} =>
       j.tx # NoTx /\ a.run = j.tx.to /\ t = h.boot
  /\ j.phase = "manual" => c
  /\ ~Terminal(j.phase) /\ ~c => d.pending

(* Where the process p stands when it is in stage s with t to finish, and  *)
(* how far its journal may be from the journal j of the file.              *)
Agrees(s, t, p, j, d, h, c) ==
  LET m == p.mem IN
  /\ t \in {"result", "none"} => s \in Failing \cup {"end", "save"}
  /\ s \notin Ahead /\ t \in {"unpend", "both"} =>
       m.phase = j.phase /\ m.tx = j.tx /\ m.installed = j.installed
  /\ s \in Failing => c
  /\ s \in Trying => m.phase = "trial" /\ p.job # "boot"
  /\ s \in Returning => m.phase = "rollback_intent" /\ j.phase = "rollback_intent"
                        /\ m.installed = j.installed
  /\ s \in Deciding => m.phase = "rollback_intent"
  /\ s \in Applying => Terminal(m.phase) /\ p.job \notin {"boot", "reconcile"}
  /\ s \in Fetched => m.seen \in d.objects
  /\ s \in Chosen => m.seen > m.installed
  /\ s = "open" => d.pending
  /\ p.job = "boot" =>
       /\ m.installed = j.installed
       /\ ~p.ok => c
       /\ s \in Looking \cup Deciding => m.tx = NoTx \/ m.tx.boot # h.boot
       /\ p.ok => d.active = j.installed \/ s \in Looking \cup Deciding \cup {"return"}

(* The kinds of the state; a process is a record with four fields.         *)
JobNames == {"none", "boot", "reconcile", "apply", "remote"}
DiskType == [active : Release, candidate : Release, objects : SUBSET Release,
             pending : BOOLEAN, latch : BOOLEAN, litter : BOOLEAN, request : Request \cup {0}]
AgentType == [run : Release \cup {0}, inv : 0 .. MaxStarts, healthy : BOOLEAN]
HostType == [boot : 1 .. MaxBoots, state : {"up", "starting", "held"}]

Types ==
  /\ journal \in Journals
  /\ disk \in DiskType
  /\ markers \subseteq {"restart", "stop", "preflight"}
  /\ units \in [probe : Unit, stop : Unit]
  /\ agent \in AgentType
  /\ host \in HostType
  /\ proc = [job |-> proc.job, todo |-> proc.todo, mem |-> proc.mem, ok |-> proc.ok]
  /\ proc.job \in JobNames /\ proc.ok \in BOOLEAN
  /\ proc.job # "none" => proc.mem \in Journals
  /\ policy \in {"enabled", "paused", "resumed"} /\ tried \in 0 .. MaxBoots /\ cause \in BOOLEAN

(* Which process runs when, and what the host and the latch say.           *)
Jobs ==
  /\ proc.job = "none" => proc = NoJob
  /\ proc.job \in {"reconcile", "apply", "remote"} => host.state = "up"
  /\ proc.job = "boot" => host.state = "starting"
  /\ host.state = "starting" /\ proc.job = "none" =>
       journal.tx = NoTx \/ journal.tx.boot # host.boot
  /\ host.state # "up" => agent.run = 0
  /\ disk.latch \/ host.state = "held" => cause

Work ==
  proc.job # "none" =>
    /\ Sound(proc.mem, disk, agent, host, tried, cause)
    /\ \E s \in Stages, t \in Endings :
         proc.todo = Todo(s, t) /\ Agrees(s, t, proc, journal, disk, host, cause)

IInv == Types /\ Sound(journal, disk, agent, host, tried, cause) /\ Jobs /\ Work

(* The groups of variables are always expanded.                            *)
USE DEF updaterVars

-----------------------------------------------------------------------------
(* The steps of the stages.                                                *)

(* The first step of a stage, and the stage that is left after it.         *)
First ==
  [clear |-> "clear", boot |-> "clear", look |-> "downloads", ended |-> "save",
   reconcile |-> "reconcile", save |-> "save", halt |-> "save", stop |-> "stop",
   preflight |-> "preflight", restart |-> "restart", try |-> "save", point |-> "to",
   intend |-> "save", recover |-> "recover", return |-> "from", returned |-> "restart",
   take |-> "pend", claim |-> "save", collect |-> "collect", fetch |-> "fetch",
   same |-> "save", samefile |-> "object", current |-> "current", newer |-> "save",
   newfile |-> "object", prepare |-> "prepare", candidate |-> "candidate", pend |-> "pend",
   open |-> "open", opened |-> "save", fail |-> "save!", latch |-> "latch!"]

After ==
  [clear |-> "end", boot |-> "look", look |-> "reconcile", ended |-> "reconcile",
   reconcile |-> "end", save |-> "end", halt |-> "stop", stop |-> "end",
   preflight |-> "end", restart |-> "end", try |-> "point", point |-> "restart",
   intend |-> "recover", recover |-> "end", return |-> "returned", returned |-> "save",
   take |-> "claim", claim |-> "collect", collect |-> "fetch", fetch |-> "end",
   same |-> "samefile", samefile |-> "current", current |-> "end", newer |-> "newfile",
   newfile |-> "prepare", prepare |-> "end", candidate |-> "pend", pend |-> "open",
   open |-> "opened", opened |-> "preflight", fail |-> "latch", latch |-> "end"]

(* A literal sequence is its first element before the others.             *)
LEMMA Literal2 ==
  ASSUME NEW x, NEW y
  PROVE  <<x>> \o <<y>> = <<x, y>>
<1> DEFINE S == {x, y}
<1>1. <<x>> \o <<y>> \in Seq(S) /\ <<x, y>> \in Seq(S)
  OBVIOUS
<1>2. Len(<<x>> \o <<y>>) = 2 /\ Len(<<x, y>>) = 2
  OBVIOUS
<1>3. \A i \in 1 .. 2 : (<<x>> \o <<y>>)[i] = <<x, y>>[i]
  OBVIOUS
<1>4. QED
  BY <1>1, <1>2, <1>3, SeqEqual

LEMMA Literal3 ==
  ASSUME NEW x, NEW y, NEW z
  PROVE  <<x>> \o <<y, z>> = <<x, y, z>>
<1> DEFINE S == {x, y, z}
<1>1. <<x>> \o <<y, z>> \in Seq(S) /\ <<x, y, z>> \in Seq(S)
  OBVIOUS
<1>2. Len(<<x>> \o <<y, z>>) = 3 /\ Len(<<x, y, z>>) = 3
  OBVIOUS
<1>3. \A i \in 1 .. 3 : (<<x>> \o <<y, z>>)[i] = <<x, y, z>>[i]
  OBVIOUS
<1>4. QED
  BY <1>1, <1>2, <1>3, SeqEqual

LEMMA Literal4 ==
  ASSUME NEW x, NEW y, NEW z, NEW u
  PROVE  <<x>> \o <<y, z, u>> = <<x, y, z, u>>
<1> DEFINE S == {x, y, z, u}
<1>1. <<x>> \o <<y, z, u>> \in Seq(S) /\ <<x, y, z, u>> \in Seq(S)
  OBVIOUS
<1>2. Len(<<x>> \o <<y, z, u>>) = 4 /\ Len(<<x, y, z, u>>) = 4
  OBVIOUS
<1>3. \A i \in 1 .. 4 : (<<x>> \o <<y, z, u>>)[i] = <<x, y, z, u>>[i]
  OBVIOUS
<1>4. QED
  BY <1>1, <1>2, <1>3, SeqEqual

LEMMA Literal5 ==
  ASSUME NEW x, NEW y, NEW z, NEW u, NEW v
  PROVE  <<x>> \o <<y, z, u, v>> = <<x, y, z, u, v>>
<1> DEFINE S == {x, y, z, u, v}
<1>1. <<x>> \o <<y, z, u, v>> \in Seq(S) /\ <<x, y, z, u, v>> \in Seq(S)
  OBVIOUS
<1>2. Len(<<x>> \o <<y, z, u, v>>) = 5 /\ Len(<<x, y, z, u, v>>) = 5
  OBVIOUS
<1>3. \A i \in 1 .. 5 : (<<x>> \o <<y, z, u, v>>)[i] = <<x, y, z, u, v>>[i]
  OBVIOUS
<1>4. QED
  BY <1>1, <1>2, <1>3, SeqEqual

(* The names of the steps.                                                 *)
Words == {"candidate", "clear", "collect", "current", "downloads", "fetch", "from", "latch!", "object", "open", "pend", "preflight", "prepare", "reconcile", "recover", "restart", "result", "save", "save!", "stop", "to", "unpend"}

LEMMA Sequence ==
  ASSUME NEW A \in Seq(Words), NEW T \in Seq(Words), NEW x \in Words
  PROVE  /\ (<<x>> \o A) \o T # <<>>
         /\ Head((<<x>> \o A) \o T) = x
         /\ Tail((<<x>> \o A) \o T) = A \o T
<1>1. <<x>> \in Seq(Words) /\ A \o T \in Seq(Words)
  OBVIOUS
<1>2. (<<x>> \o A) \o T = <<x>> \o (A \o T)
  BY <1>1, ConcatAssociative
<1> DEFINE U == A \o T
<1>3. U \in Seq(Words)
  BY <1>1
<1> HIDE DEF U
<1>4. <<x>> \o U # <<>> /\ Head(<<x>> \o U) = x /\ Tail(<<x>> \o U) = U
  BY <1>3
<1>5. QED
  BY <1>2, <1>4 DEF U

LEMMA Kinds ==
  /\ \A t \in Endings : Ending[t] \in Seq(Words)
  /\ \A s \in Stages \ {"end"} : First[s] \in Words /\ After[s] \in Stages
<1> USE DEF Stages, Lone, Looking, Deciding, Trying, Applying, Fetched, Chosen, Failing, Ahead, Returning, Words
<1>1. Ending["unpend"] = <<"unpend">> /\ Ending["both"] = <<"unpend", "result">>
      /\ Ending["result"] = <<"result">> /\ Ending["none"] = <<>>
  BY DEF Ending
<1>2. <<"unpend">> \in Seq(Words) /\ <<"unpend", "result">> \in Seq(Words)
      /\ <<"result">> \in Seq(Words) /\ <<>> \in Seq(Words)
  OBVIOUS
<1>3. \A t \in Endings : Ending[t] \in Seq(Words)
  BY <1>1, <1>2 DEF Endings
<1>4. \A s \in Stages \ {"end"} : First[s] \in Words /\ After[s] \in Stages
  BY DEF First, After
<1>5. QED
  BY <1>3, <1>4

LEMMA Plans ==
  ASSUME NEW s \in Stages
  PROVE  /\ Plan[s] \in Seq(Words)
         /\ s # "end" => Plan[s] = <<First[s]>> \o Plan[After[s]]
<1>1. CASE s = "end"
  BY <1>1 DEF Plan, First, After, Words
<1>2. CASE s = "clear"
  BY <1>2 DEF Plan, First, After, Words
<1>3. CASE s = "boot"
  <2>1. Plan["boot"] = <<"clear", "downloads", "reconcile">> /\ First["boot"] = "clear"
        /\ After["boot"] = "look" /\ Plan["look"] = <<"downloads", "reconcile">>
    BY DEF Plan, First, After
  <2>2. <<"clear">> \o <<"downloads", "reconcile">> = <<"clear", "downloads", "reconcile">> /\ <<"clear", "downloads", "reconcile">> \in Seq(Words)
    BY Literal3 DEF Words
  <2>3. QED
    BY <1>3, <2>1, <2>2, Zenon
<1>4. CASE s = "look"
  <2>1. Plan["look"] = <<"downloads", "reconcile">> /\ First["look"] = "downloads"
        /\ After["look"] = "reconcile" /\ Plan["reconcile"] = <<"reconcile">>
    BY DEF Plan, First, After
  <2>2. <<"downloads">> \o <<"reconcile">> = <<"downloads", "reconcile">> /\ <<"downloads", "reconcile">> \in Seq(Words)
    BY Literal2 DEF Words
  <2>3. QED
    BY <1>4, <2>1, <2>2, Zenon
<1>5. CASE s = "ended"
  <2>1. Plan["ended"] = <<"save", "reconcile">> /\ First["ended"] = "save"
        /\ After["ended"] = "reconcile" /\ Plan["reconcile"] = <<"reconcile">>
    BY DEF Plan, First, After
  <2>2. <<"save">> \o <<"reconcile">> = <<"save", "reconcile">> /\ <<"save", "reconcile">> \in Seq(Words)
    BY Literal2 DEF Words
  <2>3. QED
    BY <1>5, <2>1, <2>2, Zenon
<1>6. CASE s = "reconcile"
  BY <1>6 DEF Plan, First, After, Words
<1>7. CASE s = "save"
  BY <1>7 DEF Plan, First, After, Words
<1>8. CASE s = "halt"
  <2>1. Plan["halt"] = <<"save", "stop">> /\ First["halt"] = "save"
        /\ After["halt"] = "stop" /\ Plan["stop"] = <<"stop">>
    BY DEF Plan, First, After
  <2>2. <<"save">> \o <<"stop">> = <<"save", "stop">> /\ <<"save", "stop">> \in Seq(Words)
    BY Literal2 DEF Words
  <2>3. QED
    BY <1>8, <2>1, <2>2, Zenon
<1>9. CASE s = "stop"
  BY <1>9 DEF Plan, First, After, Words
<1>10. CASE s = "preflight"
  BY <1>10 DEF Plan, First, After, Words
<1>11. CASE s = "restart"
  BY <1>11 DEF Plan, First, After, Words
<1>12. CASE s = "point"
  <2>1. Plan["point"] = <<"to", "restart">> /\ First["point"] = "to"
        /\ After["point"] = "restart" /\ Plan["restart"] = <<"restart">>
    BY DEF Plan, First, After
  <2>2. <<"to">> \o <<"restart">> = <<"to", "restart">> /\ <<"to", "restart">> \in Seq(Words)
    BY Literal2 DEF Words
  <2>3. QED
    BY <1>12, <2>1, <2>2, Zenon
<1>13. CASE s = "intend"
  <2>1. Plan["intend"] = <<"save", "recover">> /\ First["intend"] = "save"
        /\ After["intend"] = "recover" /\ Plan["recover"] = <<"recover">>
    BY DEF Plan, First, After
  <2>2. <<"save">> \o <<"recover">> = <<"save", "recover">> /\ <<"save", "recover">> \in Seq(Words)
    BY Literal2 DEF Words
  <2>3. QED
    BY <1>13, <2>1, <2>2, Zenon
<1>14. CASE s = "recover"
  BY <1>14 DEF Plan, First, After, Words
<1>15. CASE s = "returned"
  <2>1. Plan["returned"] = <<"restart", "save">> /\ First["returned"] = "restart"
        /\ After["returned"] = "save" /\ Plan["save"] = <<"save">>
    BY DEF Plan, First, After
  <2>2. <<"restart">> \o <<"save">> = <<"restart", "save">> /\ <<"restart", "save">> \in Seq(Words)
    BY Literal2 DEF Words
  <2>3. QED
    BY <1>15, <2>1, <2>2, Zenon
<1>16. CASE s = "take"
  <2>1. Plan["take"] = <<"pend", "save", "collect", "fetch">> /\ First["take"] = "pend"
        /\ After["take"] = "claim" /\ Plan["claim"] = <<"save", "collect", "fetch">>
    BY DEF Plan, First, After
  <2>2. <<"pend">> \o <<"save", "collect", "fetch">> = <<"pend", "save", "collect", "fetch">> /\ <<"pend", "save", "collect", "fetch">> \in Seq(Words)
    BY Literal4 DEF Words
  <2>3. QED
    BY <1>16, <2>1, <2>2, Zenon
<1>17. CASE s = "claim"
  <2>1. Plan["claim"] = <<"save", "collect", "fetch">> /\ First["claim"] = "save"
        /\ After["claim"] = "collect" /\ Plan["collect"] = <<"collect", "fetch">>
    BY DEF Plan, First, After
  <2>2. <<"save">> \o <<"collect", "fetch">> = <<"save", "collect", "fetch">> /\ <<"save", "collect", "fetch">> \in Seq(Words)
    BY Literal3 DEF Words
  <2>3. QED
    BY <1>17, <2>1, <2>2, Zenon
<1>18. CASE s = "collect"
  <2>1. Plan["collect"] = <<"collect", "fetch">> /\ First["collect"] = "collect"
        /\ After["collect"] = "fetch" /\ Plan["fetch"] = <<"fetch">>
    BY DEF Plan, First, After
  <2>2. <<"collect">> \o <<"fetch">> = <<"collect", "fetch">> /\ <<"collect", "fetch">> \in Seq(Words)
    BY Literal2 DEF Words
  <2>3. QED
    BY <1>18, <2>1, <2>2, Zenon
<1>19. CASE s = "fetch"
  BY <1>19 DEF Plan, First, After, Words
<1>20. CASE s = "same"
  <2>1. Plan["same"] = <<"save", "object", "current">> /\ First["same"] = "save"
        /\ After["same"] = "samefile" /\ Plan["samefile"] = <<"object", "current">>
    BY DEF Plan, First, After
  <2>2. <<"save">> \o <<"object", "current">> = <<"save", "object", "current">> /\ <<"save", "object", "current">> \in Seq(Words)
    BY Literal3 DEF Words
  <2>3. QED
    BY <1>20, <2>1, <2>2, Zenon
<1>21. CASE s = "samefile"
  <2>1. Plan["samefile"] = <<"object", "current">> /\ First["samefile"] = "object"
        /\ After["samefile"] = "current" /\ Plan["current"] = <<"current">>
    BY DEF Plan, First, After
  <2>2. <<"object">> \o <<"current">> = <<"object", "current">> /\ <<"object", "current">> \in Seq(Words)
    BY Literal2 DEF Words
  <2>3. QED
    BY <1>21, <2>1, <2>2, Zenon
<1>22. CASE s = "current"
  BY <1>22 DEF Plan, First, After, Words
<1>23. CASE s = "newer"
  <2>1. Plan["newer"] = <<"save", "object", "prepare">> /\ First["newer"] = "save"
        /\ After["newer"] = "newfile" /\ Plan["newfile"] = <<"object", "prepare">>
    BY DEF Plan, First, After
  <2>2. <<"save">> \o <<"object", "prepare">> = <<"save", "object", "prepare">> /\ <<"save", "object", "prepare">> \in Seq(Words)
    BY Literal3 DEF Words
  <2>3. QED
    BY <1>23, <2>1, <2>2, Zenon
<1>24. CASE s = "newfile"
  <2>1. Plan["newfile"] = <<"object", "prepare">> /\ First["newfile"] = "object"
        /\ After["newfile"] = "prepare" /\ Plan["prepare"] = <<"prepare">>
    BY DEF Plan, First, After
  <2>2. <<"object">> \o <<"prepare">> = <<"object", "prepare">> /\ <<"object", "prepare">> \in Seq(Words)
    BY Literal2 DEF Words
  <2>3. QED
    BY <1>24, <2>1, <2>2, Zenon
<1>25. CASE s = "prepare"
  BY <1>25 DEF Plan, First, After, Words
<1>26. CASE s = "candidate"
  <2>1. Plan["candidate"] = <<"candidate", "pend", "open", "save", "preflight">> /\ First["candidate"] = "candidate"
        /\ After["candidate"] = "pend" /\ Plan["pend"] = <<"pend", "open", "save", "preflight">>
    BY DEF Plan, First, After
  <2>2. <<"candidate">> \o <<"pend", "open", "save", "preflight">> = <<"candidate", "pend", "open", "save", "preflight">> /\ <<"candidate", "pend", "open", "save", "preflight">> \in Seq(Words)
    BY Literal5 DEF Words
  <2>3. QED
    BY <1>26, <2>1, <2>2, Zenon
<1>27. CASE s = "pend"
  <2>1. Plan["pend"] = <<"pend", "open", "save", "preflight">> /\ First["pend"] = "pend"
        /\ After["pend"] = "open" /\ Plan["open"] = <<"open", "save", "preflight">>
    BY DEF Plan, First, After
  <2>2. <<"pend">> \o <<"open", "save", "preflight">> = <<"pend", "open", "save", "preflight">> /\ <<"pend", "open", "save", "preflight">> \in Seq(Words)
    BY Literal4 DEF Words
  <2>3. QED
    BY <1>27, <2>1, <2>2, Zenon
<1>28. CASE s = "open"
  <2>1. Plan["open"] = <<"open", "save", "preflight">> /\ First["open"] = "open"
        /\ After["open"] = "opened" /\ Plan["opened"] = <<"save", "preflight">>
    BY DEF Plan, First, After
  <2>2. <<"open">> \o <<"save", "preflight">> = <<"open", "save", "preflight">> /\ <<"open", "save", "preflight">> \in Seq(Words)
    BY Literal3 DEF Words
  <2>3. QED
    BY <1>28, <2>1, <2>2, Zenon
<1>29. CASE s = "opened"
  <2>1. Plan["opened"] = <<"save", "preflight">> /\ First["opened"] = "save"
        /\ After["opened"] = "preflight" /\ Plan["preflight"] = <<"preflight">>
    BY DEF Plan, First, After
  <2>2. <<"save">> \o <<"preflight">> = <<"save", "preflight">> /\ <<"save", "preflight">> \in Seq(Words)
    BY Literal2 DEF Words
  <2>3. QED
    BY <1>29, <2>1, <2>2, Zenon
<1>30. CASE s = "fail"
  <2>1. Plan["fail"] = <<"save!", "latch!">> /\ First["fail"] = "save!"
        /\ After["fail"] = "latch" /\ Plan["latch"] = <<"latch!">>
    BY DEF Plan, First, After
  <2>2. <<"save!">> \o <<"latch!">> = <<"save!", "latch!">> /\ <<"save!", "latch!">> \in Seq(Words)
    BY Literal2 DEF Words
  <2>3. QED
    BY <1>30, <2>1, <2>2, Zenon
<1>31. CASE s = "latch"
  BY <1>31 DEF Plan, First, After, Words
<1>32. CASE s = "try"
  <2>1. Plan["try"] = <<"save", "to", "restart">> /\ First["try"] = "save"
        /\ After["try"] = "point" /\ Plan["point"] = <<"to", "restart">>
    BY DEF Plan, First, After
  <2>2. <<"save">> \o <<"to", "restart">> = <<"save", "to", "restart">> /\ <<"save", "to", "restart">> \in Seq(Words)
    BY Literal3 DEF Words
  <2>3. QED
    BY <1>32, <2>1, <2>2, Zenon
<1>33. CASE s = "return"
  <2>1. Plan["return"] = <<"from", "restart", "save">> /\ First["return"] = "from"
        /\ After["return"] = "returned" /\ Plan["returned"] = <<"restart", "save">>
    BY DEF Plan, First, After
  <2>2. <<"from">> \o <<"restart", "save">> = <<"from", "restart", "save">> /\ <<"from", "restart", "save">> \in Seq(Words)
    BY Literal3 DEF Words
  <2>3. QED
    BY <1>33, <2>1, <2>2, Zenon
<1>34. QED
  BY <1>1, <1>2, <1>3, <1>4, <1>5, <1>6, <1>7, <1>8, <1>9, <1>10, <1>11, <1>12, <1>13, <1>14, <1>15, <1>16, <1>17, <1>18, <1>19, <1>20, <1>21, <1>22, <1>23, <1>24, <1>25, <1>26, <1>27, <1>28, <1>29, <1>30, <1>31, <1>32, <1>33
     DEF Stages, Lone, Looking, Deciding, Trying, Applying, Fetched, Chosen, Failing, Ahead, Returning

(* Taking a step leaves the stage after it; a stage that has ended leaves  *)
(* the last steps of the command.                                          *)
LEMMA Steps ==
  ASSUME NEW s \in Stages \ {"end"}, NEW t \in Endings
  PROVE  /\ Todo(s, t) # <<>> /\ Head(Todo(s, t)) = First[s]
         /\ Tail(Todo(s, t)) = Todo(After[s], t) /\ After[s] \in Stages
<1>1. /\ First[s] \in Words /\ After[s] \in Stages /\ Ending[t] \in Seq(Words)
      /\ Plan[After[s]] \in Seq(Words) /\ Plan[s] = <<First[s]>> \o Plan[After[s]]
  BY Kinds, Plans
<1> DEFINE x == First[s]
           A == Plan[After[s]]
           T == Ending[t]
<1>2. x \in Words /\ A \in Seq(Words) /\ T \in Seq(Words)
  BY <1>1
<1>3. Todo(s, t) = (<<x>> \o A) \o T /\ Todo(After[s], t) = A \o T
  BY <1>1 DEF Todo
<1> HIDE DEF x, A, T
<1>4. /\ (<<x>> \o A) \o T # <<>>
      /\ Head((<<x>> \o A) \o T) = x
      /\ Tail((<<x>> \o A) \o T) = A \o T
  BY <1>2, Sequence
<1>5. QED
  BY <1>1, <1>3, <1>4 DEF x

LEMMA LastSteps ==
  ASSUME NEW t \in Endings
  PROVE  /\ Todo("end", t) = Ending[t]
         /\ t \in {"unpend", "both"} =>
              /\ Todo("end", t) # <<>> /\ Head(Todo("end", t)) = "unpend"
              /\ Tail(Todo("end", t)) = Todo("end", IF t = "both" THEN "result" ELSE "none")
         /\ t = "result" =>
              /\ Todo("end", t) # <<>> /\ Head(Todo("end", t)) = "result"
              /\ Tail(Todo("end", t)) = Todo("end", "none")
         /\ t = "none" => Todo("end", t) = <<>>
<1>1. Plan["end"] = <<>>
  BY DEF Plan
<1>2. \A u \in Endings : Todo("end", u) = Ending[u]
  BY <1>1, Kinds, ConcatEmptySeq DEF Todo
<1>3. Ending["unpend"] = <<"unpend">> /\ Ending["both"] = <<"unpend", "result">>
      /\ Ending["result"] = <<"result">> /\ Ending["none"] = <<>>
  BY DEF Ending
<1>4. CASE t = "unpend"
  <2>1. <<"unpend">> \o <<>> = <<"unpend">>
    BY DEF Words
  <2>2. <<"unpend">> # <<>> /\ Head(<<"unpend">>) = "unpend" /\ Tail(<<"unpend">>) = <<>>
    BY <2>1
  <2>3. QED
    BY <1>2, <1>3, <1>4, <2>2 DEF Endings
<1>5. CASE t = "both"
  <2>1. <<"unpend">> \o <<"result">> = <<"unpend", "result">>
    BY Literal2
  <2>2. /\ <<"unpend", "result">> # <<>> /\ Head(<<"unpend", "result">>) = "unpend"
        /\ Tail(<<"unpend", "result">>) = <<"result">>
    BY <2>1
  <2>3. QED
    BY <1>2, <1>3, <1>5, <2>2 DEF Endings
<1>6. CASE t = "result"
  <2>1. <<"result">> \o <<>> = <<"result">>
    BY DEF Words
  <2>2. <<"result">> # <<>> /\ Head(<<"result">>) = "result" /\ Tail(<<"result">>) = <<>>
    BY <2>1
  <2>3. QED
    BY <1>2, <1>3, <1>6, <2>2 DEF Endings
<1>7. CASE t = "none"
  BY <1>2, <1>3, <1>7 DEF Endings
<1>8. QED
  BY <1>4, <1>5, <1>6, <1>7 DEF Endings

(* Only what has ended and leaves nothing is nothing.                      *)
LEMMA Done ==
  ASSUME NEW s \in Stages, NEW t \in Endings, Todo(s, t) = <<>>
  PROVE  s = "end" /\ t = "none"
BY Steps, LastSteps DEF Endings

(* The steps a decision puts before the last ones are those of a stage.    *)
LEMMA Puts ==
  ASSUME NEW t \in Endings
  PROVE  /\ <<>> \o Todo("end", t) = Todo("end", t)
         /\ <<"save">> \o Todo("end", t) = Todo("save", t)
         /\ <<"save", "stop">> \o Todo("end", t) = Todo("halt", t)
         /\ <<"stop">> \o Todo("end", t) = Todo("stop", t)
         /\ <<"preflight">> \o Todo("end", t) = Todo("preflight", t)
         /\ <<"save", "to", "restart">> \o Todo("end", t) = Todo("try", t)
         /\ <<"save", "recover">> \o Todo("end", t) = Todo("intend", t)
         /\ <<"from", "restart", "save">> \o Todo("end", t) = Todo("return", t)
         /\ <<"save", "object", "current">> \o Todo("end", t) = Todo("same", t)
         /\ <<"save", "object", "prepare">> \o Todo("end", t) = Todo("newer", t)
         /\ <<"candidate", "pend", "open", "save", "preflight">> \o Todo("end", t) = Todo("candidate", t)
         /\ <<"save">> \o Todo("reconcile", t) = Todo("ended", t)
         /\ <<"save!", "latch!">> \o Todo("end", t) = Todo("fail", t)
<1>1. Todo("end", t) = Ending[t] /\ Ending[t] \in Seq(Words)
  BY LastSteps, Kinds
<1>2. \A s \in Stages : Todo(s, t) = Plan[s] \o Todo("end", t)
  BY <1>1 DEF Todo
<1>3. /\ Plan["end"] = <<>> /\ Plan["save"] = <<"save">> /\ Plan["halt"] = <<"save", "stop">>
      /\ Plan["stop"] = <<"stop">> /\ Plan["preflight"] = <<"preflight">>
  BY DEF Plan
<1>4. /\ Plan["try"] = <<"save", "to", "restart">> /\ Plan["intend"] = <<"save", "recover">>
      /\ Plan["return"] = <<"from", "restart", "save">>
      /\ Plan["same"] = <<"save", "object", "current">>
  BY DEF Plan
<1>5. /\ Plan["newer"] = <<"save", "object", "prepare">>
      /\ Plan["candidate"] = <<"candidate", "pend", "open", "save", "preflight">>
      /\ Plan["fail"] = <<"save!", "latch!">>
  BY DEF Plan
<1>6. {"end", "save", "halt", "stop", "preflight", "try", "intend", "return", "same", "newer",
       "candidate", "fail", "reconcile", "ended"} \subseteq Stages
  BY DEF Stages, Lone, Looking, Deciding, Trying, Applying, Fetched, Chosen, Failing, Ahead, Returning
<1>7. <<"save">> \o Todo("reconcile", t) = Todo("ended", t)
  <2>1. Plan["ended"] = <<"save", "reconcile">> /\ Plan["reconcile"] = <<"reconcile">>
    BY DEF Plan
  <2>2. <<"save">> \o <<"reconcile">> = <<"save", "reconcile">>
    BY Literal2
  <2>3. <<"save">> \in Seq(Words) /\ <<"reconcile">> \in Seq(Words)
    BY DEF Words
  <2>4. <<"save">> \o (<<"reconcile">> \o Ending[t]) = (<<"save">> \o <<"reconcile">>) \o Ending[t]
    BY <1>1, <2>3, ConcatAssociative
  <2>5. QED
    BY <2>1, <2>2, <2>4 DEF Todo
<1>8. QED
  BY <1>2, <1>3, <1>4, <1>5, <1>6, <1>7, Zenon

(* A command's first steps are those of a stage.                           *)
LEMMA Opens ==
  /\ <<>> \o <<"unpend">> = Todo("end", "unpend")
  /\ <<"clear">> \o <<"unpend">> = Todo("clear", "unpend")
  /\ <<>> \o <<"downloads", "reconcile", "unpend">> = Todo("look", "unpend")
  /\ <<"clear">> \o <<"downloads", "reconcile", "unpend">> = Todo("boot", "unpend")
  /\ <<"latch!">> = Todo("latch", "none")
  /\ <<>> = Todo("end", "none")
  /\ <<"collect", "fetch", "unpend">> = Todo("collect", "unpend")
  /\ <<"pend", "save", "collect", "fetch", "unpend", "result">> = Todo("take", "both")
<1>1. Ending["unpend"] = <<"unpend">> /\ Ending["both"] = <<"unpend", "result">> /\ Ending["none"] = <<>>
  BY DEF Ending
<1>2. /\ <<"unpend">> \in Seq(Words) /\ <<"clear">> \in Seq(Words) /\ <<"latch!">> \in Seq(Words)
      /\ <<"downloads", "reconcile">> \in Seq(Words)
      /\ <<"downloads", "reconcile", "unpend">> \in Seq(Words)
  BY DEF Words
<1>3. /\ Plan["end"] = <<>> /\ Plan["clear"] = <<"clear">> /\ Plan["latch"] = <<"latch!">>
      /\ Plan["look"] = <<"downloads", "reconcile">>
  BY DEF Plan
<1>4. /\ Plan["boot"] = <<"clear", "downloads", "reconcile">>
      /\ Plan["collect"] = <<"collect", "fetch">>
      /\ Plan["take"] = <<"pend", "save", "collect", "fetch">>
  BY DEF Plan
<1>5. <<"downloads", "reconcile">> \o <<"unpend">> = <<"downloads", "reconcile", "unpend">>
  <2> DEFINE u == <<"downloads", "reconcile">> \o <<"unpend">>
             v == <<"downloads", "reconcile", "unpend">>
  <2>1. u \in Seq(Words) /\ v \in Seq(Words) /\ Len(u) = 3 /\ Len(v) = 3
    BY <1>2
  <2>2. \A i \in 1 .. 3 : u[i] = v[i]
    OBVIOUS
  <2>3. QED
    BY <2>1, <2>2, SeqEqual
<1>6. <<"collect", "fetch">> \o <<"unpend">> = <<"collect", "fetch", "unpend">>
  <2> DEFINE u == <<"collect", "fetch">> \o <<"unpend">>
             v == <<"collect", "fetch", "unpend">>
  <2>1. u \in Seq(Words) /\ v \in Seq(Words) /\ Len(u) = 3 /\ Len(v) = 3
    BY DEF Words
  <2>2. \A i \in 1 .. 3 : u[i] = v[i]
    OBVIOUS
  <2>3. QED
    BY <2>1, <2>2, SeqEqual
<1>7. <<"pend", "save", "collect", "fetch">> \o <<"unpend", "result">>
        = <<"pend", "save", "collect", "fetch", "unpend", "result">>
  <2> DEFINE u == <<"pend", "save", "collect", "fetch">> \o <<"unpend", "result">>
             v == <<"pend", "save", "collect", "fetch", "unpend", "result">>
  <2>1. u \in Seq(Words) /\ v \in Seq(Words) /\ Len(u) = 6 /\ Len(v) = 6
    BY DEF Words
  <2>2. \A i \in 1 .. 6 : u[i] = v[i]
    OBVIOUS
  <2>3. QED
    BY <2>1, <2>2, SeqEqual
<1>8. <<"clear">> \o <<"downloads", "reconcile", "unpend">> = Todo("boot", "unpend")
  <2>1. <<"clear">> \o <<"downloads", "reconcile">> = <<"clear", "downloads", "reconcile">>
    BY Literal3
  <2>2. <<"clear">> \o (<<"downloads", "reconcile">> \o <<"unpend">>)
          = (<<"clear">> \o <<"downloads", "reconcile">>) \o <<"unpend">>
    BY <1>2, ConcatAssociative
  <2>3. QED
    BY <1>1, <1>4, <1>5, <2>1, <2>2 DEF Todo
<1>9. /\ <<>> \o <<"unpend">> = Todo("end", "unpend")
      /\ <<"clear">> \o <<"unpend">> = Todo("clear", "unpend")
  BY <1>1, <1>3 DEF Todo
<1>10. <<>> \o <<"downloads", "reconcile", "unpend">> = Todo("look", "unpend")
  <2>1. <<>> \o <<"downloads", "reconcile", "unpend">> = <<"downloads", "reconcile", "unpend">>
    BY <1>2, ConcatEmptySeq
  <2>2. QED
    BY <1>1, <1>3, <1>5, <2>1 DEF Todo
<1>11. <<"latch!">> = Todo("latch", "none") /\ <<>> = Todo("end", "none")
  BY <1>1, <1>2, <1>3, ConcatEmptySeq DEF Todo
<1>12. QED
  BY <1>1, <1>4, <1>6, <1>7, <1>8, <1>9, <1>10, <1>11 DEF Todo

-----------------------------------------------------------------------------
(* The journals a decision leaves behind.                                   *)

LEMMA Numbered ==
  /\ Release \subseteq Int /\ 1 \in Release /\ \A r \in Release : r >= 1
  /\ NoTx \in Txs /\ NoRemote \in Remotes /\ 0 \notin Request
  /\ \A x \in Txs \ {NoTx} : x.from \in Release /\ x.to \in Release /\ x.boot \in 1 .. MaxBoots
<1>1. Release \subseteq Int /\ 1 \in Release /\ 0 \notin Request /\ \A r \in Release : r >= 1
  <2>1. PICK n : Release = 1 .. n
    BY UpdaterAssumption
  <2>2. \A r \in 1 .. n : r \in Int /\ r >= 1
    OBVIOUS
  <2>3. QED
    BY <2>1, <2>2, UpdaterAssumption
<1>2. QED
  BY <1>1 DEF Txs, Remotes

(* The fields a decision may not change.                                    *)
Same(j, k) == k.phase = j.phase /\ k.tx = j.tx /\ k.installed = j.installed
              /\ k.seen = j.seen /\ k.floor = j.floor

LEMMA Phased ==
  ASSUME NEW j \in Journals, NEW p \in Phases
  PROVE  LET k == [j EXCEPT !.phase = p] IN
         /\ k \in Journals /\ k.phase = p /\ k.tx = j.tx
         /\ k.installed = j.installed /\ k.seen = j.seen /\ k.floor = j.floor
BY DEF Journals

(* A transaction that was opened is none without a source.                  *)
TxRecord == [from : Release, to : Release, boot : 1 .. MaxBoots, old : 0 .. MaxStarts,
             asked : BOOLEAN, stable : 0 .. MaxStarts]

LEMMA Transactions ==
  ASSUME NEW x \in TxRecord
  PROVE  x \in Txs /\ x # NoTx
<1>1. x.from # 0
  BY Numbered DEF TxRecord
<1>2. QED
  BY <1>1 DEF Txs, TxRecord, NoTx

LEMMA Asked ==
  ASSUME NEW j \in Journals, j.tx # NoTx, NEW b \in 1 .. MaxBoots
  PROVE  LET k == [j EXCEPT !.tx.asked = TRUE, !.tx.boot = b] IN
         /\ k \in Journals /\ k.phase = j.phase /\ k.installed = j.installed
         /\ k.seen = j.seen /\ k.floor = j.floor
         /\ k.tx # NoTx /\ k.tx.from = j.tx.from /\ k.tx.to = j.tx.to /\ k.tx.boot = b
<1> DEFINE x == [j.tx EXCEPT !.asked = TRUE, !.boot = b]
           k == [j EXCEPT !.tx.asked = TRUE, !.tx.boot = b]
<1>1. j.tx \in TxRecord
  BY DEF Journals, Txs, TxRecord
<1>2. x \in TxRecord /\ x.from = j.tx.from /\ x.to = j.tx.to /\ x.boot = b
  BY <1>1 DEF TxRecord
<1>3. k = [j EXCEPT !.tx = x]
  BY DEF Journals
<1>4. x \in Txs /\ x # NoTx
  BY <1>2, Transactions
<1> HIDE DEF x
<1>5. k \in Journals /\ k.tx = x /\ k.phase = j.phase /\ k.installed = j.installed
      /\ k.seen = j.seen /\ k.floor = j.floor
  BY <1>3, <1>4 DEF Journals
<1>6. QED
  BY <1>2, <1>4, <1>5

LEMMA Watched ==
  ASSUME NEW j \in Journals, j.tx # NoTx, NEW n \in 0 .. MaxStarts
  PROVE  LET k == [j EXCEPT !.tx.stable = n] IN
         /\ k \in Journals /\ k.phase = j.phase /\ k.installed = j.installed
         /\ k.seen = j.seen /\ k.floor = j.floor
         /\ k.tx # NoTx /\ k.tx.from = j.tx.from /\ k.tx.to = j.tx.to /\ k.tx.boot = j.tx.boot
<1> DEFINE x == [j.tx EXCEPT !.stable = n]
           k == [j EXCEPT !.tx.stable = n]
<1>1. j.tx \in TxRecord
  BY DEF Journals, Txs, TxRecord
<1>2. x \in TxRecord /\ x.from = j.tx.from /\ x.to = j.tx.to /\ x.boot = j.tx.boot
  BY <1>1 DEF TxRecord
<1>3. k = [j EXCEPT !.tx = x]
  BY DEF Journals
<1>4. x \in Txs /\ x # NoTx
  BY <1>2, Transactions
<1> HIDE DEF x
<1>5. k \in Journals /\ k.tx = x /\ k.phase = j.phase /\ k.installed = j.installed
      /\ k.seen = j.seen /\ k.floor = j.floor
  BY <1>3, <1>4 DEF Journals
<1>6. QED
  BY <1>2, <1>4, <1>5

LEMMA Opened ==
  ASSUME NEW j \in Journals, NEW x \in TxRecord
  PROVE  LET k == [j EXCEPT !.phase = "prepared", !.tx = x] IN
         /\ k \in Journals /\ k.phase = "prepared" /\ k.tx = x /\ k.tx # NoTx
         /\ k.installed = j.installed /\ k.seen = j.seen /\ k.floor = j.floor
BY Transactions DEF Journals, Phases

(* What a panel is told changes nothing else.                               *)
RemoteRecord == [id : Request, target : Release \cup {0},
                 status : Phases \cup {"downloading", "up_to_date", "failed"}]

LEMMA Told ==
  ASSUME NEW j \in Journals, NEW r \in RemoteRecord
  PROVE  LET k == [j EXCEPT !.remote = r] IN k \in Journals /\ Same(j, k)
BY DEF Journals, Same, Remotes, RemoteRecord

LEMMA Reported ==
  ASSUME NEW j \in Journals, j.remote # NoRemote,
         NEW status \in Phases \cup {"downloading", "up_to_date", "failed"}
  PROVE  LET k == [j EXCEPT !.remote.status = status] IN k \in Journals /\ Same(j, k)
<1>1. j.remote \in RemoteRecord
  BY DEF Journals, Remotes, RemoteRecord
<1> DEFINE r == [j.remote EXCEPT !.status = status]
<1>2. r \in RemoteRecord
  BY <1>1 DEF RemoteRecord
<1>3. [j EXCEPT !.remote.status = status] = [j EXCEPT !.remote = r]
  BY DEF Journals
<1> HIDE DEF r
<1>4. QED
  BY <1>2, <1>3, Told

LEMMA Bound ==
  ASSUME NEW j \in Journals, NEW to \in Release
  PROVE  Bind(j, to) \in Journals /\ Same(j, Bind(j, to))
<1>1. CASE Unbound(j)
  <2>1. j.remote \in RemoteRecord
    BY <1>1 DEF Unbound, Journals, Remotes, RemoteRecord
  <2> DEFINE r == [j.remote EXCEPT !.target = to]
  <2>2. r \in RemoteRecord
    BY <2>1 DEF RemoteRecord
  <2>3. [j EXCEPT !.remote.target = to] = [j EXCEPT !.remote = r]
    BY DEF Journals
  <2> HIDE DEF r
  <2>4. QED
    BY <1>1, <2>2, <2>3, Told DEF Bind
<1>2. CASE ~Unbound(j)
  BY <1>2 DEF Bind, Same
<1>3. QED
  BY <1>1, <1>2

LEMMA Ended ==
  ASSUME NEW j \in Journals, NEW status \in {"up_to_date", "failed"}
  PROVE  Ends(j, status) \in Journals /\ Same(j, Ends(j, status))
BY Reported DEF Ends, Unbound, Same

LEMMA Snapshots ==
  ASSUME NEW j \in Journals
  PROVE  Snapshot(j) \in Journals /\ Same(j, Snapshot(j))
<1>1. j.phase \in Phases
  BY DEF Journals
<1>2. QED
  BY <1>1, Reported DEF Snapshot, Owns, Same

-----------------------------------------------------------------------------
(* When a sound journal stays sound.                                        *)

LEMMA SoundSame ==
  ASSUME NEW j, NEW k, NEW d, NEW a, NEW h, NEW t, NEW c, Same(j, k), Sound(j, d, a, h, t, c)
  PROVE  Sound(k, d, a, h, t, c)
BY DEF Same, Sound

(* The Agent may end, or be started as "active" says while the host is up; *)
(* files may be added, and something may go wrong.                         *)
LEMMA SoundStays ==
  ASSUME NEW j, NEW d, NEW e, NEW a, NEW b, NEW h, NEW t, NEW c, NEW f,
         Sound(j, d, a, h, t, c),
         e.active = d.active, d.objects \subseteq e.objects, d.pending => e.pending, c => f,
         b.run \in {a.run, 0} \/ (b.run = d.active /\ h.state = "up")
  PROVE  Sound(j, e, b, h, t, f)
BY DEF Sound

(* Asking for the operator.                                                *)
LEMMA SoundManual ==
  ASSUME NEW j \in Journals, NEW d, NEW a, NEW h, NEW t, NEW c, NEW f,
         Sound(j, d, a, h, t, c), f
  PROVE  Sound([j EXCEPT !.phase = "manual"], d, a, h, t, f)
<1> DEFINE k == [j EXCEPT !.phase = "manual"]
<1>1. k \in Journals /\ k.phase = "manual" /\ k.tx = j.tx
      /\ k.installed = j.installed /\ k.seen = j.seen /\ k.floor = j.floor
  BY Phased DEF Phases
<1> HIDE DEF k
<1>2. Sound(k, d, a, h, t, f)
  BY <1>1 DEF Sound
<1>3. QED
  BY <1>2 DEF k

(* A sound journal that does not ask for the operator can be read back.    *)
LEMMA SoundLoads ==
  ASSUME NEW j \in Journals, NEW a, NEW h, NEW t, NEW c, Sound(j, disk, a, h, t, c),
         j.phase # "manual"
  PROVE  Loads(j)
<1>1. j.phase \in Phases /\ j.installed \in Release /\ j.seen \in Release /\ j.floor \in Release
  BY DEF Journals
<1>2. QED
  BY <1>1, Numbered DEF Sound, Loads, Valid, Terminal, Phases

-----------------------------------------------------------------------------
(* What the host, the Agent, the units and the operator do.                *)

LEMMA UpdaterInitEstablishes == UpdaterInit => IInv
<1> SUFFICES ASSUME UpdaterInit PROVE IInv
  OBVIOUS
<1> USE DEF UpdaterInit
<1>1. Release \subseteq Int /\ 1 \in Release /\ NoTx \in Txs /\ NoRemote \in Remotes
      /\ 1 \in 1 .. MaxBoots /\ 0 \in 0 .. MaxBoots /\ 1 \in 0 .. MaxStarts
  BY Numbered, UpdaterAssumption
<1>2. journal \in Journals
  BY <1>1 DEF Journals, Phases
<1>3. disk \in DiskType /\ agent \in AgentType /\ host \in HostType
  BY <1>1 DEF DiskType, AgentType, HostType
<1>4. units \in [probe : Unit, stop : Unit]
  BY DEF Unit
<1>5. Types
  BY <1>1, <1>2, <1>3, <1>4 DEF Types, NoJob, JobNames
<1>6. Sound(journal, disk, agent, host, tried, cause)
  BY <1>1 DEF Sound, Terminal
<1>7. Jobs /\ Work
  BY DEF Jobs, Work, NoJob
<1>8. QED
  BY <1>5, <1>6, <1>7 DEF IInv

(* A step that leaves the updater, its journal and its files alone.        *)
LEMMA Apart ==
  ASSUME IInv, Types', UNCHANGED <<journal, proc, host, tried, cause>>,
         disk'.active = disk.active, disk'.objects = disk.objects,
         disk'.pending = disk.pending, disk'.latch = disk.latch,
         agent'.run \in {agent.run, 0} \/ (agent'.run = disk.active /\ host.state = "up")
  PROVE  IInv'
<1>1. Sound(journal, disk, agent, host, tried, cause)
  BY DEF IInv
<1>2. Sound(journal, disk', agent', host, tried, cause)
  BY <1>1, SoundStays
<1>3. Jobs'
  BY DEF IInv, Jobs
<1>4. Work'
  <2>1. SUFFICES ASSUME proc.job # "none"
                 PROVE  /\ Sound(proc.mem, disk', agent', host, tried, cause)
                        /\ \E s \in Stages, t \in Endings :
                             proc.todo = Todo(s, t) /\ Agrees(s, t, proc, journal, disk', host, cause)
    BY DEF Work
  <2>2. Sound(proc.mem, disk, agent, host, tried, cause)
    BY <2>1 DEF IInv, Work
  <2>3. Sound(proc.mem, disk', agent', host, tried, cause)
    BY <2>2, SoundStays
  <2>4. PICK s \in Stages, t \in Endings :
          proc.todo = Todo(s, t) /\ Agrees(s, t, proc, journal, disk, host, cause)
    BY <2>1 DEF IInv, Work
  <2>5. Agrees(s, t, proc, journal, disk', host, cause)
    BY <2>4 DEF Agrees
  <2>6. QED
    BY <2>3, <2>4, <2>5
<1>5. QED
  BY <1>2, <1>3, <1>4 DEF IInv

LEMMA DiskFacts ==
  ASSUME Types
  PROVE  /\ disk = [active |-> disk.active, candidate |-> disk.candidate, objects |-> disk.objects,
                    pending |-> disk.pending, latch |-> disk.latch, litter |-> disk.litter,
                    request |-> disk.request]
         /\ disk.active \in Release /\ disk.candidate \in Release /\ disk.objects \subseteq Release
         /\ disk.pending \in BOOLEAN /\ disk.latch \in BOOLEAN /\ disk.litter \in BOOLEAN
         /\ disk.request \in Request \cup {0}
BY DEF Types, DiskType

(* The units, with one of them changed.                                    *)
LEMMA UnitChanges ==
  ASSUME NEW u \in [probe : Unit, stop : Unit]
  PROVE  /\ \A v \in Unit : [u EXCEPT !.probe = v] \in [probe : Unit, stop : Unit]
         /\ \A v \in Unit : [u EXCEPT !.stop = v] \in [probe : Unit, stop : Unit]
         /\ \A x \in {"inactive", "activating", "active", "failed"} :
              /\ [u EXCEPT !.probe.state = x] \in [probe : Unit, stop : Unit]
              /\ [u EXCEPT !.stop.state = x] \in [probe : Unit, stop : Unit]
         /\ \A b \in BOOLEAN :
              /\ [u EXCEPT !.probe.fresh = b] \in [probe : Unit, stop : Unit]
              /\ [u EXCEPT !.stop.fresh = b] \in [probe : Unit, stop : Unit]
<1>1. u.probe \in Unit /\ u.stop \in Unit
  OBVIOUS
<1>2. /\ \A v \in Unit : [u EXCEPT !.probe = v] \in [probe : Unit, stop : Unit]
      /\ \A v \in Unit : [u EXCEPT !.stop = v] \in [probe : Unit, stop : Unit]
  OBVIOUS
<1>3. ASSUME NEW w \in Unit
      PROVE  /\ \A x \in {"inactive", "activating", "active", "failed"} : [w EXCEPT !.state = x] \in Unit
             /\ \A b \in BOOLEAN : [w EXCEPT !.fresh = b] \in Unit
  BY <1>3 DEF Unit
<1>4. ASSUME NEW x \in {"inactive", "activating", "active", "failed"}
      PROVE  /\ [u EXCEPT !.probe.state = x] = [u EXCEPT !.probe = [u.probe EXCEPT !.state = x]]
             /\ [u EXCEPT !.stop.state = x] = [u EXCEPT !.stop = [u.stop EXCEPT !.state = x]]
  OBVIOUS
<1>5. ASSUME NEW b \in BOOLEAN
      PROVE  /\ [u EXCEPT !.probe.fresh = b] = [u EXCEPT !.probe = [u.probe EXCEPT !.fresh = b]]
             /\ [u EXCEPT !.stop.fresh = b] = [u EXCEPT !.stop = [u.stop EXCEPT !.fresh = b]]
  OBVIOUS
<1>6. QED
  BY <1>1, <1>2, <1>3, <1>4, <1>5, Zenon

LEMMA UnitsStay ==
  ASSUME IInv, Preflight \/ Probed \/ StopUnit
  PROVE  IInv'
<1>1. Types
  BY DEF IInv
<1>2. units' \in [probe : Unit, stop : Unit]
  <2>1. units \in [probe : Unit, stop : Unit]
    BY <1>1 DEF Types
  <2>2. CASE Preflight
    BY <2>1, <2>2, UnitChanges DEF Preflight
  <2>3. CASE Probed
    <3>1. PICK ok \in BOOLEAN :
            units' = [units EXCEPT !.probe = [state |-> IF ok THEN "active" ELSE "failed",
                                              fresh |-> TRUE, ok |-> ok]]
      BY <2>3 DEF Probed
    <3>2. [state |-> IF ok THEN "active" ELSE "failed", fresh |-> TRUE, ok |-> ok] \in Unit
      BY DEF Unit
    <3>3. QED
      BY <2>1, <3>1, <3>2, UnitChanges
  <2>4. CASE StopUnit
    BY <2>1, <2>4, UnitChanges DEF StopUnit
  <2>5. QED
    BY <2>2, <2>3, <2>4
<1>3. Types'
  BY <1>1, <1>2 DEF Types, Preflight, Probed, StopUnit
<1>4. QED
  BY <1>3, Apart DEF Preflight, Probed, StopUnit

LEMMA AgentStays ==
  ASSUME IInv, Stopped \/ RestartUnit \/ AgentStarts \/ AgentReports
  PROVE  IInv'
<1>1. Types /\ disk.active \in Release /\ MaxStarts \in Nat
  BY DiskFacts, UpdaterAssumption DEF IInv
<1>2. agent \in AgentType
  BY <1>1 DEF Types
<1>3. units' \in [probe : Unit, stop : Unit]
  <2>1. units \in [probe : Unit, stop : Unit]
    BY <1>1 DEF Types
  <2>2. CASE Stopped
    <3>1. PICK ok \in BOOLEAN :
            units' = [units EXCEPT !.stop = [state |-> "inactive", fresh |-> TRUE, ok |-> ok]]
      BY <2>2 DEF Stopped
    <3>2. [state |-> "inactive", fresh |-> TRUE, ok |-> ok] \in Unit
      BY DEF Unit
    <3>3. QED
      BY <2>1, <3>1, <3>2, UnitChanges
  <2>3. CASE RestartUnit \/ AgentStarts \/ AgentReports
    BY <2>1, <2>3 DEF RestartUnit, AgentStarts, AgentReports
  <2>4. QED
    BY <2>2, <2>3
<1>4. /\ agent' \in AgentType
      /\ agent'.run \in {agent.run, 0} \/ (agent'.run = disk.active /\ host.state = "up")
  <2>1. CASE Stopped
    BY <1>2, <2>1 DEF Stopped, AgentType
  <2>2. CASE RestartUnit \/ AgentStarts
    <3>1. agent.inv < MaxStarts /\ agent.inv \in 0 .. MaxStarts
      BY <1>2, <2>2 DEF RestartUnit, AgentStarts, AgentType
    <3>2. agent.inv + 1 \in 0 .. MaxStarts
      BY <1>1, <3>1
    <3>3. agent' = [run |-> disk.active, inv |-> agent.inv + 1, healthy |-> FALSE] /\ host.state = "up"
      BY <2>2 DEF RestartUnit, AgentStarts, Invocation
    <3>4. QED
      BY <1>1, <3>2, <3>3 DEF AgentType
  <2>3. CASE AgentReports
    BY <1>2, <2>3 DEF AgentReports, AgentType
  <2>4. QED
    BY <2>1, <2>2, <2>3
<1>5. Types'
  BY <1>1, <1>3, <1>4 DEF Types, Stopped, RestartUnit, AgentStarts, AgentReports
<1>6. QED
  BY <1>4, <1>5, Apart DEF Stopped, RestartUnit, AgentStarts, AgentReports

LEMMA OperatorStays ==
  ASSUME IInv, Operator
  PROVE  IInv'
<1>1. Types'
  BY DEF IInv, Types, Operator
<1>2. QED
  BY <1>1, Apart DEF Operator

LEMMA EnqueueStays ==
  ASSUME IInv, NEW id \in Request, Enqueue(id)
  PROVE  IInv'
<1>1. Types
  BY DEF IInv
<1>2. /\ disk' \in DiskType /\ disk'.active = disk.active /\ disk'.objects = disk.objects
      /\ disk'.pending = disk.pending /\ disk'.latch = disk.latch
  BY <1>1, DiskFacts DEF Enqueue, DiskType
<1>3. Types'
  BY <1>1, <1>2 DEF Types, Enqueue
<1>4. QED
  BY <1>2, <1>3, Apart DEF Enqueue

(* A process is killed, or the host restarts.                              *)
LEMMA NoJobLeft ==
  ASSUME proc' = NoJob
  PROVE  /\ proc' = [job |-> proc'.job, todo |-> proc'.todo, mem |-> proc'.mem, ok |-> proc'.ok]
         /\ proc'.job = "none" /\ proc'.job \in JobNames /\ proc'.ok \in BOOLEAN
BY DEF NoJob, JobNames

LEMMA KilledStays ==
  ASSUME IInv, Killed
  PROVE  IInv'
<1>1. Types
  BY DEF IInv
<1>2. /\ disk' \in DiskType /\ disk'.active = disk.active /\ disk'.objects = disk.objects
      /\ disk'.pending = disk.pending /\ disk'.latch = disk.latch
  <2>1. CASE UNCHANGED disk
    BY <1>1, <2>1 DEF Types
  <2>2. CASE disk' = [disk EXCEPT !.litter = TRUE]
    BY <1>1, <2>2 DEF Types, DiskType
  <2>3. QED
    BY <2>1, <2>2 DEF Killed
<1>3. /\ host' \in HostType /\ host'.boot = host.boot
      /\ host'.state = (IF proc.job = "boot" THEN "held" ELSE host.state)
      /\ cause' \in BOOLEAN /\ (cause => cause') /\ (proc.job = "boot" => cause')
  BY <1>1 DEF Killed, Types, HostType
<1>4. Types'
  BY <1>1, <1>2, <1>3, NoJobLeft DEF Types, Killed
<1>5. Sound(journal, disk', agent', host', tried', cause')
  <2>1. Sound(journal, disk', agent, host, tried, cause')
    BY <1>2, <1>3, SoundStays DEF IInv
  <2>2. UNCHANGED <<agent, tried>>
    BY DEF Killed
  <2>3. QED
    BY <1>3, <2>1, <2>2 DEF Sound
<1>6. Jobs'
  <2>1. proc.job \in JobNames \ {"none"}
    BY <1>1 DEF Killed, Types
  <2>2. CASE proc.job = "boot"
    BY <1>2, <1>3, <2>2, NoJobLeft DEF IInv, Jobs, Killed
  <2>3. CASE proc.job # "boot"
    BY <1>2, <1>3, <2>1, <2>3, NoJobLeft DEF IInv, Jobs, Killed, JobNames
  <2>4. QED
    BY <2>2, <2>3
<1>7. Work'
  BY NoJobLeft DEF Work, Killed
<1>8. QED
  BY <1>4, <1>5, <1>6, <1>7 DEF IInv, Killed

LEMMA RebootStays ==
  ASSUME IInv, Reboot
  PROVE  IInv'
<1>1. Types /\ journal \in Journals /\ host \in HostType /\ MaxBoots \in Nat
  BY UpdaterAssumption DEF IInv, Types
<1>2. /\ host' \in HostType /\ host'.state = "starting" /\ host'.boot = host.boot + 1
      /\ host.boot \in Int
  BY <1>1 DEF Reboot, HostType
<1>3. agent' \in AgentType /\ agent'.run = 0
  BY UpdaterAssumption DEF Reboot, AgentType
<1>4. units' \in [probe : Unit, stop : Unit]
  BY DEF Reboot, Unit
<1>5. Types'
  BY <1>1, <1>2, <1>3, <1>4, NoJobLeft DEF Types, Reboot
<1>6. journal.tx # NoTx => journal.tx.boot \in Int /\ journal.tx.boot <= host.boot
  BY <1>1, Numbered DEF IInv, Sound, Journals
<1>7. Sound(journal, disk, agent', host', tried, cause)
  <2>1. Sound(journal, disk, agent, host, tried, cause)
    BY DEF IInv
  <2>2. QED
    BY <2>1, <1>2, <1>3, <1>6 DEF Sound
<1>8. Jobs'
  BY <1>2, <1>3, <1>6, NoJobLeft DEF IInv, Jobs, Reboot
<1>9. Work'
  BY NoJobLeft DEF Work, Reboot
<1>10. QED
  BY <1>5, <1>7, <1>8, <1>9 DEF IInv, Reboot

-----------------------------------------------------------------------------
(* The commands begin, and their processes end.                            *)

LEMMA Launches ==
  ASSUME IInv, UNCHANGED <<journal, markers, units, agent, host, policy, tried>>,
         cause' \in BOOLEAN, cause => cause',
         disk' \in DiskType, disk'.active = disk.active, disk'.objects = disk.objects,
         disk'.pending = disk.pending, disk'.latch = disk.latch,
         NEW job \in JobNames \ {"none"}, NEW s \in Stages, NEW t \in Endings,
         NEW mem \in Journals, NEW ok \in BOOLEAN,
         Same(journal, mem),
         proc' = [job |-> job, todo |-> Todo(s, t), mem |-> mem, ok |-> ok],
         host.state = (IF job = "boot" THEN "starting" ELSE "up"),
         Agrees(s, t, proc', journal, disk, host, cause')
  PROVE  IInv'
<1> DEFINE todo == Todo(s, t)
<1> HIDE DEF todo
<1>0. proc' = [job |-> job, todo |-> todo, mem |-> mem, ok |-> ok]
  BY DEF todo
<1>1. /\ proc'.job = job /\ proc'.todo = todo /\ proc'.mem = mem /\ proc'.ok = ok
      /\ proc' = [job |-> proc'.job, todo |-> proc'.todo, mem |-> proc'.mem, ok |-> proc'.ok]
  BY <1>0
<1>2. Types'
  BY <1>1 DEF IInv, Types
<1>3. Sound(journal, disk', agent, host, tried, cause')
  BY SoundStays DEF IInv
<1>4. Sound(mem, disk', agent, host, tried, cause')
  BY <1>3, SoundSame
<1>5. Jobs'
  BY <1>1 DEF IInv, Jobs, JobNames
<1>6. Agrees(s, t, proc', journal, disk', host, cause')
  BY DEF Agrees
<1>7. Work'
  BY <1>1, <1>4, <1>6 DEF Work, todo
<1>8. QED
  BY <1>2, <1>3, <1>5, <1>7 DEF IInv

LEMMA Launch ==
  ASSUME IInv, UNCHANGED <<journal, markers, units, agent, host, policy, tried, cause>>,
         disk' \in DiskType, disk'.active = disk.active, disk'.objects = disk.objects,
         disk'.pending = disk.pending, disk'.latch = disk.latch,
         NEW job \in JobNames \ {"none"}, NEW s \in Stages, NEW t \in Endings,
         NEW mem \in Journals, NEW ok \in BOOLEAN,
         Same(journal, mem),
         proc' = [job |-> job, todo |-> Todo(s, t), mem |-> mem, ok |-> ok],
         host.state = (IF job = "boot" THEN "starting" ELSE "up"),
         Agrees(s, t, proc', journal, disk, host, cause)
  PROVE  IInv'
<1>1. cause' \in BOOLEAN /\ cause' = cause
  BY DEF IInv, Types
<1>2. Agrees(s, t, proc', journal, disk, host, cause')
  BY <1>1
<1>3. QED
  BY <1>1, <1>2, Launches

(* What the stages' names are not.                                         *)
LEMMA Names ==
  /\ {"end", "clear", "boot", "look", "collect", "take", "latch"} \subseteq Stages
  /\ {"unpend", "both", "none"} \subseteq Endings
BY DEF Stages, Lone, Looking, Deciding, Trying, Applying, Fetched, Chosen, Failing, Ahead, Returning, Endings

(* Where nothing must change, "active" points at the installed release.    *)
LEMMA IdleIsInstalled ==
  ASSUME IInv, Idles(journal)
  PROVE  disk.active = journal.installed
<1>1. journal \in Journals /\ Sound(journal, disk, agent, host, tried, cause)
  BY DEF IInv, Types
<1>2. journal.tx # NoTx => journal.tx.from \in Int /\ journal.tx.to \in Int
  BY <1>1, Numbered DEF Journals
<1>3. disk.active = journal.installed \/ (journal.tx # NoTx /\ disk.active = journal.tx.from)
  BY DEF Idles, KnownGood
<1>4. QED
  BY <1>1, <1>2, <1>3 DEF Sound

LEMMA ResumeStays ==
  ASSUME IInv, proc.job = "none", NEW job \in {"boot", "reconcile"},
         host.state = (IF job = "boot" THEN "starting" ELSE "up"), Resume(job),
         UNCHANGED <<journal, disk, markers, units, agent, host, policy, tried, cause, budget>>
  PROVE  IInv'
<1>1. /\ journal \in Journals /\ disk \in DiskType /\ job \in JobNames \ {"none"}
      /\ Same(journal, journal) /\ Sound(journal, disk, agent, host, tried, cause)
  BY DEF IInv, Types, JobNames, Same
<1>2. CASE ~Loads(journal)
  <2>1. cause
    BY <1>1, <1>2, SoundLoads DEF Sound
  <2>2. proc' = [job |-> job, todo |-> Todo("latch", "none"), mem |-> journal, ok |-> FALSE]
    BY <1>2, Opens DEF Resume, Refuses
  <2>3. proc'.job = job /\ proc'.mem = journal /\ proc'.ok = FALSE
    BY <2>2
  <2>4. Agrees("latch", "none", proc', journal, disk, host, cause)
    BY <2>1, <2>3 DEF Agrees, Failing, Ahead, Trying, Returning, Deciding, Applying, Fetched, Chosen, Looking
  <2>5. QED
    BY <1>1, <2>2, <2>4, Launch, Names
<1>3. CASE Loads(journal) /\ Idles(journal)
  <2> DEFINE s == IF job = "boot" THEN "clear" ELSE "end"
  <2>1. proc' = [job |-> job, todo |-> Todo(s, "unpend"), mem |-> journal, ok |-> TRUE]
    BY <1>3, Opens DEF Resume, Begins
  <2>2. proc'.job = job /\ proc'.mem = journal /\ proc'.ok = TRUE
    BY <2>1
  <2>3. disk.active = journal.installed
    BY <1>3, IdleIsInstalled
  <2>4. Agrees(s, "unpend", proc', journal, disk, host, cause)
    BY <2>2, <2>3 DEF Agrees, Failing, Ahead, Trying, Returning, Deciding, Applying, Fetched, Chosen, Looking
  <2>5. s \in Stages
    BY Names
  <2> HIDE DEF s
  <2>6. QED
    BY <1>1, <2>1, <2>4, <2>5, Launch, Names
<1>4. CASE Loads(journal) /\ ~Idles(journal) /\ disk.latch
  <2>1. cause
    BY <1>4 DEF IInv, Jobs
  <2>2. proc' = [job |-> job, todo |-> Todo("end", "none"), mem |-> journal, ok |-> FALSE]
    BY <1>4, Opens DEF Resume, Refuses
  <2>3. proc'.job = job /\ proc'.mem = journal /\ proc'.ok = FALSE
    BY <2>2
  <2>4. Agrees("end", "none", proc', journal, disk, host, cause)
    BY <2>1, <2>3 DEF Agrees, Failing, Ahead, Trying, Returning, Deciding, Applying, Fetched, Chosen, Looking
  <2>5. QED
    BY <1>1, <2>2, <2>4, Launch, Names
<1>5. CASE Loads(journal) /\ ~Idles(journal) /\ ~disk.latch
  <2> DEFINE s == IF job = "boot" THEN "boot" ELSE "look"
  <2>1. proc' = [job |-> job, todo |-> Todo(s, "unpend"), mem |-> journal, ok |-> TRUE]
    BY <1>5, Opens DEF Resume, Begins
  <2>2. proc'.job = job /\ proc'.mem = journal /\ proc'.ok = TRUE
    BY <2>1
  <2>3. job = "boot" => journal.tx = NoTx \/ journal.tx.boot # host.boot
    BY DEF IInv, Jobs
  <2>4. Agrees(s, "unpend", proc', journal, disk, host, cause)
    BY <2>2, <2>3 DEF Agrees, Failing, Ahead, Trying, Returning, Deciding, Applying, Fetched, Chosen, Looking
  <2>5. s \in Stages
    BY Names
  <2> HIDE DEF s
  <2>6. QED
    BY <1>1, <2>1, <2>4, <2>5, Launch, Names
<1>6. QED
  BY <1>2, <1>3, <1>4, <1>5

LEMMA UnitsBegin ==
  ASSUME IInv, BootUnit \/ TimerUnit
  PROVE  IInv'
BY ResumeStays DEF BootUnit, TimerUnit

LEMMA ApplyStays ==
  ASSUME IInv, Apply
  PROVE  IInv'
<1>1. /\ journal \in Journals /\ disk \in DiskType /\ "apply" \in JobNames \ {"none"}
      /\ Same(journal, journal) /\ Sound(journal, disk, agent, host, tried, cause)
  BY DEF IInv, Types, JobNames, Same
<1>2. UNCHANGED <<journal, disk, markers, units, agent, host, policy, tried, cause>> /\ host.state = "up"
  BY DEF Apply
<1>3. CASE ~Loads(journal)
  <2>1. cause
    BY <1>1, <1>3, SoundLoads DEF Sound
  <2>2. proc' = [job |-> "apply", todo |-> Todo("latch", "none"), mem |-> journal, ok |-> FALSE]
    BY <1>3, Opens DEF Apply, Refuses
  <2>3. proc'.job = "apply" /\ proc'.mem = journal /\ proc'.ok = FALSE
    BY <2>2
  <2>4. Agrees("latch", "none", proc', journal, disk, host, cause)
    BY <2>1, <2>3 DEF Agrees, Failing, Ahead, Trying, Returning, Deciding, Applying, Fetched, Chosen, Looking
  <2>5. QED
    BY <1>1, <1>2, <2>2, <2>4, Launch, Names
<1>4. CASE Loads(journal)
  <2>1. proc' = [job |-> "apply", todo |-> Todo("collect", "unpend"), mem |-> journal, ok |-> TRUE]
        /\ Terminal(journal.phase)
    BY <1>4, Opens DEF Apply, Begins
  <2>2. proc'.job = "apply" /\ proc'.mem = journal /\ proc'.ok = TRUE
    BY <2>1
  <2>3. Agrees("collect", "unpend", proc', journal, disk, host, cause)
    BY <2>1, <2>2 DEF Agrees, Failing, Ahead, Trying, Returning, Deciding, Applying, Fetched, Chosen, Looking
  <2>4. QED
    BY <1>1, <1>2, <2>1, <2>3, Launch, Names
<1>5. QED
  BY <1>3, <1>4

LEMMA RemoteStays ==
  ASSUME IInv, Remote
  PROVE  IInv'
<1>1. /\ journal \in Journals /\ Types /\ "remote" \in JobNames \ {"none"}
      /\ disk.request \in Request
  BY DiskFacts DEF IInv, Types, JobNames, Remote
<1>2. /\ disk' \in DiskType /\ disk'.active = disk.active /\ disk'.objects = disk.objects
      /\ disk'.pending = disk.pending /\ disk'.latch = disk.latch
  BY <1>1, DiskFacts DEF Remote, DiskType
<1>3. UNCHANGED <<journal, markers, units, agent, host, policy, tried, cause>> /\ host.state = "up"
  BY DEF Remote
<1>4. CASE UNCHANGED proc
  <2>1. Types'
    BY <1>1, <1>2, <1>3, <1>4 DEF Types
  <2>2. QED
    BY <1>2, <1>3, <1>4, <2>1, Apart
<1>5. CASE proc' # proc
  <2> DEFINE r == [id |-> disk.request, target |-> 0, status |-> "downloading"]
             m == [journal EXCEPT !.remote = r]
  <2>1. r \in RemoteRecord
    BY <1>1 DEF RemoteRecord
  <2>2. proc' = [job |-> "remote", todo |-> Todo("take", "both"), mem |-> m, ok |-> TRUE]
        /\ Terminal(journal.phase)
    BY <1>5, Opens DEF Remote
  <2> HIDE DEF r
  <2>3. m \in Journals /\ Same(journal, m)
    BY <1>1, <2>1, Told
  <2> HIDE DEF m
  <2>4. proc'.job = "remote" /\ proc'.mem = m /\ proc'.ok = TRUE
    BY <2>2
  <2>5. Agrees("take", "both", proc', journal, disk, host, cause)
    BY <2>2, <2>3, <2>4 DEF Agrees, Same, Failing, Ahead, Trying, Returning, Deciding, Applying, Fetched, Chosen, Looking
  <2>6. QED
    BY <1>1, <1>2, <1>3, <2>2, <2>3, <2>5, Launch, Names
<1>6. QED
  BY <1>4, <1>5

LEMMA UnreadableStays ==
  ASSUME IInv, NEW job \in {"boot", "reconcile", "apply", "remote"}, Unreadable(job)
  PROVE  IInv'
<1>1. /\ journal \in Journals /\ Types /\ job \in JobNames \ {"none"} /\ Same(journal, journal)
      /\ cause \in BOOLEAN
  BY DEF IInv, Types, JobNames, Same
<1>2. /\ disk' \in DiskType /\ disk'.active = disk.active /\ disk'.objects = disk.objects
      /\ disk'.pending = disk.pending /\ disk'.latch = disk.latch
  BY <1>1, DiskFacts DEF Unreadable, DiskType, Types
<1>3. /\ UNCHANGED <<journal, markers, units, agent, host, policy, tried>>
      /\ host.state = (IF job = "boot" THEN "starting" ELSE "up")
  BY DEF Unreadable
<1>4. CASE Refuses(job, <<"latch!">>) /\ cause' = TRUE
  <2>1. proc' = [job |-> job, todo |-> Todo("latch", "none"), mem |-> journal, ok |-> FALSE]
    BY <1>4, Opens DEF Refuses
  <2>2. proc'.job = job /\ proc'.mem = journal /\ proc'.ok = FALSE
    BY <2>1
  <2>3. Agrees("latch", "none", proc', journal, disk, host, cause')
    BY <1>4, <2>2 DEF Agrees, Failing, Ahead, Trying, Returning, Deciding, Applying, Fetched, Chosen, Looking
  <2>4. QED
    BY <1>1, <1>2, <1>3, <1>4, <2>1, <2>3, Launches, Names
<1>5. CASE Refuses(job, <<>>) /\ cause' = (cause \/ job = "boot")
  <2>1. proc' = [job |-> job, todo |-> Todo("end", "none"), mem |-> journal, ok |-> FALSE]
    BY <1>5, Opens DEF Refuses
  <2>2. proc'.job = job /\ proc'.mem = journal /\ proc'.ok = FALSE
    BY <2>1
  <2>3. cause' \in BOOLEAN /\ (cause => cause') /\ (job = "boot" => cause')
    BY <1>1, <1>5
  <2>4. Agrees("end", "none", proc', journal, disk, host, cause')
    BY <2>2, <2>3 DEF Agrees, Failing, Ahead, Trying, Returning, Deciding, Applying, Fetched, Chosen, Looking
  <2>5. QED
    BY <1>1, <1>2, <1>3, <2>1, <2>3, <2>4, Launches, Names
<1>6. QED
  BY <1>4, <1>5 DEF Unreadable

LEMMA ExitStays ==
  ASSUME IInv, Exit
  PROVE  IInv'
<1>1. Types
  BY DEF IInv
<1>2. PICK s \in Stages, t \in Endings :
        proc.todo = Todo(s, t) /\ Agrees(s, t, proc, journal, disk, host, cause)
  BY DEF IInv, Work, Exit
<1>3. s = "end" /\ t = "none"
  BY <1>2, Done DEF Exit
<1>4. proc.job = "boot" => (~proc.ok => cause) /\ (proc.ok => disk.active = journal.installed)
  BY <1>2, <1>3 DEF Agrees, Looking, Deciding
<1>5. host' \in HostType /\ host'.boot = host.boot
      /\ (proc.job # "boot" => host' = host)
      /\ (proc.job = "boot" => host'.state = IF proc.ok THEN "up" ELSE "held")
  BY <1>1 DEF Exit, Types, HostType
<1>6. Types'
  BY <1>1, <1>5, NoJobLeft DEF Types, Exit
<1>7. Sound(journal, disk, agent, host', tried, cause)
  <2>1. Sound(journal, disk, agent, host, tried, cause)
    BY DEF IInv
  <2>2. QED
    BY <1>4, <1>5, <2>1 DEF Sound
<1>8. Jobs'
  <2>1. proc.job \in JobNames \ {"none"}
    BY <1>1 DEF Types, Exit
  <2>2. CASE proc.job = "boot"
    BY <1>4, <1>5, <2>2, NoJobLeft DEF IInv, Jobs, Exit
  <2>3. CASE proc.job # "boot"
    BY <1>5, <2>1, <2>3, NoJobLeft DEF IInv, Jobs, Exit, JobNames
  <2>4. QED
    BY <2>2, <2>3
<1>9. Work'
  BY NoJobLeft DEF Work, Exit
<1>10. QED
  BY <1>6, <1>7, <1>8, <1>9 DEF IInv, Exit

-----------------------------------------------------------------------------
(* What a process decides.                                                 *)

(* A process with work to do is in a stage.                                *)
LEMMA AtWork ==
  ASSUME IInv, proc.todo # <<>>
  PROVE  /\ Types /\ proc.job \in JobNames \ {"none"} /\ proc.mem \in Journals
         /\ Sound(journal, disk, agent, host, tried, cause)
         /\ Sound(proc.mem, disk, agent, host, tried, cause)
         /\ \E s \in Stages, t \in Endings :
              proc.todo = Todo(s, t) /\ Agrees(s, t, proc, journal, disk, host, cause)
BY DEF IInv, Types, Jobs, Work, NoJob

(* The process after a step.                                               *)
Stands(s, t) ==
  /\ proc' = [job |-> proc'.job, todo |-> proc'.todo, mem |-> proc'.mem, ok |-> proc'.ok]
  /\ proc'.job = proc.job /\ proc'.ok \in BOOLEAN
  /\ proc'.mem \in Journals /\ proc'.todo = Todo(s, t)
  /\ Sound(proc'.mem, disk', agent', host', tried', cause')
  /\ Agrees(s, t, proc', journal', disk', host', cause')

LEMMA Proceeds ==
  ASSUME IInv, proc.todo # <<>>, NEW s \in Stages, NEW t \in Endings, Stands(s, t),
         UNCHANGED <<agent, host, policy>>,
         journal' \in Journals, Sound(journal', disk', agent', host', tried', cause'),
         disk' \in DiskType, markers' \subseteq {"restart", "stop", "preflight"},
         units' \in [probe : Unit, stop : Unit], tried' \in 0 .. MaxBoots,
         cause' \in BOOLEAN, cause => cause', disk'.latch => disk.latch \/ cause'
  PROVE  IInv'
<1>1. Types /\ proc.job \in JobNames \ {"none"}
  BY AtWork
<1>2. Types'
  BY <1>1 DEF Types, Stands
<1>3. Jobs'
  BY <1>1 DEF IInv, Jobs, Stands
<1>4. Work'
  BY DEF Work, Stands
<1>5. QED
  BY <1>2, <1>3, <1>4 DEF IInv

LEMMA DoesFacts ==
  ASSUME Types, NEW m, NEW todo, Does(m, todo)
  PROVE  /\ proc'.job = proc.job /\ proc'.ok = proc.ok /\ proc'.mem = m /\ proc'.todo = todo
         /\ proc' = [job |-> proc'.job, todo |-> proc'.todo, mem |-> proc'.mem, ok |-> proc'.ok]
         /\ proc'.ok \in BOOLEAN
<1>1. proc = [job |-> proc.job, todo |-> proc.todo, mem |-> proc.mem, ok |-> proc.ok] /\ proc.ok \in BOOLEAN
  BY DEF Types
<1>2. proc' = [job |-> proc.job, todo |-> todo, mem |-> m, ok |-> proc.ok]
  BY <1>1 DEF Does
<1>3. QED
  BY <1>1, <1>2

(* An error leaves a journal that asks for the operator, or nothing.       *)
LEMMA FailsStands ==
  ASSUME IInv, proc.todo # <<>>, NEW m \in Journals, NEW recovery \in BOOLEAN, Fails(m, recovery),
         Sound(m, disk', agent', host', tried', cause'),
         ~Terminal(m.phase) \/ recovery => cause',
         proc.job = "boot" => cause' /\ m.installed = journal'.installed
  PROVE  \E s \in Stages, t \in Endings : Stands(s, t)
<1>1. Types /\ proc = [job |-> proc.job, todo |-> proc.todo, mem |-> proc.mem, ok |-> proc.ok]
  BY AtWork DEF Types
<1> DEFINE k == [m EXCEPT !.phase = "manual"]
           t == IF proc.job = "remote" THEN "result" ELSE "none"
           quiet == Terminal(m.phase) /\ ~recovery
<1>2. k \in Journals /\ k.installed = m.installed
  BY Phased DEF Phases
<1>3. t \in Endings /\ t \in {"result", "none"} /\ {"end", "fail"} \subseteq Stages
  BY DEF Stages, Lone, Failing, Endings
<1>4. Todo("end", t) = (IF proc.job = "remote" THEN <<"result">> ELSE <<>>)
  BY LastSteps DEF Endings, Ending
<1>5. <<"save!", "latch!">> \o Todo("end", t) = Todo("fail", t)
  BY <1>3, Puts
<1> HIDE DEF t, k
<1>6. CASE quiet
  <2>1. proc' = [job |-> proc.job, todo |-> Todo("end", t), mem |-> m, ok |-> FALSE]
    BY <1>1, <1>4, <1>6 DEF Fails
  <2>2. /\ proc'.job = proc.job /\ proc'.todo = Todo("end", t) /\ proc'.mem = m /\ proc'.ok = FALSE
        /\ proc' = [job |-> proc'.job, todo |-> proc'.todo, mem |-> proc'.mem, ok |-> proc'.ok]
    BY <2>1
  <2>3. Agrees("end", t, proc', journal', disk', host', cause')
    BY <1>3, <2>2 DEF Agrees, Failing, Ahead, Trying, Returning, Deciding, Applying, Fetched, Chosen, Looking
  <2>4. Stands("end", t)
    BY <2>2, <2>3 DEF Stands
  <2>5. QED
    BY <1>3, <2>4
<1>7. CASE ~quiet
  <2>1. proc' = [job |-> proc.job, todo |-> Todo("fail", t), mem |-> k, ok |-> FALSE]
    BY <1>1, <1>4, <1>5, <1>7 DEF Fails, k
  <2>2. /\ proc'.job = proc.job /\ proc'.todo = Todo("fail", t) /\ proc'.mem = k /\ proc'.ok = FALSE
        /\ proc' = [job |-> proc'.job, todo |-> proc'.todo, mem |-> proc'.mem, ok |-> proc'.ok]
    BY <2>1
  <2>3. cause'
    BY <1>7
  <2>4. Sound(k, disk', agent', host', tried', cause')
    BY <2>3, SoundManual DEF k
  <2>5. Agrees("fail", t, proc', journal', disk', host', cause')
    BY <1>2, <1>3, <2>2, <2>3 DEF Agrees, Failing, Ahead, Trying, Returning, Deciding, Applying, Fetched, Chosen, Looking
  <2>6. Stands("fail", t)
    BY <1>2, <2>2, <2>4, <2>5 DEF Stands
  <2>7. QED
    BY <1>3, <2>6
<1>8. QED
  BY <1>6, <1>7

(* What a failure costs is known when it is met in an open transaction or  *)
(* at boot.                                                                *)
LEMMA CostsFacts ==
  ASSUME IInv, proc.todo # <<>>, Costs
  PROVE  /\ cause' \in BOOLEAN /\ (cause => cause') /\ (proc.job = "boot" => cause')
         /\ proc'.mem.phase = "manual" => cause'
BY AtWork DEF Costs, Types

LEMMA FailsCost ==
  ASSUME IInv, proc.todo # <<>>, NEW m \in Journals, Fails(m, FALSE), Costs, ~Terminal(m.phase)
  PROVE  cause'
<1>1. proc = [job |-> proc.job, todo |-> proc.todo, mem |-> proc.mem, ok |-> proc.ok]
  BY AtWork DEF Types
<1>2. proc'.mem = [m EXCEPT !.phase = "manual"]
  BY <1>1 DEF Fails
<1>3. proc'.mem.phase = "manual"
  BY <1>2, Phased DEF Phases
<1>4. QED
  BY <1>3, CostsFacts

(* A process that stops at once has nothing left to do.                    *)
LEMMA StopsStands ==
  ASSUME IInv, proc.todo # <<>>, Stops, Sound(proc.mem, disk', agent', host', tried', cause'),
         proc.job = "boot" => cause' /\ proc.mem.installed = journal'.installed
  PROVE  \E s \in Stages, t \in Endings : Stands(s, t)
<1>1. /\ proc = [job |-> proc.job, todo |-> proc.todo, mem |-> proc.mem, ok |-> proc.ok]
      /\ proc.mem \in Journals
  BY AtWork DEF Types
<1>2. proc' = [job |-> proc.job, todo |-> Todo("end", "none"), mem |-> proc.mem, ok |-> FALSE]
  BY <1>1, Opens DEF Stops
<1>3. /\ proc'.job = proc.job /\ proc'.todo = Todo("end", "none") /\ proc'.mem = proc.mem
      /\ proc'.ok = FALSE
      /\ proc' = [job |-> proc'.job, todo |-> proc'.todo, mem |-> proc'.mem, ok |-> proc'.ok]
  BY <1>2
<1>4. Agrees("end", "none", proc', journal', disk', host', cause')
  BY <1>3 DEF Agrees, Failing, Ahead, Trying, Returning, Deciding, Applying, Fetched, Chosen, Looking
<1>5. Stands("end", "none")
  BY <1>1, <1>3, <1>4 DEF Stands
<1>6. QED
  BY <1>5, Names

(* A decision: the journal in memory and the steps left change, and with   *)
(* them at most the units' marks and the knowledge that something happened.*)
LEMMA Decides ==
  ASSUME IInv, proc.todo # <<>>, UNCHANGED <<journal, disk, markers, agent, host, policy, tried>>,
         units' \in [probe : Unit, stop : Unit], cause' \in BOOLEAN, cause => cause',
         \E s \in Stages, t \in Endings : Stands(s, t)
  PROVE  IInv'
<1>1. Types /\ Sound(journal, disk, agent, host, tried, cause)
  BY AtWork
<1>2. Sound(journal', disk', agent', host', tried', cause')
  BY <1>1, SoundStays
<1>3. QED
  BY <1>1, <1>2, Proceeds DEF Types

(* It leaves the stage s with the journal m.                               *)
LEMMA DoesStands ==
  ASSUME IInv, proc.todo # <<>>, NEW s \in Stages, NEW t \in Endings, NEW m \in Journals,
         Does(m, Todo(s, t)), Sound(m, disk', agent', host', tried', cause'),
         Agrees(s, t, [job |-> proc.job, todo |-> Todo(s, t), mem |-> m, ok |-> proc.ok],
                journal', disk', host', cause')
  PROVE  \E u \in Stages, v \in Endings : Stands(u, v)
<1> DEFINE todo == Todo(s, t)
<1> HIDE DEF todo
<1>1. Types /\ Does(m, todo)
  BY AtWork DEF todo
<1>2. /\ proc'.job = proc.job /\ proc'.ok = proc.ok /\ proc'.mem = m /\ proc'.todo = todo
      /\ proc' = [job |-> proc'.job, todo |-> proc'.todo, mem |-> proc'.mem, ok |-> proc'.ok]
      /\ proc'.ok \in BOOLEAN
  BY <1>1, DoesFacts
<1>3. proc' = [job |-> proc.job, todo |-> todo, mem |-> m, ok |-> proc.ok]
  BY <1>2
<1>4. Agrees(s, t, proc', journal', disk', host', cause')
  BY <1>3 DEF todo
<1>5. Stands(s, t)
  BY <1>2, <1>4 DEF Stands, todo
<1>6. QED
  BY <1>5

LEMMA DecidesDoes ==
  ASSUME IInv, proc.todo # <<>>, UNCHANGED <<journal, disk, markers, agent, host, policy, tried, cause>>,
         units' \in [probe : Unit, stop : Unit],
         NEW s \in Stages, NEW t \in Endings, NEW m \in Journals, Does(m, Todo(s, t)),
         Sound(m, disk, agent, host, tried, cause),
         Agrees(s, t, [job |-> proc.job, todo |-> Todo(s, t), mem |-> m, ok |-> proc.ok],
                journal, disk, host, cause)
  PROVE  IInv'
<1>1. cause \in BOOLEAN
  BY AtWork DEF Types
<1>2. \E u \in Stages, v \in Endings : Stands(u, v)
  BY DoesStands
<1>3. QED
  BY <1>1, <1>2, Decides

LEMMA DecidesFails ==
  ASSUME IInv, proc.todo # <<>>, UNCHANGED <<journal, disk, markers, agent, host, policy, tried>>,
         units' \in [probe : Unit, stop : Unit], cause' \in BOOLEAN, cause => cause',
         NEW m \in Journals, NEW recovery \in BOOLEAN, Fails(m, recovery),
         Sound(m, disk, agent, host, tried, cause),
         ~Terminal(m.phase) \/ recovery => cause',
         proc.job = "boot" => cause' /\ m.installed = journal.installed
  PROVE  IInv'
<1>1. Sound(m, disk', agent', host', tried', cause')
  BY SoundStays
<1>2. \E u \in Stages, v \in Endings : Stands(u, v)
  BY <1>1, FailsStands
<1>3. QED
  BY <1>2, Decides

(* Each of these steps is the first of one stage only.                     *)
LEMMA FirstOf ==
  ASSUME NEW s \in Stages \ {"end"}
  PROVE  /\ First[s] = "reconcile" => s = "reconcile" /\ After[s] = "end"
         /\ First[s] = "recover" => s = "recover" /\ After[s] = "end"
         /\ First[s] = "downloads" => s = "look" /\ After[s] = "reconcile"
         /\ First[s] = "collect" => s = "collect" /\ After[s] = "fetch"
         /\ First[s] = "fetch" => s = "fetch" /\ After[s] = "end"
         /\ First[s] = "current" => s = "current" /\ After[s] = "end"
         /\ First[s] = "prepare" => s = "prepare" /\ After[s] = "end"
         /\ First[s] = "open" => s = "open" /\ After[s] = "opened"
         /\ First[s] \notin {"result", "unpend"}
BY DEF First, After, Stages, Lone, Looking, Deciding, Trying, Applying, Fetched, Chosen, Failing, Ahead, Returning

LEMMA AtStep ==
  ASSUME IInv, proc.todo # <<>>,
         Head(proc.todo) \in {"reconcile", "recover", "downloads", "collect", "fetch", "current", "prepare", "open"}
  PROVE  \E s \in Stages \ {"end"}, t \in Endings :
           /\ proc.todo = Todo(s, t) /\ Agrees(s, t, proc, journal, disk, host, cause)
           /\ First[s] = Head(proc.todo) /\ Rest = Todo(After[s], t)
<1>1. PICK s \in Stages, t \in Endings :
        proc.todo = Todo(s, t) /\ Agrees(s, t, proc, journal, disk, host, cause)
  BY AtWork
<1>2. s # "end"
  BY <1>1, LastSteps DEF Endings
<1>3. QED
  BY <1>1, <1>2, Steps DEF Rest

(* A state that cannot be read ends the command, wherever it is needed.    *)
LEMMA ReadFailsStays ==
  ASSUME IInv, proc.todo # <<>>, ReadFails
  PROVE  IInv'
<1>1. /\ Types /\ proc.mem \in Journals /\ Sound(proc.mem, disk, agent, host, tried, cause)
      /\ \E s \in Stages, t \in Endings : Agrees(s, t, proc, journal, disk, host, cause)
  BY AtWork
<1>2. /\ UNCHANGED <<journal, disk, markers, units, agent, host, policy, tried>>
      /\ Fails(proc.mem, FALSE) /\ Costs
  BY DEF ReadFails
<1>3. /\ cause' \in BOOLEAN /\ (cause => cause') /\ (proc.job = "boot" => cause')
      /\ ~Terminal(proc.mem.phase) => cause'
  BY <1>1, <1>2, CostsFacts, FailsCost
<1>4. proc.job = "boot" => proc.mem.installed = journal.installed
  BY <1>1 DEF Agrees
<1>5. units' \in [probe : Unit, stop : Unit]
  BY <1>1, <1>2 DEF Types
<1>6. QED
  BY <1>1, <1>2, <1>3, <1>4, <1>5, DecidesFails

-----------------------------------------------------------------------------
(* The decisions of an open transaction.                                   *)

(* The process is about to decide, t is what it does then, and its journal *)
(* is the one of the file but for what the panel is told.                  *)
Ready(t) ==
  /\ t \in {"unpend", "both"} /\ Rest = Todo("end", t)
  /\ proc.mem.installed = journal.installed
  /\ proc.job = "boot" => (~proc.ok => cause) /\ (proc.mem.tx = NoTx \/ proc.mem.tx.boot # host.boot)

InStep(t) == Ready(t) /\ proc.mem.phase = journal.phase /\ proc.mem.tx = journal.tx

LEMMA StageNames ==
  {"end", "save", "halt", "stop", "preflight", "restart", "try", "intend", "recover", "return",
   "ended", "reconcile", "same", "newer", "candidate", "opened"} \subseteq Stages
BY DEF Stages, Lone, Looking, Deciding, Trying, Applying, Fetched, Chosen, Failing, Ahead, Returning

(* What Agrees asks of the stages after a decision.                        *)
LEMMA AgreesAfter ==
  ASSUME NEW t \in {"unpend", "both"}, NEW m, NEW job, NEW todo, NEW ok, NEW j, NEW d, NEW h, NEW c,
         job = "boot" => (~ok => c) /\ m.installed = j.installed
  PROVE  LET p == [job |-> job, todo |-> todo, mem |-> m, ok |-> ok]
             settled == job = "boot" => d.active = j.installed
             synced == m.phase = j.phase /\ m.tx = j.tx /\ m.installed = j.installed
         IN /\ settled => Agrees("save", t, p, j, d, h, c) /\ Agrees("halt", t, p, j, d, h, c)
            /\ settled /\ synced => Agrees("stop", t, p, j, d, h, c)
                                    /\ Agrees("preflight", t, p, j, d, h, c)
                                    /\ Agrees("end", t, p, j, d, h, c)
            /\ m.phase = "trial" /\ job # "boot" => Agrees("try", t, p, j, d, h, c)
            /\ m.phase = "rollback_intent" /\ (job = "boot" => m.tx = NoTx \/ m.tx.boot # h.boot) =>
                 Agrees("intend", t, p, j, d, h, c)
            /\ m.phase = "rollback_intent" /\ j.phase = "rollback_intent" /\ m.installed = j.installed =>
                 Agrees("return", t, p, j, d, h, c)
BY DEF Agrees, Failing, Ahead, Trying, Returning, Deciding, Applying, Fetched, Chosen, Looking

LEMMA PreparedStays ==
  ASSUME IInv, proc.todo # <<>>, NEW t, InStep(t), proc.mem.phase = "prepared", Prepared(proc.mem),
         UNCHANGED <<journal, disk, markers, agent, host, policy, tried, cause>>
  PROVE  IInv'
<1> DEFINE j == proc.mem
<1>1. /\ Types /\ j \in Journals /\ Sound(j, disk, agent, host, tried, cause)
      /\ t \in Endings /\ t \in {"unpend", "both"} /\ Rest = Todo("end", t)
  BY AtWork DEF InStep, Ready, Endings
<1>2. /\ j.tx # NoTx /\ disk.active = j.installed /\ agent.run \in {0, j.installed}
      /\ j.installed = journal.installed /\ j.phase = journal.phase /\ j.tx = journal.tx
      /\ j.tx.from = j.installed
      /\ proc.job = "boot" => (~proc.ok => cause) /\ j.installed = journal.installed
  BY <1>1 DEF Sound, InStep, Ready
<1>3. j.tx.to \in Release /\ {"rolled_back", "stopping"} \subseteq Phases
  BY <1>1, <1>2, Numbered DEF Journals, Phases
<1>4. units' \in [probe : Unit, stop : Unit]
  BY <1>1, UnitChanges DEF Types, Prepared
<1>5. ASSUME Does([j EXCEPT !.phase = "rolled_back"], <<"save">> \o Rest) PROVE IInv'
  <2> DEFINE m == [j EXCEPT !.phase = "rolled_back"]
  <2>1. m \in Journals /\ m.phase = "rolled_back" /\ m.tx = j.tx /\ m.installed = j.installed
        /\ m.seen = j.seen /\ m.floor = j.floor
    BY <1>1, <1>3, Phased
  <2> HIDE DEF m
  <2>2. Sound(m, disk, agent, host, tried, cause)
    BY <1>1, <1>2, <2>1 DEF Sound, Terminal
  <2>3. Does(m, Todo("save", t))
    BY <1>1, <1>5, Puts DEF m
  <2>4. Agrees("save", t, [job |-> proc.job, todo |-> Todo("save", t), mem |-> m, ok |-> proc.ok],
               journal, disk, host, cause)
    BY <1>1, <1>2, <2>1, AgreesAfter
  <2>5. QED
    BY <1>1, <1>4, <2>1, <2>2, <2>3, <2>4, DecidesDoes, StageNames
<1>6. ASSUME Does([j EXCEPT !.phase = "stopping"], <<"save", "stop">> \o Rest) PROVE IInv'
  <2> DEFINE m == [j EXCEPT !.phase = "stopping"]
  <2>1. m \in Journals /\ m.phase = "stopping" /\ m.tx = j.tx /\ m.installed = j.installed
        /\ m.seen = j.seen /\ m.floor = j.floor
    BY <1>1, <1>3, Phased
  <2> HIDE DEF m
  <2>2. Sound(m, disk, agent, host, tried, cause)
    BY <1>1, <1>2, <2>1 DEF Sound, Terminal
  <2>3. Does(m, Todo("halt", t))
    BY <1>1, <1>6, Puts DEF m
  <2>4. Agrees("halt", t, [job |-> proc.job, todo |-> Todo("halt", t), mem |-> m, ok |-> proc.ok],
               journal, disk, host, cause)
    BY <1>1, <1>2, <2>1, AgreesAfter
  <2>5. QED
    BY <1>1, <1>4, <2>1, <2>2, <2>3, <2>4, DecidesDoes, StageNames
<1>7. ASSUME Does([j EXCEPT !.phase = "rolled_back", !.failed = @ \cup {j.tx.to}], <<"save">> \o Rest)
      PROVE  IInv'
  <2> DEFINE m == [j EXCEPT !.phase = "rolled_back", !.failed = @ \cup {j.tx.to}]
  <2>1. m \in Journals /\ m.phase = "rolled_back" /\ m.tx = j.tx /\ m.installed = j.installed
        /\ m.seen = j.seen /\ m.floor = j.floor
    BY <1>1, <1>3 DEF Journals
  <2>2. Does(m, Todo("save", t))
    BY <1>1, <1>7, Puts
  <2> HIDE DEF m
  <2>3. Sound(m, disk, agent, host, tried, cause)
    BY <1>1, <1>2, <2>1 DEF Sound, Terminal
  <2>4. Agrees("save", t, [job |-> proc.job, todo |-> Todo("save", t), mem |-> m, ok |-> proc.ok],
               journal, disk, host, cause)
    BY <1>1, <1>2, <2>1, AgreesAfter
  <2>5. QED
    BY <1>1, <1>4, <2>1, <2>2, <2>3, <2>4, DecidesDoes, StageNames
<1>8. ASSUME Does(j, <<"preflight">> \o Rest) \/ Does(j, Rest) PROVE IInv'
  <2>1. PICK s \in {"preflight", "end"} : Does(j, Todo(s, t))
    BY <1>1, <1>8, Puts
  <2>2. Agrees(s, t, [job |-> proc.job, todo |-> Todo(s, t), mem |-> j, ok |-> proc.ok],
               journal, disk, host, cause)
    <3> DEFINE todo == Todo(s, t)
    <3> HIDE DEF todo
    <3>1. Agrees("preflight", t, [job |-> proc.job, todo |-> todo, mem |-> j, ok |-> proc.ok],
                 journal, disk, host, cause)
          /\ Agrees("end", t, [job |-> proc.job, todo |-> todo, mem |-> j, ok |-> proc.ok],
                    journal, disk, host, cause)
      BY <1>1, <1>2, AgreesAfter
    <3>2. QED
      BY <3>1 DEF todo
  <2>3. QED
    BY <1>1, <1>4, <2>1, <2>2, DecidesDoes, StageNames
<1>9. QED
  BY <1>5, <1>6, <1>7, <1>8 DEF Prepared

(* What is known of the open transaction before a decision.                *)
LEMMA OpenFacts ==
  ASSUME IInv, proc.todo # <<>>, NEW t, InStep(t),
         proc.mem.phase \in {"prepared", "stopping", "trial", "rollback_intent"}
  PROVE  /\ Types /\ proc.mem \in Journals /\ Sound(proc.mem, disk, agent, host, tried, cause)
         /\ t \in Endings /\ t \in {"unpend", "both"} /\ Rest = Todo("end", t)
         /\ proc.mem.tx # NoTx /\ proc.mem.tx.from = proc.mem.installed
         /\ proc.mem.tx.to \in Release /\ proc.mem.tx.from \in Release
         /\ proc.mem.installed = journal.installed /\ proc.mem.phase = journal.phase
         /\ proc.mem.tx = journal.tx
         /\ proc.job = "boot" => (~proc.ok => cause) /\ proc.mem.installed = journal.installed
                                 /\ proc.mem.tx.boot # host.boot
         /\ units \in [probe : Unit, stop : Unit] /\ cause \in BOOLEAN
<1>1. /\ Types /\ proc.mem \in Journals /\ Sound(proc.mem, disk, agent, host, tried, cause)
      /\ t \in Endings /\ t \in {"unpend", "both"} /\ Rest = Todo("end", t)
  BY AtWork DEF InStep, Ready, Endings
<1>2. proc.mem.tx # NoTx /\ proc.mem.tx.from = proc.mem.installed
  BY <1>1 DEF Sound
<1>3. proc.mem.tx.to \in Release /\ proc.mem.tx.from \in Release
  BY <1>1, <1>2, Numbered DEF Journals
<1>4. QED
  BY <1>1, <1>2, <1>3 DEF InStep, Ready, Types

(* A decision whose steps end the command's, or change nothing yet.        *)
LEMMA DecidesNothing ==
  ASSUME IInv, proc.todo # <<>>, NEW t, InStep(t),
         UNCHANGED <<journal, disk, markers, agent, host, policy, tried, cause>>,
         units' \in [probe : Unit, stop : Unit],
         NEW s \in {"stop", "preflight", "end"}, Does(proc.mem, Todo(s, t)),
         proc.job = "boot" => (~proc.ok => cause) /\ disk.active = journal.installed
  PROVE  IInv'
<1> DEFINE todo == Todo(s, t)
<1>1. /\ Types /\ proc.mem \in Journals /\ Sound(proc.mem, disk, agent, host, tried, cause)
      /\ t \in Endings /\ t \in {"unpend", "both"}
  BY AtWork DEF InStep, Ready, Endings
<1>2. Does(proc.mem, todo)
  OBVIOUS
<1> HIDE DEF todo
<1>3. /\ Agrees("preflight", t, [job |-> proc.job, todo |-> todo, mem |-> proc.mem, ok |-> proc.ok],
                journal, disk, host, cause)
      /\ Agrees("stop", t, [job |-> proc.job, todo |-> todo, mem |-> proc.mem, ok |-> proc.ok],
                journal, disk, host, cause)
      /\ Agrees("end", t, [job |-> proc.job, todo |-> todo, mem |-> proc.mem, ok |-> proc.ok],
                journal, disk, host, cause)
  BY <1>1, AgreesAfter DEF InStep, Ready
<1>4. Agrees(s, t, [job |-> proc.job, todo |-> Todo(s, t), mem |-> proc.mem, ok |-> proc.ok],
             journal, disk, host, cause)
  BY <1>3 DEF todo
<1>5. QED
  BY <1>1, <1>4, DecidesDoes, StageNames

LEMMA StoppingStays ==
  ASSUME IInv, proc.todo # <<>>, NEW t, InStep(t), proc.mem.phase = "stopping", Stopping(proc.mem),
         UNCHANGED <<journal, disk, markers, agent, host, policy, tried>>
  PROVE  IInv'
<1> DEFINE j == proc.mem
<1>1. /\ Types /\ j \in Journals /\ Sound(j, disk, agent, host, tried, cause)
      /\ t \in Endings /\ t \in {"unpend", "both"} /\ Rest = Todo("end", t)
      /\ j.tx # NoTx /\ j.tx.from = j.installed
      /\ j.installed = journal.installed /\ j.phase = journal.phase /\ j.tx = journal.tx
      /\ proc.job = "boot" => (~proc.ok => cause) /\ j.installed = journal.installed
                              /\ j.tx.boot # host.boot
      /\ cause \in BOOLEAN
  BY OpenFacts
<1>2. disk.active = j.installed /\ agent.run \in {0, j.installed}
  BY <1>1 DEF Sound
<1>3. units' \in [probe : Unit, stop : Unit]
  BY OpenFacts DEF Stopping
<1>4. ASSUME Does([j EXCEPT !.phase = "rolled_back"], <<"save">> \o Rest), UNCHANGED cause PROVE IInv'
  <2> DEFINE m == [j EXCEPT !.phase = "rolled_back"]
  <2>1. m \in Journals /\ m.phase = "rolled_back" /\ m.tx = j.tx /\ m.installed = j.installed
        /\ m.seen = j.seen /\ m.floor = j.floor
    BY <1>1, Phased DEF Phases
  <2> HIDE DEF m
  <2>2. Sound(m, disk, agent, host, tried, cause)
    BY <1>1, <1>2, <2>1 DEF Sound, Terminal
  <2>3. Does(m, Todo("save", t))
    BY <1>1, <1>4, Puts DEF m
  <2>4. Agrees("save", t, [job |-> proc.job, todo |-> Todo("save", t), mem |-> m, ok |-> proc.ok],
               journal, disk, host, cause)
    BY <1>1, <1>2, <2>1, AgreesAfter
  <2>5. QED
    BY <1>1, <1>3, <1>4, <2>1, <2>2, <2>3, <2>4, DecidesDoes, StageNames
<1>5. ASSUME Does([j EXCEPT !.phase = "trial"], OntoTrial \o Rest), j.tx.boot = host.boot, UNCHANGED cause
      PROVE  IInv'
  <2> DEFINE m == [j EXCEPT !.phase = "trial"]
  <2>1. m \in Journals /\ m.phase = "trial" /\ m.tx = j.tx /\ m.installed = j.installed
        /\ m.seen = j.seen /\ m.floor = j.floor
    BY <1>1, Phased DEF Phases
  <2> HIDE DEF m
  <2>2. Sound(m, disk, agent, host, tried, cause)
    BY <1>1, <1>2, <2>1 DEF Sound, Terminal
  <2>3. Does(m, Todo("try", t))
    BY <1>1, <1>5, Puts DEF m, OntoTrial
  <2>4. Agrees("try", t, [job |-> proc.job, todo |-> Todo("try", t), mem |-> m, ok |-> proc.ok],
               journal, disk, host, cause)
    BY <1>1, <1>5, <2>1, AgreesAfter
  <2>5. QED
    BY <1>1, <1>3, <1>5, <2>1, <2>2, <2>3, <2>4, DecidesDoes, StageNames
<1>6. ASSUME Fails(j, TRUE), cause' = TRUE PROVE IInv'
  BY <1>1, <1>3, <1>6, DecidesFails
<1>7. ASSUME Does(j, <<"stop">> \o Rest) \/ Does(j, Rest), UNCHANGED cause PROVE IInv'
  <2>1. PICK s \in {"stop", "end"} : Does(j, Todo(s, t))
    BY <1>1, <1>7, Puts
  <2>2. proc.job = "boot" => (~proc.ok => cause) /\ disk.active = journal.installed
    BY <1>1, <1>2
  <2>3. QED
    BY <1>3, <1>7, <2>1, <2>2, DecidesNothing
<1>8. QED
  BY <1>4, <1>5, <1>6, <1>7 DEF Stopping

LEMMA RecoverStays ==
  ASSUME IInv, proc.todo # <<>>, NEW t, InStep(t), proc.mem.phase = "rollback_intent", Recover(proc.mem),
         UNCHANGED <<journal, disk, markers, units, agent, host, policy, tried>>
  PROVE  IInv'
<1> DEFINE j == proc.mem
<1>1. /\ Types /\ j \in Journals /\ Sound(j, disk, agent, host, tried, cause)
      /\ t \in Endings /\ t \in {"unpend", "both"} /\ Rest = Todo("end", t)
      /\ j.tx # NoTx /\ j.tx.from = j.installed /\ j.tx.to \in Release
      /\ j.installed = journal.installed /\ j.phase = journal.phase /\ j.tx = journal.tx
      /\ proc.job = "boot" => (~proc.ok => cause) /\ j.installed = journal.installed
                              /\ j.tx.boot # host.boot
      /\ cause \in BOOLEAN
  BY OpenFacts
<1>2. units' \in [probe : Unit, stop : Unit]
  BY OpenFacts
<1>3. ASSUME Healthy(j.tx.from), Does([j EXCEPT !.phase = "rolled_back"], <<"save">> \o Rest),
             UNCHANGED cause
      PROVE  IInv'
  <2> DEFINE m == [j EXCEPT !.phase = "rolled_back"]
  <2>1. m \in Journals /\ m.phase = "rolled_back" /\ m.tx = j.tx /\ m.installed = j.installed
        /\ m.seen = j.seen /\ m.floor = j.floor
    BY <1>1, Phased DEF Phases
  <2> HIDE DEF m
  <2>2. disk.active = j.installed /\ agent.run = j.installed
    BY <1>1, <1>3 DEF Healthy
  <2>3. Sound(m, disk, agent, host, tried, cause)
    BY <1>1, <2>1, <2>2 DEF Sound, Terminal
  <2>4. Does(m, Todo("save", t))
    BY <1>1, <1>3, Puts DEF m
  <2>5. Agrees("save", t, [job |-> proc.job, todo |-> Todo("save", t), mem |-> m, ok |-> proc.ok],
               journal, disk, host, cause)
    BY <1>1, <2>1, <2>2, AgreesAfter
  <2>6. QED
    BY <1>1, <1>2, <1>3, <2>1, <2>3, <2>4, <2>5, DecidesDoes, StageNames
<1>4. ASSUME Does([j EXCEPT !.tx.asked = TRUE, !.tx.boot = host.boot], <<"from", "restart", "save">> \o Rest),
             UNCHANGED cause
      PROVE  IInv'
  <2> DEFINE m == [j EXCEPT !.tx.asked = TRUE, !.tx.boot = host.boot]
  <2>1. host.boot \in 1 .. MaxBoots
    BY <1>1 DEF Types, HostType
  <2>2. m \in Journals /\ m.phase = j.phase /\ m.installed = j.installed
        /\ m.seen = j.seen /\ m.floor = j.floor
        /\ m.tx # NoTx /\ m.tx.from = j.tx.from /\ m.tx.to = j.tx.to /\ m.tx.boot = host.boot
    BY <1>1, <2>1, Asked
  <2> HIDE DEF m
  <2>3. Sound(m, disk, agent, host, tried, cause)
    BY <1>1, <2>1, <2>2 DEF Sound, Terminal
  <2>4. Does(m, Todo("return", t))
    BY <1>1, <1>4, Puts DEF m
  <2>5. Agrees("return", t, [job |-> proc.job, todo |-> Todo("return", t), mem |-> m, ok |-> proc.ok],
               journal, disk, host, cause)
    BY <1>1, <2>2, AgreesAfter
  <2>6. QED
    BY <1>1, <1>2, <1>4, <2>2, <2>3, <2>4, <2>5, DecidesDoes, StageNames
<1>5. ASSUME Does(j, Rest), j.tx.boot = host.boot, UNCHANGED cause PROVE IInv'
  <2>1. Does(j, Todo("end", t))
    BY <1>1, <1>5
  <2>2. proc.job # "boot"
    BY <1>1, <1>5
  <2>3. QED
    BY <1>2, <1>5, <2>1, <2>2, DecidesNothing
<1>6. ASSUME Fails(j, TRUE), cause' = TRUE PROVE IInv'
  BY <1>1, <1>2, <1>6, DecidesFails
<1>7. QED
  BY <1>3, <1>4, <1>5, <1>6 DEF Recover

(* The trial is given up: the intention comes first.                       *)
LEMMA RollBackStays ==
  ASSUME IInv, proc.todo # <<>>, NEW t, InStep(t), proc.mem.phase = "trial",
         NEW k \in Journals, k.phase = "trial", k.tx # NoTx, k.tx.to \in Release,
         k.installed = proc.mem.installed, Sound(k, disk, agent, host, tried, cause), RollBack(k),
         proc.job = "boot" => k.tx.boot # host.boot,
         UNCHANGED <<journal, disk, markers, units, agent, host, policy, tried, cause>>
  PROVE  IInv'
<1>1. /\ t \in Endings /\ t \in {"unpend", "both"} /\ Rest = Todo("end", t)
      /\ proc.job = "boot" => (~proc.ok => cause) /\ k.installed = journal.installed
  BY OpenFacts
<1> DEFINE m == [k EXCEPT !.phase = "rollback_intent", !.failed = @ \cup {k.tx.to}]
<1>2. m \in Journals /\ m.phase = "rollback_intent" /\ m.tx = k.tx /\ m.installed = k.installed
      /\ m.seen = k.seen /\ m.floor = k.floor
  BY DEF Journals, Phases
<1>3. Does(m, Todo("intend", t))
  BY <1>1, Puts DEF RollBack
<1> HIDE DEF m
<1>4. Sound(m, disk, agent, host, tried, cause)
  BY <1>2 DEF Sound, Terminal
<1>5. Agrees("intend", t, [job |-> proc.job, todo |-> Todo("intend", t), mem |-> m, ok |-> proc.ok],
             journal, disk, host, cause)
  BY <1>1, <1>2, AgreesAfter
<1>6. units' \in [probe : Unit, stop : Unit]
  BY OpenFacts
<1>7. QED
  BY <1>1, <1>2, <1>3, <1>4, <1>5, <1>6, DecidesDoes, StageNames

LEMMA TrialStays ==
  ASSUME IInv, proc.todo # <<>>, NEW t, InStep(t), proc.mem.phase = "trial", Trial(proc.mem),
         UNCHANGED <<journal, disk, markers, units, agent, host, policy, tried, cause>>
  PROVE  IInv'
<1> DEFINE j == proc.mem
           reset == [j EXCEPT !.tx.stable = 0]
           watched == [j EXCEPT !.tx.stable = agent.inv]
<1>1. /\ Types /\ j \in Journals /\ Sound(j, disk, agent, host, tried, cause)
      /\ t \in Endings /\ t \in {"unpend", "both"} /\ Rest = Todo("end", t)
      /\ j.tx # NoTx /\ j.tx.from = j.installed /\ j.tx.to \in Release
      /\ j.installed = journal.installed /\ j.phase = journal.phase /\ j.tx = journal.tx
      /\ proc.job = "boot" => (~proc.ok => cause) /\ j.installed = journal.installed
                              /\ j.tx.boot # host.boot
  BY OpenFacts
<1>2. units' \in [probe : Unit, stop : Unit]
  BY OpenFacts
<1>3. agent.inv \in 0 .. MaxStarts /\ 0 \in 0 .. MaxStarts
  BY <1>1, UpdaterAssumption DEF Types, AgentType
<1>4. \A k \in {reset, watched} :
        /\ k \in Journals /\ k.phase = j.phase /\ k.installed = j.installed
        /\ k.seen = j.seen /\ k.floor = j.floor
        /\ k.tx # NoTx /\ k.tx.from = j.tx.from /\ k.tx.to = j.tx.to /\ k.tx.boot = j.tx.boot
  <2>1. /\ reset \in Journals /\ reset.phase = j.phase /\ reset.installed = j.installed
          /\ reset.seen = j.seen /\ reset.floor = j.floor
          /\ reset.tx # NoTx /\ reset.tx.from = j.tx.from /\ reset.tx.to = j.tx.to /\ reset.tx.boot = j.tx.boot
    BY <1>1, <1>3, Watched
  <2>2. /\ watched \in Journals /\ watched.phase = j.phase /\ watched.installed = j.installed
          /\ watched.seen = j.seen /\ watched.floor = j.floor
          /\ watched.tx # NoTx /\ watched.tx.from = j.tx.from /\ watched.tx.to = j.tx.to /\ watched.tx.boot = j.tx.boot
    BY <1>1, <1>3, Watched
  <2> HIDE DEF reset, watched
  <2>3. QED
    BY <2>1, <2>2
<1>5. \A k \in {reset, watched} : Sound(k, disk, agent, host, tried, cause)
  <2>1. SUFFICES ASSUME NEW k \in {reset, watched} PROVE Sound(k, disk, agent, host, tried, cause)
    OBVIOUS
  <2>2. /\ k \in Journals /\ k.phase = j.phase /\ k.installed = j.installed
        /\ k.seen = j.seen /\ k.floor = j.floor
        /\ k.tx # NoTx /\ k.tx.from = j.tx.from /\ k.tx.to = j.tx.to /\ k.tx.boot = j.tx.boot
    BY <1>4, <2>1
  <2> HIDE DEF reset, watched
  <2>3. QED
    BY <1>1, <2>2 DEF Sound
<1> HIDE DEF reset, watched
<1>6. ASSUME NEW k \in {j, reset}, RollBack(k) PROVE IInv'
  <2>1. /\ k \in Journals /\ k.phase = "trial" /\ k.tx # NoTx /\ k.tx.to \in Release
        /\ k.installed = j.installed /\ Sound(k, disk, agent, host, tried, cause)
        /\ proc.job = "boot" => k.tx.boot # host.boot
    BY <1>1, <1>4, <1>5, <1>6
  <2>2. QED
    BY <1>6, <2>1, RollBackStays
<1>7. ASSUME NEW k \in {watched, reset}, Does(k, <<"save">> \o Rest), j.tx.boot = host.boot PROVE IInv'
  <2>1. Does(k, Todo("save", t))
    BY <1>1, <1>7, Puts
  <2>2. k \in Journals /\ k.installed = j.installed /\ Sound(k, disk, agent, host, tried, cause)
    BY <1>4, <1>5, <1>7
  <2>3. proc.job # "boot"
    BY <1>1, <1>7
  <2>4. Agrees("save", t, [job |-> proc.job, todo |-> Todo("save", t), mem |-> k, ok |-> proc.ok],
               journal, disk, host, cause)
    BY <1>1, <2>2, <2>3, AgreesAfter
  <2>5. QED
    BY <1>1, <1>2, <2>1, <2>2, <2>4, DecidesDoes, StageNames
<1>8. ASSUME Does([j EXCEPT !.installed = j.tx.to, !.phase = "committed"], <<"save">> \o Rest),
             j.tx.boot = host.boot, Healthy(j.tx.to)
      PROVE  IInv'
  <2> DEFINE m == [j EXCEPT !.installed = j.tx.to, !.phase = "committed"]
  <2>1. m \in Journals /\ m.phase = "committed" /\ m.tx = j.tx /\ m.installed = j.tx.to
        /\ m.seen = j.seen /\ m.floor = j.floor
    BY <1>1 DEF Journals, Phases
  <2>2. Does(m, Todo("save", t))
    BY <1>1, <1>8, Puts
  <2> HIDE DEF m
  <2>3. disk.active = j.tx.to /\ agent.run = j.tx.to
    BY <1>8 DEF Healthy
  <2>4. j.floor \in Int /\ j.installed \in Int /\ j.seen \in Int /\ j.tx.to \in Int /\ j.tx.from \in Int
    BY <1>1, Numbered DEF Journals
  <2>5. Sound(m, disk, agent, host, tried, cause)
    BY <1>1, <2>1, <2>3, <2>4 DEF Sound, Terminal
  <2>6. proc.job # "boot"
    BY <1>1, <1>8
  <2>7. Agrees("save", t, [job |-> proc.job, todo |-> Todo("save", t), mem |-> m, ok |-> proc.ok],
               journal, disk, host, cause)
    BY <1>1, <2>6, AgreesAfter
  <2>8. QED
    BY <1>1, <1>2, <2>1, <2>2, <2>5, <2>7, DecidesDoes, StageNames
<1>9. ASSUME Does(j, Rest), j.tx.boot = host.boot PROVE IInv'
  <2>1. Does(j, Todo("end", t)) /\ proc.job # "boot"
    BY <1>1, <1>9
  <2>2. QED
    BY <1>2, <2>1, DecidesNothing
<1>10. ASSUME Does(reset, <<>> \o Rest), ~(j.tx.stable # 0), j.tx.boot = host.boot PROVE IInv'
  <2>1. reset = j
    BY <1>1, <1>10 DEF reset, Journals, Txs
  <2>2. Does(j, Todo("end", t)) /\ proc.job # "boot"
    BY <1>1, <1>10, <2>1, Puts
  <2>3. QED
    BY <1>2, <2>2, DecidesNothing
<1>11. \/ \E k \in {j, reset} : RollBack(k)
       \/ \E k \in {watched, reset} : Does(k, <<"save">> \o Rest) /\ j.tx.boot = host.boot
       \/ /\ Does([j EXCEPT !.installed = j.tx.to, !.phase = "committed"], <<"save">> \o Rest)
          /\ j.tx.boot = host.boot /\ Healthy(j.tx.to)
       \/ Does(j, Rest) /\ j.tx.boot = host.boot
       \/ Does(reset, <<>> \o Rest) /\ ~(j.tx.stable # 0) /\ j.tx.boot = host.boot
  BY DEF Trial, reset, watched
<1>12. QED
  BY <1>6, <1>7, <1>8, <1>9, <1>10, <1>11

LEMMA ReconcileStays ==
  ASSUME IInv, proc.todo # <<>>, Reconcile
  PROVE  IInv'
<1> DEFINE j == proc.mem
<1>1. UNCHANGED <<journal, disk, markers, agent, host, policy, tried>> /\ Head(proc.todo) = "reconcile"
  BY DEF Reconcile
<1>2. PICK s \in Stages \ {"end"}, t \in Endings :
        /\ proc.todo = Todo(s, t) /\ Agrees(s, t, proc, journal, disk, host, cause)
        /\ First[s] = "reconcile" /\ Rest = Todo(After[s], t)
  BY <1>1, AtStep
<1>3. s = "reconcile" /\ Rest = Todo("end", t)
  BY <1>2, FirstOf
<1>4. t \in {"unpend", "both"}
  BY <1>2, <1>3 DEF Agrees, Endings, Failing
<1>5. InStep(t)
  BY <1>2, <1>3, <1>4 DEF InStep, Ready, Agrees, Ahead, Returning, Looking
<1>6. /\ Types /\ j \in Journals /\ Sound(j, disk, agent, host, tried, cause)
      /\ units \in [probe : Unit, stop : Unit] /\ cause \in BOOLEAN
  BY AtWork DEF Types
<1>7. CASE /\ \/ j.phase = "manual"
              \/ Terminal(j.phase) /\ disk.active # j.installed
              \/ ~Terminal(j.phase) /\ j.phase # "manual" /\ disk.active \notin {j.tx.from, j.tx.to}
              \/ /\ j.phase \in {"prepared", "stopping"}
                 /\ j.tx.boot # host.boot /\ disk.active # j.tx.from
           /\ Fails(j, TRUE)
           /\ UNCHANGED <<units, cause>>
  <2>1. j.phase \in Phases
    BY <1>6 DEF Journals
  <2>2. j.phase = "manual"
    BY <1>6, <1>7, <2>1 DEF Sound, Terminal, Phases
  <2>3. cause
    BY <1>6, <2>2 DEF Sound
  <2>4. QED
    BY <1>1, <1>5, <1>6, <1>7, <2>3, DecidesFails DEF InStep, Ready
<1>8. CASE Terminal(j.phase) /\ disk.active = j.installed /\ Does(j, Rest) /\ UNCHANGED <<units, cause>>
  <2>1. proc.job = "boot" => (~proc.ok => cause) /\ disk.active = journal.installed
    BY <1>5, <1>8 DEF InStep, Ready
  <2>2. Does(j, Todo("end", t)) /\ units' \in [probe : Unit, stop : Unit]
    BY <1>3, <1>6, <1>8
  <2>3. QED
    BY <1>1, <1>5, <1>8, <2>1, <2>2, DecidesNothing
<1>9. CASE j.phase = "prepared" /\ Prepared(j) /\ UNCHANGED cause
  BY <1>1, <1>5, <1>9, PreparedStays
<1>10. CASE j.phase = "stopping" /\ Stopping(j)
  BY <1>1, <1>5, <1>10, StoppingStays
<1>11. CASE j.phase = "trial" /\ Trial(j) /\ UNCHANGED <<units, cause>>
  BY <1>1, <1>5, <1>11, TrialStays
<1>12. CASE j.phase = "rollback_intent" /\ Recover(j) /\ UNCHANGED units
  BY <1>1, <1>5, <1>12, RecoverStays
<1>13. QED
  BY <1>7, <1>8, <1>9, <1>10, <1>11, <1>12 DEF Reconcile

LEMMA RecoverAfterIntentStays ==
  ASSUME IInv, proc.todo # <<>>, RecoverAfterIntent
  PROVE  IInv'
<1>1. UNCHANGED <<journal, disk, markers, units, agent, host, policy, tried>> /\ Head(proc.todo) = "recover"
  BY DEF RecoverAfterIntent
<1>2. PICK s \in Stages \ {"end"}, t \in Endings :
        /\ proc.todo = Todo(s, t) /\ Agrees(s, t, proc, journal, disk, host, cause)
        /\ First[s] = "recover" /\ Rest = Todo(After[s], t)
  BY <1>1, AtStep
<1>3. s = "recover" /\ Rest = Todo("end", t)
  BY <1>2, FirstOf
<1>4. t \in {"unpend", "both"}
  BY <1>2, <1>3 DEF Agrees, Endings, Failing
<1>5. InStep(t) /\ proc.mem.phase = "rollback_intent"
  BY <1>2, <1>3, <1>4 DEF InStep, Ready, Agrees, Ahead, Returning, Looking, Deciding
<1>6. QED
  BY <1>1, <1>5, RecoverStays DEF RecoverAfterIntent

-----------------------------------------------------------------------------
(* Fetching a release and preparing its activation.                        *)

(* What is known of a process that applies a release.                      *)
LEMMA ApplyingFacts ==
  ASSUME IInv, proc.todo # <<>>, NEW w \in {"collect", "fetch", "current", "prepare", "open"},
         Head(proc.todo) = w
  PROVE  /\ Types /\ proc.mem \in Journals /\ Sound(proc.mem, disk, agent, host, tried, cause)
         /\ Sound(journal, disk, agent, host, tried, cause)
         /\ units \in [probe : Unit, stop : Unit] /\ cause \in BOOLEAN /\ disk \in DiskType
         /\ markers \subseteq {"restart", "stop", "preflight"} /\ tried \in 0 .. MaxBoots
         /\ journal \in Journals
         /\ proc.job \notin {"boot", "reconcile"} /\ Terminal(proc.mem.phase)
         /\ proc.mem.phase = journal.phase /\ proc.mem.tx = journal.tx
         /\ proc.mem.installed = journal.installed
         /\ disk.active = proc.mem.installed /\ agent.run \in {0, proc.mem.installed}
         /\ w \in {"current", "prepare", "open"} => proc.mem.seen \in disk.objects
         /\ w = "open" => proc.mem.seen > proc.mem.installed /\ disk.pending
         /\ \E t \in {"unpend", "both"} :
              Rest = Todo(CASE w = "collect" -> "fetch" [] w = "open" -> "opened" [] OTHER -> "end", t)
<1>1. PICK s \in Stages \ {"end"}, t \in Endings :
        /\ proc.todo = Todo(s, t) /\ Agrees(s, t, proc, journal, disk, host, cause)
        /\ First[s] = w /\ Rest = Todo(After[s], t)
  BY AtStep
<1>2. s = w /\ After[s] = CASE w = "collect" -> "fetch" [] w = "open" -> "opened" [] OTHER -> "end"
  BY <1>1, FirstOf
<1>3. t \in {"unpend", "both"} /\ s \in Applying
  BY <1>1, <1>2 DEF Agrees, Endings, Failing, Applying, Fetched, Chosen
<1>4. /\ Types /\ proc.mem \in Journals /\ Sound(proc.mem, disk, agent, host, tried, cause)
      /\ Sound(journal, disk, agent, host, tried, cause)
      /\ units \in [probe : Unit, stop : Unit] /\ cause \in BOOLEAN /\ disk \in DiskType
      /\ markers \subseteq {"restart", "stop", "preflight"} /\ tried \in 0 .. MaxBoots
      /\ journal \in Journals
  BY AtWork DEF Types
<1>5. /\ proc.job \notin {"boot", "reconcile"} /\ Terminal(proc.mem.phase)
      /\ proc.mem.phase = journal.phase /\ proc.mem.tx = journal.tx
      /\ proc.mem.installed = journal.installed
      /\ w \in {"current", "prepare", "open"} => proc.mem.seen \in disk.objects
      /\ w = "open" => proc.mem.seen > proc.mem.installed /\ disk.pending
  BY <1>1, <1>2, <1>3 DEF Agrees, Ahead, Returning, Fetched, Chosen
<1>6. disk.active = proc.mem.installed /\ agent.run \in {0, proc.mem.installed}
  BY <1>4, <1>5 DEF Sound, Terminal
<1>7. QED
  BY <1>1, <1>2, <1>3, <1>4, <1>5, <1>6

(* What Agrees asks while a release is applied.                            *)
LEMMA AgreesApplying ==
  ASSUME NEW t \in {"unpend", "both"}, NEW m, NEW job, NEW todo, NEW ok, NEW j, NEW d, NEW h, NEW c,
         job \notin {"boot", "reconcile"}
  PROVE  LET p == [job |-> job, todo |-> todo, mem |-> m, ok |-> ok]
             synced == m.phase = j.phase /\ m.tx = j.tx /\ m.installed = j.installed
         IN /\ Agrees("save", t, p, j, d, h, c) /\ Agrees("opened", t, p, j, d, h, c)
            /\ synced /\ Terminal(m.phase) =>
                 /\ Agrees("fetch", t, p, j, d, h, c)
                 /\ Agrees("same", t, p, j, d, h, c) /\ Agrees("newer", t, p, j, d, h, c)
                 /\ m.seen \in d.objects /\ m.seen > m.installed => Agrees("candidate", t, p, j, d, h, c)
BY DEF Agrees, Failing, Ahead, Trying, Returning, Deciding, Applying, Fetched, Chosen, Looking

LEMMA CollectStays ==
  ASSUME IInv, proc.todo # <<>>, Collect
  PROVE  IInv'
<1> DEFINE j == proc.mem
<1>1. /\ Types /\ j \in Journals /\ Sound(j, disk, agent, host, tried, cause)
      /\ Sound(journal, disk, agent, host, tried, cause)
      /\ units \in [probe : Unit, stop : Unit] /\ cause \in BOOLEAN /\ disk \in DiskType
      /\ markers \subseteq {"restart", "stop", "preflight"} /\ tried \in 0 .. MaxBoots
      /\ journal \in Journals
      /\ proc.job \notin {"boot", "reconcile"} /\ Terminal(j.phase)
      /\ j.phase = journal.phase /\ j.tx = journal.tx /\ j.installed = journal.installed
      /\ disk.active = j.installed
  BY ApplyingFacts DEF Collect
<1>2. PICK t \in {"unpend", "both"} : Rest = Todo("fetch", t)
  BY ApplyingFacts DEF Collect
<1>3. UNCHANGED <<journal, markers, units, agent, host, policy, tried>>
  BY DEF Collect
<1>4. CASE disk.litter
  <2>1. Fails(j, FALSE) /\ UNCHANGED <<disk, cause>>
    BY <1>4 DEF Collect
  <2>2. QED
    BY <1>1, <1>3, <2>1, DecidesFails
<1>5. CASE ~disk.litter
  <2>1. Does(j, Todo("fetch", t)) /\ UNCHANGED cause
        /\ disk' = [disk EXCEPT !.objects = @ \cap Pins(j)]
    BY <1>2, <1>5 DEF Collect
  <2>2. disk' \in DiskType /\ disk'.active = disk.active /\ disk'.pending = disk.pending
        /\ disk'.latch = disk.latch /\ disk'.objects = disk.objects \cap Pins(j)
    BY <1>1, <2>1 DEF DiskType
  <2>3. Sound(j, disk', agent, host, tried, cause)
    BY <1>1, <2>2 DEF Sound, Pins
  <2>4. Sound(journal, disk', agent, host, tried, cause)
    BY <1>1, <2>2 DEF Sound, Pins
  <2>5. Agrees("fetch", t, [job |-> proc.job, todo |-> Todo("fetch", t), mem |-> j, ok |-> proc.ok],
               journal, disk', host, cause)
    BY <1>1, AgreesApplying
  <2>6. "fetch" \in Stages /\ t \in Endings
    BY DEF Stages, Applying, Endings
  <2>7. PICK u \in Stages, v \in Endings : Stands(u, v)
    BY <1>1, <1>3, <2>1, <2>3, <2>5, <2>6, DoesStands
  <2>8. QED
    BY <1>1, <1>3, <2>1, <2>2, <2>4, <2>7, Proceeds
<1>6. QED
  BY <1>4, <1>5

LEMMA FetchStays ==
  ASSUME IInv, proc.todo # <<>>, Fetch
  PROVE  IInv'
<1> DEFINE j == proc.mem
<1>1. /\ Types /\ j \in Journals /\ Sound(j, disk, agent, host, tried, cause)
      /\ units \in [probe : Unit, stop : Unit] /\ cause \in BOOLEAN
      /\ proc.job \notin {"boot", "reconcile"} /\ Terminal(j.phase)
      /\ j.phase = journal.phase /\ j.tx = journal.tx /\ j.installed = journal.installed
  BY ApplyingFacts DEF Fetch
<1>2. PICK t \in {"unpend", "both"} : Rest = Todo("end", t)
  BY ApplyingFacts DEF Fetch
<1>3. UNCHANGED <<journal, disk, markers, units, agent, host, policy, tried, cause>>
  BY DEF Fetch
<1>4. CASE Fails(j, FALSE)
  BY <1>1, <1>3, <1>4, DecidesFails
<1>5. CASE ~Fails(j, FALSE)
  <2>1. PICK r \in Release, oldest \in Release :
          /\ r >= j.seen /\ oldest <= r /\ oldest <= j.installed
          /\ Does([j EXCEPT !.seen = r, !.floor = IF oldest > @ THEN oldest ELSE @],
                  <<"save", "object", IF r = j.installed THEN "current" ELSE "prepare">> \o Rest)
    BY <1>5 DEF Fetch
  <2> DEFINE m == [j EXCEPT !.seen = r, !.floor = IF oldest > @ THEN oldest ELSE @]
             s == IF r = j.installed THEN "same" ELSE "newer"
  <2>2. m \in Journals /\ m.phase = j.phase /\ m.tx = j.tx /\ m.installed = j.installed
        /\ m.seen = r /\ (m.floor = j.floor \/ m.floor = oldest)
    BY <1>1, <2>1 DEF Journals
  <2>3. Does(m, Todo(s, t))
    BY <1>2, <2>1, Puts DEF Endings
  <2>4. s \in Stages /\ s \in {"same", "newer"} /\ t \in Endings
    BY StageNames DEF Endings
  <2> HIDE DEF m, s
  <2>5. j.floor \in Int /\ j.installed \in Int /\ j.seen \in Int /\ r \in Int /\ oldest \in Int
        /\ (j.tx # NoTx => j.tx.to \in Int)
    BY <1>1, Numbered DEF Journals
  <2>6. Sound(m, disk, agent, host, tried, cause)
    BY <1>1, <2>1, <2>2, <2>5 DEF Sound
  <2>7. Agrees(s, t, [job |-> proc.job, todo |-> Todo(s, t), mem |-> m, ok |-> proc.ok],
               journal, disk, host, cause)
    <3> DEFINE todo == Todo(s, t)
    <3> HIDE DEF todo
    <3>1. /\ Agrees("same", t, [job |-> proc.job, todo |-> todo, mem |-> m, ok |-> proc.ok],
                    journal, disk, host, cause)
          /\ Agrees("newer", t, [job |-> proc.job, todo |-> todo, mem |-> m, ok |-> proc.ok],
                    journal, disk, host, cause)
      BY <1>1, <2>2, AgreesApplying
    <3>2. QED
      BY <2>4, <3>1 DEF todo
  <2>8. QED
    BY <1>1, <1>3, <2>2, <2>3, <2>4, <2>6, <2>7, DecidesDoes
<1>6. QED
  BY <1>4, <1>5

LEMMA CurrentStays ==
  ASSUME IInv, proc.todo # <<>>, Current
  PROVE  IInv'
<1> DEFINE j == proc.mem
           m == Ends(j, "up_to_date")
<1>1. /\ j \in Journals /\ Sound(j, disk, agent, host, tried, cause)
      /\ units \in [probe : Unit, stop : Unit] /\ cause \in BOOLEAN
      /\ proc.job \notin {"boot", "reconcile"}
  BY ApplyingFacts DEF Current
<1>2. PICK t \in {"unpend", "both"} : Rest = Todo("end", t)
  BY ApplyingFacts DEF Current
<1>3. m \in Journals /\ Same(j, m) /\ t \in Endings
  BY <1>1, Ended DEF Endings
<1>4. Does(m, Todo("save", t)) /\ UNCHANGED <<journal, disk, markers, units, agent, host, policy, tried, cause>>
  BY <1>2, <1>3, Puts DEF Current
<1> HIDE DEF m
<1>5. Sound(m, disk, agent, host, tried, cause)
  BY <1>1, <1>3, SoundSame
<1>6. Agrees("save", t, [job |-> proc.job, todo |-> Todo("save", t), mem |-> m, ok |-> proc.ok],
             journal, disk, host, cause)
  BY <1>1, AgreesApplying
<1>7. QED
  BY <1>1, <1>3, <1>4, <1>5, <1>6, DecidesDoes, StageNames

LEMMA PrepareStays ==
  ASSUME IInv, proc.todo # <<>>, Prepare
  PROVE  IInv'
<1> DEFINE j == proc.mem
<1>1. /\ Types /\ j \in Journals /\ Sound(j, disk, agent, host, tried, cause)
      /\ units \in [probe : Unit, stop : Unit] /\ cause \in BOOLEAN
      /\ proc.job \notin {"boot", "reconcile"} /\ Terminal(j.phase)
      /\ j.phase = journal.phase /\ j.tx = journal.tx /\ j.installed = journal.installed
      /\ j.seen \in disk.objects
  BY ApplyingFacts DEF Prepare
<1>2. PICK t \in {"unpend", "both"} : Rest = Todo("end", t)
  BY ApplyingFacts DEF Prepare
<1>3. UNCHANGED <<journal, disk, markers, units, agent, host, policy, tried, cause>>
  BY DEF Prepare
<1>4. CASE Fails(j, FALSE)
  BY <1>1, <1>3, <1>4, DecidesFails
<1>5. CASE ~Fails(j, FALSE)
  <2>1. /\ Does(j, <<"candidate", "pend", "open", "save", "preflight">> \o Rest)
        /\ ~(j.seen <= j.installed)
    BY <1>5 DEF Prepare
  <2>2. Does(j, Todo("candidate", t)) /\ t \in Endings
    BY <1>2, <2>1, Puts DEF Endings
  <2>3. j.seen > j.installed
    <3>1. j.seen \in Release /\ j.installed \in Release
      BY <1>1 DEF Journals
    <3>2. j.seen \in Int /\ j.installed \in Int
      BY <3>1, Numbered
    <3>3. QED
      BY <2>1, <3>2
  <2>4. Agrees("candidate", t, [job |-> proc.job, todo |-> Todo("candidate", t), mem |-> j, ok |-> proc.ok],
               journal, disk, host, cause)
    BY <1>1, <2>3, AgreesApplying
  <2>5. QED
    BY <1>1, <1>3, <2>2, <2>4, DecidesDoes, StageNames
<1>6. QED
  BY <1>4, <1>5

LEMMA OpenStays ==
  ASSUME IInv, proc.todo # <<>>, Open
  PROVE  IInv'
<1> DEFINE i == proc.mem
           j == Bind(i, i.seen)
           x == [from |-> j.installed, to |-> j.seen, boot |-> host.boot,
                 old |-> agent.inv, asked |-> FALSE, stable |-> 0]
           m == [j EXCEPT !.phase = "prepared", !.tx = x]
<1>1. /\ Types /\ i \in Journals /\ Sound(i, disk, agent, host, tried, cause)
      /\ units \in [probe : Unit, stop : Unit] /\ cause \in BOOLEAN
      /\ proc.job \notin {"boot", "reconcile"}
      /\ disk.active = i.installed /\ agent.run \in {0, i.installed}
      /\ i.seen \in disk.objects /\ i.seen > i.installed /\ disk.pending
  BY ApplyingFacts DEF Open
<1>2. PICK t \in {"unpend", "both"} : Rest = Todo("opened", t)
  BY ApplyingFacts DEF Open
<1>3. i.seen \in Release /\ i.installed \in Release
  BY <1>1 DEF Journals
<1>4. j \in Journals /\ Same(i, j)
  BY <1>1, <1>3, Bound
<1>5. /\ UNCHANGED <<journal, disk, markers, agent, host, policy, tried, cause>>
      /\ Does(m, Todo("opened", t)) /\ t \in Endings
      /\ units' = [units EXCEPT !.probe.fresh = FALSE]
  BY <1>2 DEF Open, Endings
<1> HIDE DEF j
<1>6. host.boot \in 1 .. MaxBoots /\ agent.inv \in 0 .. MaxStarts /\ 0 \in 0 .. MaxStarts
  BY <1>1, UpdaterAssumption DEF Types, HostType, AgentType
<1>7. x \in TxRecord /\ x.from = j.installed /\ x.to = j.seen /\ x.boot = host.boot
  BY <1>3, <1>4, <1>6 DEF TxRecord, Same
<1> HIDE DEF x
<1>8. m \in Journals /\ m.phase = "prepared" /\ m.tx = x /\ m.tx # NoTx
      /\ m.installed = j.installed /\ m.seen = j.seen /\ m.floor = j.floor
  BY <1>4, <1>7, Opened
<1> HIDE DEF m
<1>9. Sound(m, disk, agent, host, tried, cause)
  <2>1. m.tx.from < m.tx.to /\ m.tx.to <= m.seen /\ m.tx.boot <= host.boot
    <3>1. i.seen \in Int /\ i.installed \in Int /\ host.boot \in Int
      <4>1. i.seen \in Int /\ i.installed \in Int
        BY <1>3, Numbered
      <4>2. \A n \in 1 .. MaxBoots : n \in Int
        OBVIOUS
      <4>3. QED
        BY <1>6, <4>1, <4>2
    <3>2. m.tx.from = i.installed /\ m.tx.to = i.seen /\ m.tx.boot = host.boot /\ m.seen = i.seen
      BY <1>4, <1>7, <1>8 DEF Same
    <3>3. QED
      BY <1>1, <3>1, <3>2
  <2>2. QED
    BY <1>1, <1>4, <1>7, <1>8, <2>1 DEF Sound, Same, Terminal
<1>10. Agrees("opened", t, [job |-> proc.job, todo |-> Todo("opened", t), mem |-> m, ok |-> proc.ok],
              journal, disk, host, cause)
  BY <1>1, AgreesApplying
<1>11. units' \in [probe : Unit, stop : Unit]
  BY <1>1, <1>5, UnitChanges
<1>12. QED
  BY <1>5, <1>8, <1>9, <1>10, <1>11, DecidesDoes, StageNames

LEMMA RecoverDownloadStays ==
  ASSUME IInv, proc.todo # <<>>, RecoverDownload
  PROVE  IInv'
<1> DEFINE j == proc.mem
<1>1. UNCHANGED <<journal, disk, markers, units, agent, host, policy, tried, cause>>
      /\ Head(proc.todo) = "downloads"
  BY DEF RecoverDownload
<1>2. PICK s \in Stages \ {"end"}, t \in Endings :
        /\ proc.todo = Todo(s, t) /\ Agrees(s, t, proc, journal, disk, host, cause)
        /\ First[s] = "downloads" /\ Rest = Todo(After[s], t)
  BY <1>1, AtStep
<1>3. s = "look" /\ Rest = Todo("reconcile", t)
  BY <1>2, FirstOf
<1>4. t \in {"unpend", "both"}
  BY <1>2, <1>3 DEF Agrees, Endings, Failing
<1>5. /\ j \in Journals /\ Sound(j, disk, agent, host, tried, cause)
      /\ units \in [probe : Unit, stop : Unit] /\ cause \in BOOLEAN
  BY AtWork DEF Types
<1>6. /\ j.phase = journal.phase /\ j.tx = journal.tx /\ j.installed = journal.installed
      /\ proc.job = "boot" => (~proc.ok => cause) /\ (j.tx = NoTx \/ j.tx.boot # host.boot)
  BY <1>2, <1>3, <1>4 DEF Agrees, Ahead, Returning, Looking
<1>7. ASSUME NEW m \in Journals, Same(j, m), NEW u \in {"ended", "reconcile"}, Does(m, Todo(u, t)) PROVE IInv'
  <2>1. Sound(m, disk, agent, host, tried, cause)
    BY <1>5, <1>7, SoundSame
  <2>2. Agrees(u, t, [job |-> proc.job, todo |-> Todo(u, t), mem |-> m, ok |-> proc.ok],
               journal, disk, host, cause)
    <3> DEFINE todo == Todo(u, t)
    <3> HIDE DEF todo
    <3>1. Agrees(u, t, [job |-> proc.job, todo |-> todo, mem |-> m, ok |-> proc.ok],
                 journal, disk, host, cause)
      BY <1>4, <1>6, <1>7 DEF Agrees, Same, Failing, Ahead, Trying, Returning, Deciding, Applying, Fetched, Chosen, Looking
    <3>2. QED
      BY <3>1 DEF todo
  <2>3. QED
    BY <1>1, <1>4, <1>5, <1>7, <2>1, <2>2, DecidesDoes, StageNames
<1>8. CASE Terminal(j.phase) /\ Unbound(j)
  <2>1. Ends(j, "failed") \in Journals /\ Same(j, Ends(j, "failed"))
    BY <1>5, Ended
  <2>2. Does(Ends(j, "failed"), Todo("ended", t))
    BY <1>3, <1>8, Puts DEF RecoverDownload
  <2>3. QED
    BY <1>7, <2>1, <2>2
<1>9. CASE ~(Terminal(j.phase) /\ Unbound(j))
  <2>1. Does(j, Todo("reconcile", t))
    BY <1>3, <1>9 DEF RecoverDownload
  <2>2. QED
    BY <1>5, <1>7, <2>1 DEF Same
<1>10. QED
  BY <1>8, <1>9

LEMMA ResultStays ==
  ASSUME IInv, proc.todo # <<>>, Result
  PROVE  IInv'
<1>1. UNCHANGED <<journal, disk, markers, units, agent, host, policy, tried, cause>>
      /\ Head(proc.todo) = "result"
  BY DEF Result
<1>2. PICK s \in Stages, t \in Endings :
        proc.todo = Todo(s, t) /\ Agrees(s, t, proc, journal, disk, host, cause)
  BY AtWork
<1>3. s = "end"
  BY <1>1, <1>2, Steps, FirstOf
<1>4. t = "result"
  BY <1>1, <1>2, <1>3, LastSteps DEF Endings
<1>5. Rest = Todo("end", "none")
  BY <1>2, <1>3, <1>4, LastSteps DEF Rest, Endings
<1>6. /\ journal \in Journals /\ Sound(journal, disk, agent, host, tried, cause)
      /\ units \in [probe : Unit, stop : Unit] /\ cause \in BOOLEAN /\ "none" \in Endings
  BY AtWork DEF Types, Endings
<1>7. proc.job = "boot" => (~proc.ok => cause) /\ (proc.ok => disk.active = journal.installed)
  BY <1>2, <1>3 DEF Agrees, Looking, Deciding
<1>8. ASSUME NEW m \in Journals, Same(journal, m), NEW u \in {"end", "save"}, Does(m, Todo(u, "none"))
      PROVE  IInv'
  <2>1. Sound(m, disk, agent, host, tried, cause)
    BY <1>6, <1>8, SoundSame
  <2>2. Agrees(u, "none", [job |-> proc.job, todo |-> Todo(u, "none"), mem |-> m, ok |-> proc.ok],
               journal, disk, host, cause)
    <3> DEFINE todo == Todo(u, "none")
    <3> HIDE DEF todo
    <3>1. Agrees(u, "none", [job |-> proc.job, todo |-> todo, mem |-> m, ok |-> proc.ok],
                 journal, disk, host, cause)
      BY <1>7, <1>8 DEF Agrees, Same, Failing, Ahead, Trying, Returning, Deciding, Applying, Fetched, Chosen, Looking
    <3>2. QED
      BY <3>1 DEF todo
  <2>3. QED
    BY <1>1, <1>6, <1>8, <2>1, <2>2, DecidesDoes, StageNames
<1>9. Same(journal, journal)
  BY DEF Same
<1>10. CASE ~Loads(journal)
  <2>1. Does(journal, Todo("end", "none"))
    BY <1>5, <1>10 DEF Result
  <2>2. QED
    BY <1>6, <1>8, <1>9, <2>1
<1>11. CASE Loads(journal)
  <2>1. PICK status \in {"failed", "up_to_date", "none"} :
          Does(IF status = "none" \/ journal.remote = NoRemote THEN journal
               ELSE [journal EXCEPT !.remote.status = status], <<"save">> \o Rest)
    <3>1. (IF ~proc.ok THEN "failed"
           ELSE IF journal.remote # NoRemote /\ journal.remote.target = 0 THEN "up_to_date"
           ELSE "none") \in {"failed", "up_to_date", "none"}
      OBVIOUS
    <3>2. QED
      BY <1>11, <3>1 DEF Result
  <2>2. <<"save">> \o Rest = Todo("save", "none")
    BY <1>5, <1>6, Puts
  <2>3. CASE status = "none" \/ journal.remote = NoRemote
    BY <1>6, <1>8, <1>9, <2>1, <2>2, <2>3
  <2>4. CASE status # "none" /\ journal.remote # NoRemote
    <3> DEFINE m == [journal EXCEPT !.remote.status = status]
    <3>1. m \in Journals /\ Same(journal, m)
      BY <1>6, <2>4, Reported
    <3>2. Does(m, Todo("save", "none"))
      BY <2>1, <2>2, <2>4
    <3> HIDE DEF m
    <3>3. QED
      BY <1>8, <3>1, <3>2
  <2>5. QED
    BY <2>3, <2>4
<1>12. QED
  BY <1>10, <1>11

-----------------------------------------------------------------------------
(* The durable changes.                                                    *)

(* Which stages begin with a durable change, and what is left after it.    *)
LEMMA EffectOf ==
  ASSUME NEW s \in Stages \ {"end"}
  PROVE  /\ First[s] = "to" => s = "point" /\ After[s] = "restart"
         /\ First[s] = "from" => s = "return" /\ After[s] = "returned"
         /\ First[s] = "candidate" => s = "candidate" /\ After[s] = "pend"
         /\ First[s] = "pend" => (s = "take" /\ After[s] = "claim") \/ (s = "pend" /\ After[s] = "open")
         /\ First[s] = "object" => \/ s = "samefile" /\ After[s] = "current"
                                   \/ s = "newfile" /\ After[s] = "prepare"
         /\ First[s] = "clear" => (s = "clear" /\ After[s] = "end") \/ (s = "boot" /\ After[s] = "look")
         /\ First[s] = "restart" => \/ s = "restart" /\ After[s] = "end"
                                    \/ s = "returned" /\ After[s] = "save"
         /\ First[s] = "stop" => s = "stop" /\ After[s] = "end"
         /\ First[s] = "preflight" => s = "preflight" /\ After[s] = "end"
         /\ First[s] = "latch!" => s = "latch" /\ After[s] = "end"
         /\ First[s] = "save!" => s = "fail" /\ After[s] = "latch"
         /\ First[s] # "unpend"
BY DEF First, After, Stages, Lone, Looking, Deciding, Trying, Applying, Fetched, Chosen, Failing, Ahead, Returning

LEMMA SavesOf ==
  ASSUME NEW s \in Stages \ {"end"}, First[s] = "save"
  PROVE  \/ s = "ended" /\ After[s] = "reconcile"
         \/ s = "save" /\ After[s] = "end"
         \/ s = "halt" /\ After[s] = "stop"
         \/ s = "try" /\ After[s] = "point"
         \/ s = "intend" /\ After[s] = "recover"
         \/ s = "claim" /\ After[s] = "collect"
         \/ s = "same" /\ After[s] = "samefile"
         \/ s = "newer" /\ After[s] = "newfile"
         \/ s = "opened" /\ After[s] = "preflight"
BY DEF First, After, Stages, Lone, Looking, Deciding, Trying, Applying, Fetched, Chosen, Failing, Ahead, Returning

(* The stage the process is in when its first step is a durable change.    *)
LEMMA AtEffect ==
  ASSUME IInv, proc.todo # <<>>, Head(proc.todo) \in Effects
  PROVE  \E s \in Stages, t \in Endings :
           /\ proc.todo = Todo(s, t) /\ Agrees(s, t, proc, journal, disk, host, cause)
           /\ IF s = "end"
              THEN /\ t \in {"unpend", "both"} /\ Head(proc.todo) = "unpend"
                   /\ Rest = Todo("end", IF t = "both" THEN "result" ELSE "none")
              ELSE First[s] = Head(proc.todo) /\ Rest = Todo(After[s], t) /\ After[s] \in Stages
<1>1. PICK s \in Stages, t \in Endings :
        proc.todo = Todo(s, t) /\ Agrees(s, t, proc, journal, disk, host, cause)
  BY AtWork
<1>2. CASE s = "end"
  <2>1. t # "result" /\ t # "none"
    BY <1>1, <1>2, LastSteps DEF Effects, Endings
  <2>2. t \in {"unpend", "both"}
    BY <2>1 DEF Endings
  <2>3. QED
    BY <1>1, <1>2, <2>2, LastSteps DEF Rest
<1>3. CASE s # "end"
  <2>1. Head(proc.todo) = First[s] /\ Tail(proc.todo) = Todo(After[s], t) /\ After[s] \in Stages
    BY <1>1, <1>3, Steps
  <2>2. QED
    BY <1>1, <1>3, <2>1 DEF Rest
<1>4. QED
  BY <1>2, <1>3

(* What the change makes of the files, or what is left when it was refused.*)
MadeOf(effect) ==
  /\ journal' \in Journals /\ Sound(journal', disk', agent', host', tried', cause')
  /\ Sound(proc.mem, disk', agent', host', tried', cause')
  /\ disk' \in DiskType /\ markers' \subseteq {"restart", "stop", "preflight"} /\ tried' \in 0 .. MaxBoots
  /\ disk'.latch => disk.latch \/ cause'
  /\ proc.job = "boot" => proc.mem.installed = journal'.installed

LEMMA Refused ==
  ASSUME IInv, proc.todo # <<>>, NEW effect, UNCHANGED <<journal, disk, markers, tried, agent, host>>,
         cause => cause', \E s \in Stages, t \in Endings : Agrees(s, t, proc, journal, disk, host, cause)
  PROVE  MadeOf(effect)
<1>1. /\ Types /\ Sound(journal, disk, agent, host, tried, cause)
      /\ Sound(proc.mem, disk, agent, host, tried, cause)
  BY AtWork
<1>2. /\ Sound(journal', disk', agent', host', tried', cause')
      /\ Sound(proc.mem, disk', agent', host', tried', cause')
  BY <1>1, SoundStays
<1>3. proc.job = "boot" => proc.mem.installed = journal.installed
  BY DEF Agrees
<1>4. QED
  BY <1>1, <1>2, <1>3 DEF MadeOf, Types

LEMMA Made ==
  ASSUME IInv, proc.todo # <<>>, Head(proc.todo) \in Effects, Makes(Head(proc.todo)),
         UNCHANGED <<agent, host>>, cause => cause'
  PROVE  MadeOf(Head(proc.todo))
<1> DEFINE effect == Head(proc.todo)
           m == proc.mem
<1>1. /\ Types /\ m \in Journals /\ Sound(m, disk, agent, host, tried, cause)
      /\ Sound(journal, disk, agent, host, tried, cause)
  BY AtWork
<1>2. PICK s \in Stages, t \in Endings :
        /\ proc.todo = Todo(s, t) /\ Agrees(s, t, proc, journal, disk, host, cause)
        /\ IF s = "end"
           THEN /\ t \in {"unpend", "both"} /\ Head(proc.todo) = "unpend"
                /\ Rest = Todo("end", IF t = "both" THEN "result" ELSE "none")
           ELSE First[s] = Head(proc.todo) /\ Rest = Todo(After[s], t) /\ After[s] \in Stages
  BY AtEffect
<1>3. /\ journal \in Journals /\ disk \in DiskType /\ markers \subseteq {"restart", "stop", "preflight"}
      /\ tried \in 0 .. MaxBoots /\ host.boot \in 0 .. MaxBoots
      /\ m.seen \in Release
      /\ (m.tx # NoTx => m.tx.to \in Release /\ m.tx.from \in Release)
  <2>1. host.boot \in 0 .. MaxBoots
    <3>1. host.boot \in 1 .. MaxBoots /\ MaxBoots \in Nat
      BY <1>1, UpdaterAssumption DEF Types, HostType
    <3>2. QED
      BY <3>1
  <2>2. QED
    BY <1>1, <2>1, Numbered DEF Types, Journals
<1>4. markers' \subseteq {"restart", "stop", "preflight"}
  BY <1>3 DEF Makes
<1>5. proc.job = "boot" => m.installed = journal.installed
  BY <1>2 DEF Agrees
<1>6. CASE effect \in {"save", "save!"}
  <2>1. journal' = Snapshot(m) /\ UNCHANGED <<disk, tried>>
    BY <1>6 DEF Makes
  <2>2. journal' \in Journals /\ Same(m, journal')
    BY <1>1, <2>1, Snapshots
  <2>3. Sound(m, disk', agent', host', tried', cause')
    BY <1>1, <2>1, SoundStays
  <2>4. Sound(journal', disk', agent', host', tried', cause')
    BY <2>2, <2>3, SoundSame
  <2>5. QED
    BY <1>3, <1>4, <2>1, <2>2, <2>3, <2>4 DEF MadeOf, Same
<1>7. CASE effect = "to"
  <2>1. s = "point" /\ m.phase = "trial"
    BY <1>2, <1>7, EffectOf DEF Agrees, Trying
  <2>2. t \in {"unpend", "both"}
    BY <1>2, <2>1 DEF Agrees, Endings, Failing
  <2>3. journal.phase = "trial" /\ journal.tx = m.tx /\ journal.installed = m.installed
    BY <1>2, <2>1, <2>2 DEF Agrees, Ahead, Returning
  <2>4. m.tx # NoTx
    BY <1>1, <2>1 DEF Sound
  <2>5. /\ UNCHANGED journal /\ tried' = host.boot /\ disk' \in DiskType
        /\ disk'.active = m.tx.to /\ disk'.objects = disk.objects /\ disk'.pending = disk.pending
        /\ disk'.latch = disk.latch
    BY <1>3, <1>7, <2>4 DEF Makes, DiskType
  <2>6. Sound(m, disk', agent', host', tried', cause')
    BY <1>1, <2>1, <2>4, <2>5 DEF Sound, Terminal
  <2>7. Sound(journal, disk', agent', host', tried', cause')
    BY <1>1, <2>3, <2>4, <2>5 DEF Sound, Terminal
  <2>8. QED
    BY <1>3, <1>4, <1>5, <2>5, <2>6, <2>7 DEF MadeOf
<1>8. CASE effect = "from"
  <2>1. s = "return" /\ m.phase = "rollback_intent" /\ journal.phase = "rollback_intent"
        /\ m.installed = journal.installed
    BY <1>2, <1>8, EffectOf DEF Agrees, Returning
  <2>2. m.tx # NoTx /\ m.tx.from = m.installed
    BY <1>1, <2>1 DEF Sound
  <2>3. /\ UNCHANGED <<journal, tried>> /\ disk' \in DiskType
        /\ disk'.active = m.installed /\ disk'.objects = disk.objects /\ disk'.pending = disk.pending
        /\ disk'.latch = disk.latch
    BY <1>3, <1>8, <2>2 DEF Makes, DiskType
  <2>4. Sound(m, disk', agent', host', tried', cause')
    BY <1>1, <2>1, <2>2, <2>3 DEF Sound, Terminal
  <2>5. Sound(journal, disk', agent', host', tried', cause')
    BY <1>1, <2>1, <2>3 DEF Sound, Terminal
  <2>6. QED
    BY <1>3, <1>4, <1>5, <2>3, <2>4, <2>5 DEF MadeOf
<1>9. CASE effect = "unpend"
  <2>1. s = "end" /\ t \in {"unpend", "both"}
    BY <1>2, <1>9, EffectOf
  <2>2. m.phase = journal.phase
    BY <1>2, <2>1 DEF Agrees, Ahead, Returning
  <2>3. /\ UNCHANGED <<journal, tried>>
        /\ disk' = [disk EXCEPT !.pending = @ /\ ~Terminal(m.phase)]
    BY <1>9 DEF Makes
  <2>4. /\ disk' \in DiskType
        /\ disk'.active = disk.active /\ disk'.objects = disk.objects /\ disk'.latch = disk.latch
        /\ disk'.pending = (disk.pending /\ ~Terminal(m.phase))
    BY <1>3, <2>3 DEF DiskType
  <2>5. Sound(m, disk', agent', host', tried', cause')
    BY <1>1, <2>3, <2>4 DEF Sound
  <2>6. Sound(journal, disk', agent', host', tried', cause')
    BY <1>1, <2>2, <2>3, <2>4 DEF Sound, Terminal
  <2>7. QED
    BY <1>3, <1>4, <1>5, <2>3, <2>4, <2>5, <2>6 DEF MadeOf
<1>10. CASE effect \in {"candidate", "pend", "object", "latch!", "clear", "restart", "stop", "preflight"}
  <2>1. effect = "latch!" => cause
    BY <1>2, EffectOf DEF Agrees, Failing
  <2>2. UNCHANGED <<journal, tried>>
    BY <1>10 DEF Makes
  <2>3. /\ disk' \in DiskType
        /\ disk'.active = disk.active /\ disk.objects \subseteq disk'.objects
        /\ disk.pending => disk'.pending
        /\ disk'.latch => disk.latch \/ effect = "latch!"
    <3>1. CASE effect = "candidate"
      BY <1>3, <3>1 DEF Makes, DiskType
    <3>2. CASE effect = "pend"
      BY <1>3, <3>2 DEF Makes, DiskType
    <3>3. CASE effect = "object"
      BY <1>3, <3>3 DEF Makes, DiskType
    <3>4. CASE effect = "latch!"
      BY <1>3, <3>4 DEF Makes, DiskType
    <3>5. CASE effect \in {"clear", "restart", "stop", "preflight"}
      <4>1. disk' = disk
        BY <3>5 DEF Makes
      <4>2. QED
        BY <1>3, <4>1
    <3>6. QED
      BY <1>10, <3>1, <3>2, <3>3, <3>4, <3>5
  <2>4. Sound(m, disk', agent', host', tried', cause')
    BY <1>1, <2>2, <2>3, SoundStays
  <2>5. Sound(journal, disk', agent', host', tried', cause')
    BY <1>1, <2>2, <2>3, SoundStays
  <2>6. QED
    BY <1>3, <1>4, <1>5, <2>1, <2>2, <2>3, <2>4, <2>5 DEF MadeOf
<1>11. QED
  BY <1>6, <1>7, <1>8, <1>9, <1>10 DEF Effects

(* After the change the process stands in the stage that is left.          *)
LEMMA AgreesNext ==
  ASSUME IInv, proc.todo # <<>>, Head(proc.todo) \in Effects, Makes(Head(proc.todo)),
         UNCHANGED <<agent, host>>, cause => cause', NEW s \in Stages, NEW t \in Endings,
         Agrees(s, t, proc, journal, disk, host, cause),
         NEW p, p.job = proc.job, p.ok = proc.ok, p.mem = proc.mem
  PROVE  /\ s # "end" /\ First[s] = Head(proc.todo) => Agrees(After[s], t, p, journal', disk', host', cause')
         /\ s = "end" /\ t \in {"unpend", "both"} /\ Head(proc.todo) = "unpend" =>
              Agrees("end", IF t = "both" THEN "result" ELSE "none", p, journal', disk', host', cause')
<1> DEFINE effect == Head(proc.todo)
           m == proc.mem
<1> USE DEF Agrees, Failing, Ahead, Trying, Returning, Deciding, Applying, Fetched, Chosen, Looking, Endings
<1>1. /\ m \in Journals /\ disk \in DiskType /\ Sound(m, disk, agent, host, tried, cause)
  BY AtWork DEF Types
<1>2. CASE s # "end" /\ First[s] = "save" /\ effect = "save"
  <2>1. journal' = Snapshot(m) /\ UNCHANGED disk
    BY <1>2 DEF Makes
  <2>2. m.phase = journal'.phase /\ m.tx = journal'.tx /\ m.installed = journal'.installed
    BY <1>1, <2>1, Snapshots DEF Same
  <2>3. \/ s = "ended" /\ After[s] = "reconcile"
        \/ s = "save" /\ After[s] = "end"
        \/ s = "halt" /\ After[s] = "stop"
        \/ s = "try" /\ After[s] = "point"
        \/ s = "intend" /\ After[s] = "recover"
        \/ s = "claim" /\ After[s] = "collect"
        \/ s = "same" /\ After[s] = "samefile"
        \/ s = "newer" /\ After[s] = "newfile"
        \/ s = "opened" /\ After[s] = "preflight"
    BY <1>2, SavesOf
  <2>4. QED
    BY <1>2, <2>1, <2>2, <2>3
<1>3. CASE s # "end" /\ First[s] = "save!" /\ effect = "save!"
  <2>1. journal' = Snapshot(m) /\ UNCHANGED disk
    BY <1>3 DEF Makes
  <2>2. m.phase = journal'.phase /\ m.tx = journal'.tx /\ m.installed = journal'.installed
    BY <1>1, <2>1, Snapshots DEF Same
  <2>3. s = "fail" /\ After[s] = "latch"
    BY <1>3, EffectOf
  <2>4. QED
    BY <1>3, <2>1, <2>2, <2>3
<1>4. CASE s # "end" /\ First[s] = "to" /\ effect = "to"
  <2>1. s = "point" /\ After[s] = "restart" /\ UNCHANGED journal
    BY <1>4, EffectOf DEF Makes
  <2>2. QED
    BY <1>4, <2>1
<1>5. CASE s # "end" /\ First[s] = "from" /\ effect = "from"
  <2>1. s = "return" /\ After[s] = "returned" /\ UNCHANGED journal
        /\ disk' = [disk EXCEPT !.active = m.tx.from]
    BY <1>5, EffectOf DEF Makes
  <2>2. m.tx.from = m.installed
    BY <1>1, <2>1 DEF Sound
  <2>3. disk'.active = m.installed
    BY <1>1, <2>1, <2>2 DEF DiskType
  <2>4. QED
    BY <1>5, <2>1, <2>3
<1>6. CASE s # "end" /\ First[s] = "pend" /\ effect = "pend"
  <2>1. UNCHANGED journal /\ disk' = [disk EXCEPT !.pending = TRUE]
    BY <1>6 DEF Makes
  <2>2. disk'.pending /\ disk'.active = disk.active /\ disk'.objects = disk.objects
    BY <1>1, <2>1 DEF DiskType
  <2>3. (s = "take" /\ After[s] = "claim") \/ (s = "pend" /\ After[s] = "open")
    BY <1>6, EffectOf
  <2>4. QED
    BY <1>6, <2>1, <2>2, <2>3
<1>7. CASE s # "end" /\ First[s] = "object" /\ effect = "object"
  <2>1. UNCHANGED journal /\ disk' = [disk EXCEPT !.objects = @ \cup {m.seen}]
    BY <1>7 DEF Makes
  <2>2. disk'.active = disk.active /\ m.seen \in disk'.objects
    BY <1>1, <2>1 DEF DiskType
  <2>3. (s = "samefile" /\ After[s] = "current") \/ (s = "newfile" /\ After[s] = "prepare")
    BY <1>7, EffectOf
  <2>4. QED
    BY <1>7, <2>1, <2>2, <2>3
<1>8. CASE s # "end" /\ First[s] = "candidate" /\ effect = "candidate"
  <2>1. s = "candidate" /\ After[s] = "pend" /\ UNCHANGED journal
        /\ disk' = [disk EXCEPT !.candidate = m.seen]
    BY <1>8, EffectOf DEF Makes
  <2>2. disk'.active = disk.active /\ disk'.objects = disk.objects
    BY <1>1, <2>1 DEF DiskType
  <2>3. QED
    BY <1>8, <2>1, <2>2
<1>9. CASE s # "end" /\ First[s] = "latch!" /\ effect = "latch!"
  <2>1. s = "latch" /\ After[s] = "end" /\ UNCHANGED journal
        /\ disk' = [disk EXCEPT !.latch = TRUE]
    BY <1>9, EffectOf DEF Makes
  <2>2. disk'.active = disk.active /\ disk'.objects = disk.objects
    BY <1>1, <2>1 DEF DiskType
  <2>3. QED
    BY <1>9, <2>1, <2>2
<1>10. CASE /\ s # "end" /\ First[s] = effect
            /\ effect \in {"clear", "restart", "stop", "preflight"}
  <2>1. UNCHANGED <<journal, disk>>
    BY <1>10 DEF Makes
  <2>2. \/ s \in {"clear", "restart", "stop", "preflight"} /\ After[s] = "end"
        \/ s = "boot" /\ After[s] = "look"
        \/ s = "returned" /\ After[s] = "save"
    BY <1>10, EffectOf
  <2>3. QED
    BY <2>1, <2>2
<1>11. CASE s = "end" /\ t \in {"unpend", "both"} /\ effect = "unpend"
  <2>1. UNCHANGED journal /\ disk' = [disk EXCEPT !.pending = @ /\ ~Terminal(m.phase)]
    BY <1>11 DEF Makes
  <2>2. disk'.active = disk.active
    BY <1>1, <2>1 DEF DiskType
  <2>3. QED
    BY <1>11, <2>1, <2>2
<1>12. s # "end" => First[s] # "unpend"
  BY EffectOf
<1>13. QED
  BY <1>2, <1>3, <1>4, <1>5, <1>6, <1>7, <1>8, <1>9, <1>10, <1>11, <1>12 DEF Effects

LEMMA StepStays ==
  ASSUME IInv, proc.todo # <<>>, Step
  PROVE  IInv'
<1>1. /\ Head(proc.todo) \in Effects /\ Makes(Head(proc.todo)) /\ Does(proc.mem, Rest)
      /\ UNCHANGED <<units, agent, host, policy, cause>>
  BY DEF Step
<1>2. PICK s \in Stages, t \in Endings :
        /\ proc.todo = Todo(s, t) /\ Agrees(s, t, proc, journal, disk, host, cause)
        /\ IF s = "end"
           THEN /\ t \in {"unpend", "both"} /\ Head(proc.todo) = "unpend"
                /\ Rest = Todo("end", IF t = "both" THEN "result" ELSE "none")
           ELSE First[s] = Head(proc.todo) /\ Rest = Todo(After[s], t) /\ After[s] \in Stages
  BY <1>1, AtEffect
<1>3. MadeOf(Head(proc.todo))
  BY <1>1, Made
<1>4. /\ Types /\ proc.mem \in Journals
  BY AtWork
<1>5. /\ proc'.job = proc.job /\ proc'.ok = proc.ok /\ proc'.mem = proc.mem /\ proc'.todo = Rest
      /\ proc' = [job |-> proc'.job, todo |-> proc'.todo, mem |-> proc'.mem, ok |-> proc'.ok]
      /\ proc'.ok \in BOOLEAN
  BY <1>1, <1>4, DoesFacts
<1>6. \E u \in Stages, v \in Endings : Stands(u, v)
  <2>1. ASSUME NEW u \in Stages, NEW v \in Endings, Rest = Todo(u, v),
               Agrees(u, v, proc', journal', disk', host', cause')
        PROVE  Stands(u, v)
    BY <1>3, <1>4, <1>5, <2>1 DEF Stands, MadeOf
  <2>2. CASE s = "end"
    <3> DEFINE v == IF t = "both" THEN "result" ELSE "none"
    <3>1. Agrees("end", v, proc', journal', disk', host', cause')
      BY <1>1, <1>2, <1>5, <2>2, AgreesNext
    <3>2. v \in Endings /\ "end" \in Stages /\ Rest = Todo("end", v)
      BY <1>2, <2>2, StageNames DEF Endings
    <3> HIDE DEF v
    <3>3. QED
      BY <2>1, <3>1, <3>2
  <2>3. CASE s # "end"
    <3>1. Agrees(After[s], t, proc', journal', disk', host', cause')
      BY <1>1, <1>2, <1>5, <2>3, AgreesNext
    <3>2. QED
      BY <1>2, <2>1, <2>3, <3>1
  <2>4. QED
    BY <2>2, <2>3
<1>7. units' \in [probe : Unit, stop : Unit] /\ cause' \in BOOLEAN /\ (cause => cause')
  BY <1>1, <1>4 DEF Types
<1>8. QED
  BY <1>1, <1>3, <1>6, <1>7, Proceeds DEF MadeOf

LEMMA StepFailsStays ==
  ASSUME IInv, proc.todo # <<>>, StepFails
  PROVE  IInv'
<1>1. /\ Head(proc.todo) \in Effects /\ Costs
      /\ Makes(Head(proc.todo)) \/ UNCHANGED <<journal, disk, markers, tried>>
      /\ IF Head(proc.todo) \in {"save!", "latch!"} THEN Does(proc.mem, Rest)
         ELSE Stops \/ Fails(proc.mem, FALSE)
      /\ UNCHANGED <<units, agent, host, policy>>
  BY DEF StepFails
<1>2. PICK s \in Stages, t \in Endings :
        /\ proc.todo = Todo(s, t) /\ Agrees(s, t, proc, journal, disk, host, cause)
        /\ IF s = "end"
           THEN /\ t \in {"unpend", "both"} /\ Head(proc.todo) = "unpend"
                /\ Rest = Todo("end", IF t = "both" THEN "result" ELSE "none")
           ELSE First[s] = Head(proc.todo) /\ Rest = Todo(After[s], t) /\ After[s] \in Stages
  BY <1>1, AtEffect
<1>0. cause' \in BOOLEAN /\ (cause => cause') /\ (proc.job = "boot" => cause')
  BY <1>1, CostsFacts
<1>3. MadeOf(Head(proc.todo))
  BY <1>0, <1>1, <1>2, Made, Refused
<1>4. Types /\ proc.mem \in Journals
  BY AtWork
<1>5. \E u \in Stages, v \in Endings : Stands(u, v)
  <2>0. Sound(proc.mem, disk', agent', host', tried', cause')
        /\ (proc.job = "boot" => cause' /\ proc.mem.installed = journal'.installed)
    BY <1>0, <1>3 DEF MadeOf
  <2>1. CASE Head(proc.todo) \notin {"save!", "latch!"}
    <3>1. CASE Stops
      BY <2>0, <3>1, StopsStands
    <3>2. CASE Fails(proc.mem, FALSE)
      <4>1. ~Terminal(proc.mem.phase) => cause'
        BY <1>1, <1>4, <3>2, FailsCost
      <4>2. QED
        BY <1>4, <2>0, <3>2, <4>1, FailsStands
    <3>3. QED
      BY <1>1, <2>1, <3>1, <3>2
  <2>2. CASE Head(proc.todo) \in {"save!", "latch!"}
    <3>1. Does(proc.mem, Rest)
      BY <1>1, <2>2
    <3>2. /\ proc'.job = proc.job /\ proc'.ok = proc.ok /\ proc'.mem = proc.mem /\ proc'.todo = Rest
          /\ proc' = [job |-> proc'.job, todo |-> proc'.todo, mem |-> proc'.mem, ok |-> proc'.ok]
          /\ proc'.ok \in BOOLEAN
      BY <1>4, <3>1, DoesFacts
    <3>3. s # "end" /\ s \in Failing /\ After[s] \in {"latch", "end"}
      BY <1>2, <2>2, EffectOf DEF Failing
    <3>4. Agrees(After[s], t, proc', journal', disk', host', cause')
      <4>1. CASE Makes(Head(proc.todo))
        BY <1>0, <1>1, <1>2, <3>2, <3>3, <4>1, AgreesNext
      <4>2. CASE UNCHANGED <<journal, disk, markers, tried>>
        BY <1>0, <1>1, <1>2, <3>2, <3>3, <4>2
           DEF Agrees, Failing, Ahead, Trying, Returning, Deciding, Applying, Fetched, Chosen, Looking
      <4>3. QED
        BY <1>1, <4>1, <4>2
    <3>5. Stands(After[s], t)
      BY <1>2, <1>3, <1>4, <3>2, <3>3, <3>4 DEF Stands, MadeOf
    <3>6. QED
      BY <1>2, <3>3, <3>5
  <2>3. QED
    BY <2>1, <2>2
<1>6. units' \in [probe : Unit, stop : Unit]
  BY <1>1, <1>4 DEF Types
<1>7. QED
  BY <1>0, <1>1, <1>3, <1>5, <1>6, Proceeds DEF MadeOf

-----------------------------------------------------------------------------
(* The theorems.                                                           *)

LEMMA UpdaterNextPreserves == IInv /\ [UpdaterNext]_updaterVars => IInv'
<1> SUFFICES ASSUME IInv, [UpdaterNext]_updaterVars PROVE IInv'
  OBVIOUS
<1>1. CASE Commands
  BY <1>1, UnitsBegin, ApplyStays, RemoteStays, UnreadableStays, EnqueueStays DEF Commands
<1>2. CASE Works
  BY <1>2, ReconcileStays, RecoverAfterIntentStays, CollectStays, FetchStays, CurrentStays,
     PrepareStays, OpenStays, RecoverDownloadStays, ResultStays, StepStays, StepFailsStays,
     ReadFailsStays DEF Works
<1>3. CASE Exit
  BY <1>3, ExitStays
<1>4. CASE Environment
  BY <1>4, UnitsStay, AgentStays, OperatorStays, KilledStays, RebootStays DEF Environment
<1>5. CASE UNCHANGED updaterVars
  <2>1. Types'
    BY <1>5 DEF IInv, Types
  <2>2. QED
    BY <1>5, <2>1, Apart
<1>6. QED
  BY <1>1, <1>2, <1>3, <1>4, <1>5 DEF UpdaterNext

(* The release that runs is known to be good: a settled journal names what *)
(* "active" points at, and what the Agent runs is the installed release or *)
(* the candidate of the open trial of this boot.                           *)
LEMMA RunsKnownGoodHolds == IInv => RunsKnownGood
BY DEF IInv, Sound, RunsKnownGood, Terminal

(* A crash needs no operator: without a failure there is no latch, no held *)
(* boot and no journal that asks for one, and an open transaction keeps    *)
(* the mark of its timer and the objects it names.                         *)
LEMMA CrashesRecoverAloneHolds == IInv => CrashesRecoverAlone
<1> SUFFICES ASSUME IInv PROVE CrashesRecoverAlone
  OBVIOUS
<1>1. Types /\ Sound(journal, disk, agent, host, tried, cause) /\ Jobs
  BY DEF IInv
<1>2. disk.active \in disk.objects
  BY <1>1 DEF Sound
<1>3. QED
  BY <1>1, <1>2 DEF Sound, Jobs, CrashesRecoverAlone

(* The journal, the files, the units and the process keep to their kinds,  *)
(* and a journal that does not ask for the operator can be read back       *)
(* (state.rs), whatever was cut short while it was written.                *)
THEOREM UpdaterTypeCorrect == UpdaterSpec => []UpdaterTypeOK
<1>1. IInv => UpdaterTypeOK
  <2> SUFFICES ASSUME IInv PROVE UpdaterTypeOK
    OBVIOUS
  <2>1. Types /\ Sound(journal, disk, agent, host, tried, cause)
    BY DEF IInv
  <2>2. journal.phase # "manual" => Loads(journal)
    BY <2>1, SoundLoads DEF Types
  <2>3. QED
    BY <2>1, <2>2 DEF Types, UpdaterTypeOK, DiskType, AgentType, HostType, JobNames
<1>2. QED
  BY <1>1, UpdaterInitEstablishes, UpdaterNextPreserves, PTL DEF UpdaterSpec

(* Whatever fails, is killed or loses power in the middle of an update, the*)
(* Agent runs a release that is known to be good, and the updater goes on  *)
(* without an operator (activate.rs, gate.rs, recovery.rs).                *)
THEOREM UpdatesAreSafe == UpdaterSpec => []ActivationIsSafe
<1>1. IInv => ActivationIsSafe
  BY RunsKnownGoodHolds, CrashesRecoverAloneHolds DEF ActivationIsSafe
<1>2. QED
  BY <1>1, UpdaterInitEstablishes, UpdaterNextPreserves, PTL DEF UpdaterSpec
=============================================================================
