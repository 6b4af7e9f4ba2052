---------------------------- MODULE AccessProofs ----------------------------
(***************************************************************************)
(* Proofs about access: install tokens (InstallBootstrap), administrators' *)
(* sessions and factors (AdminAccess), and the admission of agents         *)
(* (ConnectionAdmission).  The three parts do not depend on each other.    *)
(***************************************************************************)
EXTENDS AdminAccess, ConnectionAdmission, InstallBootstrap, FiniteSetTheorems, TLAPS

(* ---- install tokens ---- *)

(* A registry file and an edit under way; only an edit that issues a token *)
(* needs to have one.                                                      *)
File == [version : Nat, nodes : SUBSET Node, sessions : SUBSET [node : Node, ticket : Ticket]]
Edit ==
  [stage : {"idle", "begun", "ready", "done"}, op : Op, node : Node \cup {NoNode},
   ticket : Ticket \cup {NoTicket}, origin : Origin \cup {NoNode}, guard : Nat, copy : File,
   found : BOOLEAN, tries : Nat]
Issues(r) == r.op \in {"issue", "cli"}
IssuesOne(r) == r.stage # "idle" /\ Issues(r) => r.node \in Node /\ r.ticket \in Ticket

InstallTypes ==
  /\ file \in File /\ mem \in File /\ backups \subseteq File
  /\ task \in [Task -> Edit] /\ \A k \in Task : IssuesOne(task[k])
  /\ issued \subseteq Ticket
  /\ taken \in [Ticket -> Nat]

(* The token of an edit that issues one is in no file until it is          *)
(* committed, and nobody else's.                                           *)
Issuing(r) == r.stage \in {"begun", "ready"} /\ Issues(r)
Fresh(t) == t \in issued /\ taken[t] = 0 /\ \A f \in {file} \cup backups : t \notin Tickets(f)

NewTickets ==
  /\ \A f \in {file} \cup backups : Tickets(f) \subseteq issued
  /\ \A t \in Ticket : taken[t] # 0 => t \in issued
  /\ \A k \in Task : Issuing(task[k]) =>
       /\ Fresh(task[k].ticket)
       /\ \A j \in Task : Issuing(task[j]) /\ task[j].ticket = task[k].ticket => j = k

(* A copy of the file that is still there was made from its tokens; an     *)
(* edit that found the token it hands out takes it away.                   *)
MadeFrom(r, f) ==
  /\ Tickets(r.copy) \subseteq Tickets(f) \cup (IF Issues(r) THEN {r.ticket} ELSE {})
  /\ r.op = "consume" /\ r.found => r.ticket \in Tickets(f) \ Tickets(r.copy)
Copied(r, f) ==
  /\ r.stage \in {"ready", "done"} => r.copy.version <= f.version
  /\ r.stage = "ready" /\ r.copy.version = f.version => MadeFrom(r, f)

Copies == \A k \in Task : Copied(task[k], file)

(* While the file is older than the memory, no edit of the server may      *)
(* change it; otherwise none of its tokens was exchanged.                  *)
Guarded(r) == r.stage # "idle" /\ r.op # "cli" => r.guard >= mem.version
Guards == file.version < mem.version => \A k \in Task : Guarded(task[k])

Unspent == file.version >= mem.version => \A t \in Tickets(file) : taken[t] = 0

InstallInv == InstallTypes /\ NewTickets /\ Copies /\ Guards /\ Unspent /\ InstalledOnce

-----------------------------------------------------------------------------
(* What an edit makes of a file.                                           *)
LEMMA EmptyTypes == EmptyFile \in File /\ NoTask \in Edit /\ NoTask.stage = "idle"
BY DEF EmptyFile, File, NoTask, Edit, Op

LEMMA TicketsOf ==
  ASSUME NEW f \in File
  PROVE  /\ Tickets(f) \subseteq Ticket
         /\ \A t : t \in Tickets(f) <=> \E s \in f.sessions : s.ticket = t
BY DEF Tickets, File

LEMMA EditedFile ==
  ASSUME NEW r \in Edit, NEW f \in File, IssuesOne(r), r.stage = "begun"
  PROVE  LET e == EditOf(r, f) IN
         /\ e.file \in File /\ e.found \in BOOLEAN /\ e.file.version = f.version
         /\ Tickets(e.file) \subseteq Tickets(f) \cup (IF Issues(r) THEN {r.ticket} ELSE {})
         /\ r.op = "consume" /\ e.found => r.ticket \in Tickets(f) \ Tickets(e.file)
<1> DEFINE e == EditOf(r, f)
<1>1. r.op \in Op
  BY DEF Edit
<1>2. CASE r.op = "consume"
  <2> DEFINE mine == {s \in Unexpired(f) : s.ticket = r.ticket}
  <2>1. /\ e.file = [f EXCEPT !.sessions = Unexpired(f) \ mine]
        /\ e.found = (\E s \in mine : s.node \in f.nodes)
    BY <1>2 DEF EditOf, ConsumeEdit
  <2>2. Unexpired(f) \subseteq f.sessions
    BY DEF Unexpired
  <2>3. e.file \in File /\ e.file.version = f.version /\ e.file.sessions = Unexpired(f) \ mine
    BY <2>1, <2>2 DEF File
  <2>4. e.found \in BOOLEAN
    BY <2>1
  <2>5. Tickets(e.file) \subseteq Tickets(f)
    BY <2>2, <2>3 DEF Tickets
  <2>6. e.found => r.ticket \in Tickets(f)
    BY <2>1, <2>2 DEF Tickets
  <2>7. r.ticket \notin Tickets(e.file)
    BY <2>3 DEF Tickets
  <2>8. QED
    BY <1>2, <2>3, <2>4, <2>5, <2>6, <2>7 DEF Issues
<1>3. CASE r.op = "remove"
  <2>1. /\ e.file = [f EXCEPT !.nodes = @ \ {r.node}, !.sessions = {s \in Unexpired(f) : s.node # r.node}]
        /\ e.found = TRUE
    BY <1>3 DEF EditOf, RemoveEdit
  <2>2. Unexpired(f) \subseteq f.sessions
    BY DEF Unexpired
  <2>3. /\ e.file \in File /\ e.file.version = f.version
        /\ e.file.sessions = {s \in Unexpired(f) : s.node # r.node}
    BY <2>1, <2>2 DEF File
  <2>4. QED
    BY <1>3, <2>1, <2>2, <2>3 DEF Issues, Tickets
<1>4. CASE r.op \in {"issue", "cli"}
  <2> DEFINE new == [node |-> r.node, ticket |-> r.ticket]
  <2>1. /\ e.file = [f EXCEPT !.nodes = @ \cup {r.node},
                              !.sessions = {s \in Unexpired(f) : s.node # r.node} \cup {new}]
        /\ e.found = TRUE
    BY <1>4 DEF EditOf, IssueEdit
  <2>2. Unexpired(f) \subseteq f.sessions
    BY DEF Unexpired
  <2>3. r.node \in Node /\ r.ticket \in Ticket
    BY <1>4 DEF IssuesOne, Issues
  <2>4. /\ e.file \in File /\ e.file.version = f.version
        /\ e.file.sessions = {s \in Unexpired(f) : s.node # r.node} \cup {new}
    <3>1. /\ f.nodes \cup {r.node} \in SUBSET Node
          /\ {s \in Unexpired(f) : s.node # r.node} \cup {new} \in SUBSET [node : Node, ticket : Ticket]
      BY <2>2, <2>3 DEF File
    <3>2. QED
      BY <2>1, <3>1 DEF File
  <2>5. Tickets(e.file) \subseteq Tickets(f) \cup {r.ticket}
    BY <2>2, <2>4 DEF Tickets
  <2>6. QED
    BY <1>4, <2>1, <2>4, <2>5 DEF Issues
<1>5. QED
  BY <1>1, <1>2, <1>3, <1>4 DEF Op

(* An edit goes on, and neither the file nor the exchanges change; memory  *)
(* may follow the file.                                                    *)
LEMMA EditGoesOn ==
  ASSUME InstallInv, NEW k \in Task, NEW r \in Edit, task' = [task EXCEPT ![k] = r],
         UNCHANGED <<file, backups, taken, issued>>, mem' \in File,
         mem'.version >= mem.version, mem' = mem \/ file.version >= mem'.version,
         IssuesOne(r), Copied(r, file), Guarded(r) \/ file.version >= mem.version,
         Issuing(r) => Issuing(task[k]) /\ r.ticket = task[k].ticket
  PROVE  InstallInv'
<1> USE DEF InstallInv
<1>1. \A j \in Task : task'[j] = IF j = k THEN r ELSE task[j]
  BY DEF InstallTypes
<1>2. InstallTypes'
  BY <1>1 DEF InstallTypes
<1>3. NewTickets'
  BY <1>1 DEF NewTickets, Fresh
<1>4. Copies'
  BY <1>1 DEF Copies
<1>5. mem.version \in Nat /\ mem'.version \in Nat /\ file.version \in Nat
  BY DEF InstallTypes, File
<1>6. Guards'
  BY <1>1, <1>5 DEF Guards, Guarded
<1>7. Unspent' /\ InstalledOnce'
  BY <1>5 DEF Unspent, InstalledOnce
<1>8. QED
  BY <1>2, <1>3, <1>4, <1>6, <1>7

(* An edit that has ended is one of those.                                 *)
LEMMA EditEnds ==
  ASSUME InstallInv, NEW k \in Task, task' = [task EXCEPT ![k] = NoTask],
         UNCHANGED <<file, backups, taken, issued>>, mem' \in File,
         mem'.version >= mem.version, mem' = mem \/ file.version >= mem'.version
  PROVE  InstallInv'
<1>1. IssuesOne(NoTask) /\ Copied(NoTask, file) /\ Guarded(NoTask) /\ ~Issuing(NoTask)
  BY EmptyTypes DEF IssuesOne, Copied, Guarded, Issuing
<1>2. QED
  BY <1>1, EmptyTypes, EditGoesOn

(* The file may only be older than the memory of an edit that is refused.  *)
LEMMA GuardHolds ==
  ASSUME InstallInv, NEW k \in Task, task[k].stage # "idle", GuardAllows(task[k], file)
  PROVE  task[k].op = "cli" \/ file.version >= mem.version
BY DEF InstallInv, InstallTypes, File, Edit, Guards, Guarded, GuardAllows

-----------------------------------------------------------------------------
LEMMA InstallStarts == InstallInit => InstallInv
<1> SUFFICES ASSUME InstallInit PROVE InstallInv
  OBVIOUS
<1> USE DEF InstallInit
<1>1. Tickets(EmptyFile) = {}
  BY DEF Tickets, EmptyFile
<1>2. \A k \in Task : task[k] = NoTask
  OBVIOUS
<1>3. InstallTypes
  BY <1>2, EmptyTypes DEF InstallTypes, IssuesOne
<1>4. NewTickets
  BY <1>1, <1>2, EmptyTypes DEF NewTickets, Issuing
<1>5. Copies
  BY <1>2, EmptyTypes DEF Copies, Copied
<1>6. Guards /\ Unspent /\ InstalledOnce
  BY <1>1, <1>2, EmptyTypes DEF Guards, Guarded, Unspent, InstalledOnce
<1>7. QED
  BY <1>3, <1>4, <1>5, <1>6 DEF InstallInv

(* A request of an installer or a removal begins.                          *)
LEMMA EditBegins ==
  ASSUME InstallInv, NEW k \in Task, NEW r \in Edit, task[k].stage = "idle",
         TaskIs(k, r), UNCHANGED <<file, mem, backups, taken, issued>>,
         r.stage = "begun", ~Issues(r), r.guard = mem.version
  PROVE  InstallInv'
<1>1. mem \in File /\ mem.version \in Nat
  BY DEF InstallInv, InstallTypes, File
<1>2. IssuesOne(r) /\ Copied(r, file) /\ Guarded(r) /\ ~Issuing(r)
  BY <1>1 DEF IssuesOne, Copied, Guarded, Issuing
<1>3. mem' = mem /\ mem' \in File /\ mem'.version >= mem.version
  BY <1>1
<1>4. task' = [task EXCEPT ![k] = r]
  BY DEF TaskIs
<1>5. QED
  BY <1>2, <1>3, <1>4, EditGoesOn

LEMMA RingStep == ASSUME InstallInv, NEW k \in Task, Ring(k) PROVE InstallInv'
<1>1. mem \in File /\ mem.version \in Nat
  BY DEF InstallInv, InstallTypes, File
<1> DEFINE Presented(a, t) == [NoTask EXCEPT !.stage = "begun", !.ticket = t, !.origin = a,
                                             !.guard = mem.version]
<1>2. PICK a \in Origin, t \in Ticket \cup {NoTicket} :
        /\ task[k].stage = "idle"
        /\ UNCHANGED <<file, mem, issued, backups, taken>>
        /\ UNCHANGED task \/ (t # NoTicket /\ TaskIs(k, Presented(a, t)))
  BY Zenon DEF Ring
<1>3. CASE UNCHANGED task
  BY <1>2, <1>3 DEF InstallInv, InstallTypes, NewTickets, Fresh, Copies, Guards, Guarded,
                    Unspent, InstalledOnce
<1>4. CASE ~UNCHANGED task
  <2> DEFINE r == [NoTask EXCEPT !.stage = "begun", !.ticket = t, !.origin = a,
                                 !.guard = mem.version]
  <2>1. /\ r \in Edit /\ r.stage = "begun" /\ r.op = "consume" /\ r.guard = mem.version
    BY <1>1, EmptyTypes DEF Edit, NoTask
  <2>2. QED
    BY <1>2, <1>4, <2>1, EditBegins DEF Issues
<1>5. QED
  BY <1>3, <1>4

LEMMA RemoveNodeStep == ASSUME InstallInv, NEW k \in Task, RemoveNode(k) PROVE InstallInv'
<1>1. mem \in File /\ mem.version \in Nat
  BY DEF InstallInv, InstallTypes, File
<1>2. PICK n \in Node :
        TaskIs(k, [NoTask EXCEPT !.stage = "begun", !.op = "remove", !.node = n,
                                 !.guard = mem.version])
  BY DEF RemoveNode
<1> DEFINE r == [NoTask EXCEPT !.stage = "begun", !.op = "remove", !.node = n,
                               !.guard = mem.version]
<1>3. /\ r \in Edit /\ r.stage = "begun" /\ r.op = "remove" /\ r.guard = mem.version
  BY <1>1, EmptyTypes DEF Edit, NoTask, Op
<1>4. QED
  BY <1>2, <1>3, EditBegins DEF Issues, RemoveNode

(* A new token: nobody has it yet, in no file and in no other edit.        *)
LEMMA IssueStep == ASSUME InstallInv, NEW k \in Task, Issue(k) PROVE InstallInv'
<1> USE DEF InstallInv
<1>1. mem \in File /\ mem.version \in Nat /\ file.version \in Nat
  BY DEF InstallTypes, File
<1>2. PICK op \in {"issue", "cli"}, n \in Node, t \in Ticket \ issued :
        /\ TaskIs(k, [NoTask EXCEPT !.stage = "begun", !.op = op, !.node = n, !.ticket = t,
                                    !.guard = mem.version])
        /\ issued' = issued \cup {t}
        /\ UNCHANGED <<file, mem, expired, blame, backups, restores, taken>>
  BY DEF Issue
<1> DEFINE r == [NoTask EXCEPT !.stage = "begun", !.op = op, !.node = n, !.ticket = t,
                               !.guard = mem.version]
<1>3. /\ r \in Edit /\ r.stage = "begun" /\ r.op = op /\ r.node = n /\ r.ticket = t
      /\ r.guard = mem.version
  BY <1>1, EmptyTypes DEF Edit, NoTask, Op
<1>4. task' = [task EXCEPT ![k] = r]
  BY <1>2 DEF TaskIs
<1> HIDE DEF r
<1>5. \A j \in Task : task'[j] = IF j = k THEN r ELSE task[j]
  BY <1>4 DEF InstallTypes
<1>6. InstallTypes'
  BY <1>2, <1>3, <1>4, <1>5 DEF InstallTypes, IssuesOne
<1>7. NewTickets'
  <2>1. taken[t] = 0 /\ \A f \in {file} \cup backups : t \notin Tickets(f)
    BY <1>2 DEF NewTickets
  <2>2. \A j \in Task : Issuing(task[j]) => task[j].ticket # t
    BY <1>2 DEF NewTickets, Fresh
  <2>3. QED
    BY <1>2, <1>3, <1>5, <2>1, <2>2 DEF NewTickets, Fresh
<1>8. Copies' /\ Unspent' /\ InstalledOnce'
  BY <1>2, <1>3, <1>5 DEF Copies, Copied, Unspent, InstalledOnce
<1>9. Guards'
  BY <1>1, <1>2, <1>3, <1>5 DEF Guards, Guarded
<1>10. QED
  BY <1>6, <1>7, <1>8, <1>9

(* The copy an edit makes was made from the file.                          *)
LEMMA ReadAndEditStep == ASSUME InstallInv, NEW k \in Task, ReadAndEdit(k) PROVE InstallInv'
<1> DEFINE r == task[k]  e == EditOf(r, file)
           c == [r EXCEPT !.stage = "ready", !.found = e.found, !.copy = e.file]
<1>1. /\ r \in Edit /\ IssuesOne(r) /\ r.stage = "begun" /\ file \in File
      /\ mem \in File /\ mem.version \in Nat /\ file.version \in Nat
  BY DEF InstallInv, InstallTypes, File, ReadAndEdit
<1>2. /\ TaskIs(k, NoTask) \/ (GuardAllows(r, file) /\ TaskIs(k, c))
      /\ UNCHANGED <<file, mem, issued, backups, taken>>
  BY Zenon DEF ReadAndEdit
<1>3. mem' \in File /\ mem'.version >= mem.version /\ mem' = mem
  BY <1>1, <1>2
<1>4. CASE TaskIs(k, NoTask)
  BY <1>2, <1>3, <1>4, EditEnds DEF TaskIs
<1>5. CASE TaskIs(k, c) /\ GuardAllows(r, file)
  <2>1. /\ e.file \in File /\ e.found \in BOOLEAN /\ e.file.version = file.version
        /\ Tickets(e.file) \subseteq Tickets(file) \cup (IF Issues(r) THEN {r.ticket} ELSE {})
        /\ r.op = "consume" /\ e.found => r.ticket \in Tickets(file) \ Tickets(e.file)
    BY <1>1, EditedFile
  <2> HIDE DEF e
  <2>2. /\ c \in Edit /\ c.stage = "ready" /\ c.found = e.found /\ c.copy = e.file
        /\ c.op = r.op /\ c.ticket = r.ticket /\ c.node = r.node /\ c.guard = r.guard
    BY <1>1, <2>1 DEF Edit
  <2> HIDE DEF c
  <2>3. IssuesOne(c) /\ Copied(c, file)
    BY <1>1, <2>1, <2>2 DEF IssuesOne, Issues, Copied, MadeFrom
  <2>4. Guarded(c) \/ file.version >= mem.version
    BY <1>1, <2>2 DEF Guarded, InstallInv, Guards
  <2>5. Issuing(c) => Issuing(task[k]) /\ c.ticket = task[k].ticket
    BY <1>1, <2>2 DEF Issuing, Issues
  <2>6. task' = [task EXCEPT ![k] = c]
    BY <1>5 DEF TaskIs
  <2>7. QED
    BY <1>2, <1>3, <2>2, <2>3, <2>4, <2>5, <2>6, EditGoesOn
<1>6. QED
  BY <1>2, <1>4, <1>5

LEMMA CommitFailsStep == ASSUME InstallInv, NEW k \in Task, CommitFails(k) PROVE InstallInv'
<1> DEFINE r == task[k]
           c == [r EXCEPT !.stage = "begun", !.tries = @ + 1, !.found = FALSE, !.copy = EmptyFile]
<1>1. /\ r \in Edit /\ IssuesOne(r) /\ r.stage = "ready" /\ file \in File
      /\ mem \in File /\ mem.version \in Nat /\ file.version \in Nat
  BY DEF InstallInv, InstallTypes, File, CommitFails
<1>2. /\ TaskIs(k, NoTask) \/ TaskIs(k, c)
      /\ UNCHANGED <<file, mem, issued, backups, taken>>
  BY Zenon DEF CommitFails
<1>3. mem' \in File /\ mem'.version >= mem.version /\ mem' = mem
  BY <1>1, <1>2
<1>4. CASE TaskIs(k, NoTask)
  BY <1>2, <1>3, <1>4, EditEnds DEF TaskIs
<1>5. CASE TaskIs(k, c)
  <2>1. /\ c \in Edit /\ c.stage = "begun"
        /\ c.op = r.op /\ c.ticket = r.ticket /\ c.node = r.node /\ c.guard = r.guard
    <3>1. r.tries + 1 \in Nat /\ EmptyFile \in File
      BY <1>1, EmptyTypes DEF Edit
    <3>2. QED
      BY <1>1, <3>1 DEF Edit
  <2> HIDE DEF c
  <2>2. IssuesOne(c) /\ Copied(c, file)
    BY <1>1, <2>1 DEF IssuesOne, Issues, Copied
  <2>3. Guarded(c) \/ file.version >= mem.version
    BY <1>1, <2>1 DEF Guarded, InstallInv, Guards
  <2>4. Issuing(c) => Issuing(task[k]) /\ c.ticket = task[k].ticket
    BY <1>1, <2>1 DEF Issuing, Issues
  <2>5. task' = [task EXCEPT ![k] = c]
    BY <1>5 DEF TaskIs
  <2>6. QED
    BY <1>2, <1>3, <2>1, <2>2, <2>3, <2>4, <2>5, EditGoesOn
<1>6. QED
  BY <1>2, <1>4, <1>5

(* Memory never gets newer than the file by following it.                  *)
LEMMA AnswerTaskStep == ASSUME InstallInv, NEW k \in Task, AnswerTask(k) PROVE InstallInv'
<1> DEFINE r == task[k]
<1>1. /\ r \in Edit /\ r.stage = "done" /\ r.copy \in File /\ r.copy.version \in Nat
      /\ mem \in File /\ mem.version \in Nat /\ r.copy.version <= file.version
      /\ file.version \in Nat
  BY DEF InstallInv, InstallTypes, File, Edit, AnswerTask, Copies, Copied
<1>2. /\ mem' = Follows(r.copy) /\ task' = [task EXCEPT ![k] = NoTask]
      /\ UNCHANGED <<file, issued, backups, taken>>
  BY Zenon DEF AnswerTask, TaskIs
<1>3. /\ mem' \in File /\ mem'.version >= mem.version
      /\ mem' = mem \/ file.version >= mem'.version
  BY <1>1, <1>2 DEF Follows
<1>4. QED
  BY <1>2, <1>3, EditEnds

LEMMA AbandonStep == ASSUME InstallInv, NEW k \in Task, Abandon(k) PROVE InstallInv'
<1>1. mem \in File /\ mem.version \in Nat
  BY DEF InstallInv, InstallTypes, File
<1>2. mem' \in File /\ mem'.version >= mem.version /\ mem' = mem
  BY <1>1 DEF Abandon
<1>3. QED
  BY <1>2, EditEnds DEF Abandon, TaskIs

(* The file gets what an edit made of it: its version is new, its tokens   *)
(* are those of the old one and the one just issued.                       *)
LEMMA FileCommitted ==
  ASSUME InstallInv, NEW k \in Task,
         \/ task' = [task EXCEPT ![k] = NoTask]
         \/ task' = [task EXCEPT ![k] = [task[k] EXCEPT !.stage = "done", !.copy = file']],
         task[k].stage = "ready", GuardAllows(task[k], file), SameBase(task[k]),
         file' = [task[k].copy EXCEPT !.version = file.version + 1],
         UNCHANGED <<mem, issued>>, backups' \subseteq backups \cup {file},
         \/ /\ task[k].op = "consume" /\ task[k].found
            /\ taken' = [taken EXCEPT ![task[k].ticket] = @ + 1]
         \/ /\ task[k].op = "cli" /\ file.version < mem.version
            /\ taken' = MadeGood(file)
         \/ /\ ~(task[k].op = "cli" /\ file.version < mem.version)
            /\ taken' = taken
  PROVE  InstallInv'
<1> USE DEF InstallInv
<1>0. PICK q : /\ task' = [task EXCEPT ![k] = q]
               /\ q = NoTask \/ q = [task[k] EXCEPT !.stage = "done", !.copy = file']
  OBVIOUS
<1> DEFINE r == task[k]
           counted == r.op = "consume" /\ r.found /\ taken' = [taken EXCEPT ![r.ticket] = @ + 1]
           again == r.op = "cli" /\ file.version < mem.version /\ taken' = MadeGood(file)
           same == ~(r.op = "cli" /\ file.version < mem.version) /\ taken' = taken
<1>1. /\ r \in Edit /\ IssuesOne(r) /\ r.stage = "ready" /\ file \in File /\ r.copy \in File
      /\ mem \in File /\ mem.version \in Nat /\ file.version \in Nat
      /\ r.copy.version = file.version
  BY DEF InstallTypes, File, Edit, SameBase
<1>2. /\ file' \in File /\ file'.version = file.version + 1
      /\ file'.sessions = r.copy.sessions
  BY <1>1 DEF File
<1>3. Tickets(file') = Tickets(r.copy)
  BY <1>2 DEF Tickets
<1>4. MadeFrom(r, file)
  BY <1>1 DEF Copies, Copied
<1>5. counted \/ again \/ same
  OBVIOUS
<1>6. r.op = "cli" \/ file.version >= mem.version
  BY <1>1, GuardHolds
<1>7. /\ Tickets(file) \subseteq Ticket /\ Tickets(file) \subseteq issued
      /\ \A f \in backups : Tickets(f) \subseteq issued
      /\ Issues(r) => Fresh(r.ticket) /\ r.ticket \in Ticket
  BY <1>1, TicketsOf DEF NewTickets, Issuing, IssuesOne
<1>8. counted => r.ticket \in Tickets(file) \ Tickets(file') /\ file.version >= mem.version
  BY <1>3, <1>4, <1>6 DEF MadeFrom
<1>9. Tickets(file') \subseteq Tickets(file) \cup (IF Issues(r) THEN {r.ticket} ELSE {})
  BY <1>3, <1>4 DEF MadeFrom
<1>10. /\ q \in Edit /\ IssuesOne(q) /\ ~Issuing(q) /\ q.stage \in {"idle", "done"}
       /\ q.stage = "done" => q.copy = file' /\ q.op = r.op
  <2>1. CASE q = NoTask
    BY <2>1, EmptyTypes DEF IssuesOne, Issuing
  <2>2. CASE q = [r EXCEPT !.stage = "done", !.copy = file']
    <3>1. /\ q \in Edit /\ q.stage = "done" /\ q.copy = file' /\ q.op = r.op /\ q.node = r.node
          /\ q.ticket = r.ticket
      BY <1>1, <1>2, <2>2 DEF Edit
    <3>2. QED
      BY <1>1, <3>1 DEF IssuesOne, Issuing, Issues
  <2>3. QED
    BY <1>0, <2>1, <2>2
<1>11. \A j \in Task : task'[j] = IF j = k THEN q ELSE task[j]
  BY <1>0 DEF InstallTypes
<1>12. /\ taken' \in [Ticket -> Nat]
       /\ \A t \in Ticket : taken'[t] = taken[t] \/ taken'[t] = 0 \/ (counted /\ t = r.ticket)
       /\ counted => taken[r.ticket] = 0 /\ taken'[r.ticket] = 1
  <2>1. CASE counted
    BY <1>7, <1>8, <2>1 DEF InstallTypes, Unspent
  <2>2. CASE again
    BY <2>2 DEF InstallTypes, MadeGood
  <2>3. CASE same /\ ~counted
    BY <2>3 DEF InstallTypes
  <2>4. QED
    BY <1>5, <2>1, <2>2, <2>3
<1> HIDE DEF counted
<1>13. InstallTypes'
  <2>1. task' \in [Task -> Edit] /\ \A j \in Task : IssuesOne(task'[j])
    BY <1>0, <1>10, <1>11 DEF InstallTypes
  <2>2. backups' \subseteq File /\ mem' \in File /\ issued' \subseteq Ticket
    BY <1>1 DEF InstallTypes
  <2>3. QED
    BY <1>2, <1>12, <2>1, <2>2 DEF InstallTypes
<1>14. NewTickets'
  <2>1. \A f \in {file'} \cup backups' : Tickets(f) \subseteq issued'
    BY <1>7, <1>9 DEF Fresh
  <2>2. \A t \in Ticket : taken'[t] # 0 => t \in issued'
    BY <1>7, <1>8, <1>12 DEF NewTickets
  <2>3. ASSUME NEW j \in Task, Issuing(task'[j])
        PROVE  /\ Fresh(task[j].ticket)'
               /\ \A i \in Task : Issuing(task'[i]) /\ task'[i].ticket = task'[j].ticket => i = j
    <3>1. j # k /\ task'[j] = task[j] /\ Issuing(task[j])
      BY <1>10, <1>11, <2>3
    <3>2. /\ Fresh(task[j].ticket) /\ task[j].ticket \in Ticket
          /\ \A i \in Task : Issuing(task[i]) /\ task[i].ticket = task[j].ticket => i = j
      BY <3>1 DEF NewTickets, InstallTypes, IssuesOne, Issuing
    <3>3. Issues(r) => r.ticket # task[j].ticket
      BY <1>1, <3>1, <3>2 DEF Issuing
    <3>4. task[j].ticket \notin Tickets(file')
      BY <1>9, <3>2, <3>3 DEF Fresh
    <3>5. counted => task[j].ticket # r.ticket
      BY <1>8, <3>2 DEF Fresh
    <3>6. taken'[task[j].ticket] = 0
      BY <1>12, <3>2, <3>5 DEF Fresh
    <3>7. Fresh(task[j].ticket)'
      BY <3>1, <3>2, <3>4, <3>6 DEF Fresh
    <3>8. QED
      BY <1>10, <1>11, <3>1, <3>2, <3>7
  <2>4. QED
    BY <2>1, <2>2, <2>3 DEF NewTickets
<1>15. Copies'
  <2>1. ASSUME NEW j \in Task PROVE Copied(task'[j], file')
    <3>1. CASE j = k
      <4>1. task'[j] = q /\ file'.version <= file'.version
        BY <1>1, <1>2, <1>11, <3>1
      <4>2. QED
        BY <1>10, <4>1 DEF Copied
    <3>2. CASE j # k
      <4>1. /\ task'[j] = task[j] /\ task[j] \in Edit /\ task[j].copy.version \in Nat
            /\ Copied(task[j], file)
        BY <1>11, <3>2 DEF InstallTypes, Copies, Edit, File
      <4>2. QED
        BY <1>1, <1>2, <4>1 DEF Copied
    <3>3. QED
      BY <3>1, <3>2
  <2>2. QED
    BY <2>1 DEF Copies
<1>16. Guards'
  <2>1. SUFFICES ASSUME file'.version < mem'.version, NEW j \in Task
                 PROVE  Guarded(task[j])'
    BY DEF Guards
  <2>2. file.version < mem.version
    BY <1>1, <1>2, <2>1
  <2>3. CASE j = k
    BY <1>1, <1>6, <1>10, <1>11, <2>2, <2>3 DEF Guarded
  <2>4. CASE j # k
    BY <1>11, <2>2, <2>4 DEF Guards, Guarded
  <2>5. QED
    BY <2>3, <2>4
<1>17. Unspent'
  <2>1. SUFFICES ASSUME NEW t \in Tickets(file') PROVE taken'[t] = 0
    BY DEF Unspent
  <2>2. t \in Ticket
    BY <1>7, <1>9
  <2>3. t \in Tickets(file) \/ taken[t] = 0
    BY <1>7, <1>9 DEF Fresh
  <2>4. CASE again
    BY <2>2, <2>3, <2>4 DEF MadeGood
  <2>5. CASE counted
    BY <1>8, <1>12, <2>2, <2>3, <2>5 DEF Unspent
  <2>6. CASE same
    BY <1>6, <2>2, <2>3, <2>6, <1>1 DEF Unspent
  <2>7. QED
    BY <1>5, <2>4, <2>5, <2>6
<1>18. InstalledOnce'
  BY <1>12 DEF InstalledOnce, InstallTypes
<1>19. QED
  BY <1>13, <1>14, <1>15, <1>16, <1>17, <1>18

LEMMA CommitStep == ASSUME InstallInv, NEW k \in Task, Commit(k) PROVE InstallInv'
<1> DEFINE r == task[k]
<1>1. /\ r.stage = "ready" /\ GuardAllows(r, file) /\ SameBase(r)
      /\ file' = [r.copy EXCEPT !.version = file.version + 1]
      /\ UNCHANGED <<mem, issued>> /\ backups' \subseteq backups \cup {file}
  BY DEF Commit
<1>2. \/ task' = [task EXCEPT ![k] = NoTask]
      \/ task' = [task EXCEPT ![k] = [r EXCEPT !.stage = "done", !.copy = file']]
  BY Zenon DEF Commit, TaskIs
<1>3. \/ /\ r.op = "consume" /\ r.found
         /\ taken' = [taken EXCEPT ![r.ticket] = @ + 1]
      \/ /\ r.op = "cli" /\ file.version < mem.version
         /\ taken' = MadeGood(file)
      \/ /\ ~(r.op = "cli" /\ file.version < mem.version)
         /\ taken' = taken
  BY Zenon DEF Commit
<1>4. QED
  BY <1>1, <1>2, <1>3, FileCommitted

(* A commit that is not synced exchanges nothing either.                   *)
LEMMA CommitUnsyncedStep == ASSUME InstallInv, NEW k \in Task, CommitUnsynced(k) PROVE InstallInv'
<1> DEFINE r == task[k]
<1>1. /\ r.stage = "ready" /\ GuardAllows(r, file) /\ SameBase(r)
      /\ file' = [r.copy EXCEPT !.version = file.version + 1]
      /\ UNCHANGED <<mem, issued>> /\ backups' \subseteq backups \cup {file}
  BY DEF CommitUnsynced
<1>2. \/ task' = [task EXCEPT ![k] = NoTask]
      \/ task' = [task EXCEPT ![k] = [r EXCEPT !.stage = "done", !.copy = file']]
  BY Zenon DEF CommitUnsynced, TaskIs
<1>3. \/ /\ r.op = "cli" /\ file.version < mem.version
         /\ taken' = MadeGood(file)
      \/ /\ ~(r.op = "cli" /\ file.version < mem.version)
         /\ taken' = taken
  BY Zenon DEF CommitUnsynced
<1>4. QED
  BY <1>1, <1>2, <1>3, FileCommitted

LEMMA ReloadsStep == ASSUME InstallInv, Reloads PROVE InstallInv'
<1> USE DEF InstallInv
<1>1. /\ mem' = file /\ file.version >= mem.version /\ file.version \in Nat
      /\ UNCHANGED <<file, task, issued, backups, taken>>
  BY DEF Reloads, InstallTypes, File
<1>2. InstallTypes' /\ NewTickets' /\ Copies' /\ InstalledOnce'
  BY <1>1 DEF InstallTypes, NewTickets, Fresh, Copies, InstalledOnce
<1>3. Guards' /\ Unspent'
  BY <1>1 DEF Guards, Unspent
<1>4. QED
  BY <1>2, <1>3

(* An older file: the tokens that are good in it were never exchanged      *)
(* since, or the server refuses the file.                                  *)
LEMMA PutBackStep == ASSUME InstallInv, PutBack PROVE InstallInv'
<1> USE DEF InstallInv
<1>1. PICK old \in backups :
        /\ file' = old /\ backups' = {} /\ UNCHANGED <<mem, task, issued>>
        /\ taken' = IF old.version < mem.version THEN taken ELSE MadeGood(old)
  BY DEF PutBack
<1>2. /\ old \in File /\ old.version \in Nat /\ mem.version \in Nat
      /\ \A j \in Task : task[j].stage = "idle"
      /\ Tickets(old) \subseteq Ticket
  BY <1>1, TicketsOf DEF PutBack, InstallTypes, File
<1>3. taken' \in [Ticket -> Nat] /\ \A t \in Ticket : taken'[t] = taken[t] \/ taken'[t] = 0
  BY <1>1 DEF InstallTypes, MadeGood
<1>4. InstallTypes'
  BY <1>1, <1>2, <1>3 DEF InstallTypes
<1>5. NewTickets'
  BY <1>1, <1>2, <1>3 DEF NewTickets, Issuing
<1>6. Copies' /\ Guards'
  BY <1>1, <1>2 DEF Copies, Copied, Guards, Guarded
<1>7. Unspent'
  BY <1>1, <1>2 DEF Unspent, MadeGood
<1>8. InstalledOnce'
  BY <1>3 DEF InstalledOnce, InstallTypes
<1>9. QED
  BY <1>4, <1>5, <1>6, <1>7, <1>8

LEMMA ServerRestartsStep == ASSUME InstallInv, ServerRestarts PROVE InstallInv'
<1> USE DEF InstallInv
<1>1. /\ mem' = file /\ taken' = MadeGood(file) /\ UNCHANGED <<file, issued, backups>>
      /\ task' = [k \in Task |-> IF task[k].op = "cli" THEN task[k] ELSE NoTask]
      /\ file \in File /\ file.version \in Nat /\ Tickets(file) \subseteq Ticket
  BY TicketsOf DEF ServerRestarts, InstallTypes, File
<1>2. /\ taken' \in [Ticket -> Nat]
      /\ \A t \in Ticket : taken'[t] = taken[t] \/ taken'[t] = 0
      /\ \A t \in Tickets(file) : taken'[t] = 0
  BY <1>1 DEF InstallTypes, MadeGood
<1>3. \A j \in Task : task'[j] = task[j] \/ task'[j] = NoTask
  BY <1>1
<1>4. InstallTypes'
  <2>1. task' \in [Task -> Edit] /\ \A j \in Task : IssuesOne(task'[j])
    BY <1>1, <1>3, EmptyTypes DEF InstallTypes, IssuesOne
  <2>2. QED
    BY <1>1, <1>2, <2>1 DEF InstallTypes
<1>5. NewTickets'
  <2>1. \A j \in Task : Issuing(task'[j]) =>
          task'[j] = task[j] /\ Issuing(task[j]) /\ task[j].ticket \in Ticket
    BY <1>3, EmptyTypes DEF Issuing, InstallTypes, IssuesOne
  <2>2. QED
    BY <1>1, <1>2, <2>1 DEF NewTickets, Fresh
<1>6. Copies'
  BY <1>1, <1>3, EmptyTypes DEF Copies, Copied
<1>7. Guards' /\ Unspent'
  BY <1>1, <1>2 DEF Guards, Unspent
<1>8. InstalledOnce'
  BY <1>2 DEF InstalledOnce, InstallTypes
<1>9. QED
  BY <1>4, <1>5, <1>6, <1>7, <1>8

(* Time and the counters of failures touch nothing of this.                *)
LEMMA InstallRests ==
  ASSUME InstallInv, UNCHANGED <<file, mem, task, issued, backups, taken>> PROVE InstallInv'
BY DEF InstallInv, InstallTypes, NewTickets, Fresh, Copies, Guards, Guarded, Unspent, InstalledOnce

(* The invariant behind install tokens: copies are made from the file they *)
(* replace, new tokens are nobody's, and the tokens of a file that is not  *)
(* older than the memory were not exchanged (consume_install_token and the *)
(* version check of storage/write.rs).                                     *)
THEOREM InstallSafe == InstallSpec => []InstallInv
<1>1. InstallInit => InstallInv
  BY InstallStarts
<1>2. InstallInv /\ [InstallNext]_installVars => InstallInv'
  <2>1. ASSUME InstallInv, NEW k \in Task,
               \/ Ring(k) \/ Issue(k) \/ RemoveNode(k) \/ ReadAndEdit(k) \/ Commit(k)
               \/ CommitFails(k) \/ CommitUnsynced(k) \/ AnswerTask(k) \/ Abandon(k)
        PROVE  InstallInv'
    BY <2>1, RingStep, IssueStep, RemoveNodeStep, ReadAndEditStep, CommitStep,
       CommitFailsStep, CommitUnsyncedStep, AnswerTaskStep, AbandonStep
  <2>2. ASSUME InstallInv, Reloads \/ PutBack \/ ServerRestarts PROVE InstallInv'
    BY <2>2, ReloadsStep, PutBackStep, ServerRestartsStep
  <2>3. ASSUME InstallInv, Cool \/ (\E t \in Ticket : TicketExpires(t)) \/ UNCHANGED installVars
        PROVE  InstallInv'
    BY <2>3, InstallRests DEF Cool, TicketExpires, installVars
  <2>4. QED
    BY <2>1, <2>2, <2>3 DEF InstallNext
<1>3. QED
  BY <1>1, <1>2, PTL DEF InstallSpec

(* An install token is exchanged at most once, whatever edits run into     *)
(* each other and whichever older file is put back (consume_install_token).*)
THEOREM TokensInstallOnce == InstallSpec => []InstalledOnce
BY InstallSafe, PTL DEF InstallInv

(* ---- administrators' sessions and factors ---- *)

(* The settings transaction that runs, the passkey change that runs, and   *)
(* the requests in flight.                                                 *)
Factors == [pw : Nat, totp : Nat]
Change ==
  [kind : {"password", "enable", "rotate", "disable"}, stage : {"persist", "swap", "mint"},
   next : Factors, proof : SUBSET Steps]
KeyChange ==
  [kind : {"enrol", "remove", "assert"}, next : SUBSET Passkey, key : Passkey,
   caller : Client, written : BOOLEAN]
LoginReq == [kind : {"redirect", "login", "confirm"}, holds : SUBSET Token, token : Token, saw : Nat]
VerifyReq == [kind : {"verify"}, holds : SUBSET Token, token : Token, binding : Token]
AssertReq ==
  [kind : {"assert", "waits", "asserted"}, holds : SUBSET Token, token : Token,
   binding : Token, key : Passkey]
KeyReq == [kind : {"enrol", "remove", "waits"}, holds : SUBSET Token, token : Token, key : Passkey]
Request == {NoWork} \cup LoginReq \cup VerifyReq \cup AssertReq \cup KeyReq

(* A transaction that enables codes has a secret, and mints a session only *)
(* after its swap, for the credentials it has put in force.                *)
Transaction ==
  /\ change = NoWork \/ change \in Change
  /\ change.kind \in {"enable", "rotate"} =>
       change.next.totp # 0 /\ (change.stage = "mint" => change.next = auth)
  /\ change.kind \in {"password", "disable"} => change.stage # "mint"

(* A passkey change has a caller that waits for it.                        *)
Waiting(running) ==
  /\ req[running.caller].kind = "waits" /\ req[running.caller].key = running.key
  /\ running.kind = "assert" => req[running.caller] \in AssertReq

AdminTypes ==
  /\ gen \in Nat /\ auth \in Factors /\ saved \in Factors
  /\ step \in 0 .. MaxStep
  /\ Transaction
  /\ asserting \in [Token -> SUBSET Passkey] /\ keys \subseteq Passkey /\ keyFile \subseteq Passkey
  /\ req \in [Client -> Request]
  /\ commit = NoWork \/ (commit \in KeyChange /\ Waiting(commit))

(* A store whose sessions belong to the credentials in force.              *)
Stored ==
  [kind : {"pending", "full", "basic"}, under : Factors, failed : Nat, confirmed : BOOLEAN]
InForce(s) ==
  /\ s.under.pw = auth.pw
  /\ s.kind = "full" => s.under.totp = auth.totp
  /\ s.kind = "basic" <=> ~TwoFactor(auth)
StoreInForce(store) ==
  /\ store \in [Token -> {Free} \cup Stored]
  /\ \A t \in Token : store[t] # Free => InForce(store[t])

CredentialsInv == AdminTypes /\ StoreInForce(sessions)

-----------------------------------------------------------------------------
(* The kinds of the records tell them apart.                               *)
LEMMA Kinds ==
  /\ Free.kind = "free" /\ \A s \in Stored : s.kind # "free"
  /\ NoWork.kind = "none" /\ \A x \in Change \cup KeyChange : x.kind # "none"
  /\ NoWork \in Request
BY DEF Free, Stored, NoWork, Change, KeyChange, Request

LEMMA RequestKinds ==
  ASSUME NEW r \in Request
  PROVE  /\ r.kind \in {"redirect", "login", "confirm"} => r \in LoginReq
         /\ r.kind = "verify" => r \in VerifyReq
         /\ r.kind \in {"assert", "asserted"} => r \in AssertReq
         /\ r.kind \in {"enrol", "remove"} => r \in KeyReq
         /\ r.kind = "waits" => r \in AssertReq \cup KeyReq
         /\ r.kind # "none" => r.token \in Token
BY Kinds DEF Request, LoginReq, VerifyReq, AssertReq, KeyReq

LEMMA StepsMatch ==
  ASSUME step \in 0 .. MaxStep, NEW S \in Matching
  PROVE  S \in SUBSET Steps /\ S \subseteq Window /\ S # {}
<1>1. MaxStep \in Nat
  BY AdminAssumption
<1>2. CASE https
  BY <1>1, <1>2 DEF Matching, Window, Steps
<1>3. CASE ~https
  <2>1. S \subseteq Window /\ Cardinality(S) \in {1, 2}
    BY <1>3 DEF Matching
  <2>2. S # {}
    BY <2>1, FS_EmptySet
  <2>3. QED
    BY <2>1, <2>2 DEF Window
<1>4. QED
  BY <1>2, <1>3

(* A request goes on, whose caller does not wait for a passkey change.     *)
LEMMA RequestGoesOn ==
  ASSUME AdminTypes, NEW c \in Client, NEW r \in Request, Goes(c, r), req[c].kind # "waits",
         UNCHANGED <<gen, auth, saved, step, change, keys, keyFile, commit>>,
         asserting' \in [Token -> SUBSET Passkey]
  PROVE  AdminTypes'
<1> USE DEF AdminTypes
<1>1. req' \in [Client -> Request]
  BY DEF Goes
<1>2. Transaction'
  BY DEF Transaction, TwoFactor
<1>3. commit' = NoWork \/ (commit' \in KeyChange /\ Waiting(commit)')
  <2>1. CASE commit = NoWork
    BY <2>1
  <2>2. CASE commit \in KeyChange /\ Waiting(commit)
    <3>1. commit.caller \in Client /\ commit.caller # c
      BY <2>2 DEF Waiting, KeyChange
    <3>2. req'[commit.caller] = req[commit.caller]
      BY <3>1 DEF Goes
    <3>3. QED
      BY <2>2, <3>2 DEF Waiting
  <2>3. QED
    BY <2>1, <2>2
<1>4. QED
  BY <1>1, <1>2, <1>3

(* Everything but the sessions and the codes stays as it is, time may pass *)
(* and ceremonies begin and end.                                           *)
LEMMA RequestsRest ==
  ASSUME AdminTypes, UNCHANGED <<gen, auth, saved, change, keys, keyFile, commit, req>>,
         step' \in 0 .. MaxStep, asserting' \in [Token -> SUBSET Passkey]
  PROVE  AdminTypes'
BY DEF AdminTypes, Transaction, TwoFactor, Waiting

(* What a request begins with.                                             *)
LEMMA BeginsWith ==
  ASSUME NEW c \in Client,
         \/ Authorize(c) \/ Verify(c) \/ AssertLogin(c) \/ AssertSettings(c)
         \/ Confirm(c) \/ RemovePasskey(c)
  PROVE  \/ \E t \in Token, kind \in {"redirect", "login", "confirm"} :
              Goes(c, [kind |-> kind, holds |-> {t}, token |-> t, saw |-> auth.pw])
         \/ \E p \in Token, t \in Token :
              Goes(c, [kind |-> "verify", holds |-> {p, t}, token |-> t, binding |-> p])
         \/ \E b \in Token, t \in Token : \E k \in asserting[b] :
              Goes(c, [kind |-> "assert", holds |-> {b, t}, token |-> t, binding |-> b, key |-> k])
         \/ \E t \in Token, k \in keys :
              Goes(c, [kind |-> "remove", holds |-> {t}, token |-> t, key |-> k])
<1>1. CASE Authorize(c) \/ Confirm(c)
  BY <1>1 DEF Authorize, Confirm, Starts, Of
<1>2. CASE Verify(c)
  BY <1>2 DEF Verify, Of
<1>3. CASE AssertLogin(c) \/ AssertSettings(c)
  <2>1. PICK b \in Token, t \in Token : TakeAssertion(c, b, t)
    BY <1>3 DEF AssertLogin, AssertSettings, Of
  <2>2. QED
    BY <2>1 DEF TakeAssertion
<1>4. CASE RemovePasskey(c)
  BY <1>4 DEF RemovePasskey, Of
<1>5. QED
  BY <1>1, <1>2, <1>3, <1>4

LEMMA RequestStep ==
  ASSUME AdminTypes, NEW c \in Client,
         \/ Authorize(c) \/ Verify(c) \/ AssertLogin(c) \/ AssertSettings(c)
         \/ Confirm(c) \/ Enrol(c) \/ RemovePasskey(c)
  PROVE  AdminTypes'
<1> USE DEF AdminTypes, Idle
<1>1. UNCHANGED <<gen, auth, saved, step, change, keys, keyFile, commit>>
  BY DEF Authorize, Verify, AssertLogin, AssertSettings, TakeAssertion, Confirm, Enrol,
         RemovePasskey, Credentials, KeyVars
<1>2. asserting' \in [Token -> SUBSET Passkey]
  BY DEF Authorize, Verify, AssertLogin, AssertSettings, TakeAssertion, Confirm, Enrol,
         RemovePasskey, Ceremonies, Of
<1>3. req[c].kind = "none"
  BY DEF Authorize, Verify, AssertLogin, AssertSettings, TakeAssertion, Confirm, Enrol,
         RemovePasskey
<1>4. \E r \in Request : Goes(c, r)
  <2>1. auth.pw \in Nat
    BY DEF Factors
  <2>2. CASE Enrol(c)
    <3>1. PICK t \in Token, k \in Passkey :
            Goes(c, [kind |-> "enrol", holds |-> {t}, token |-> t, key |-> k])
      BY <2>2 DEF Enrol, Of
    <3>2. QED
      BY <3>1 DEF Request, KeyReq
  <2>3. CASE ~Enrol(c)
    <3>1. ASSUME NEW t \in Token, NEW kind \in {"redirect", "login", "confirm"}
          PROVE  [kind |-> kind, holds |-> {t}, token |-> t, saw |-> auth.pw] \in Request
      BY <2>1 DEF Request, LoginReq
    <3>2. ASSUME NEW p \in Token, NEW t \in Token
          PROVE  [kind |-> "verify", holds |-> {p, t}, token |-> t, binding |-> p] \in Request
      BY DEF Request, VerifyReq
    <3>3. ASSUME NEW b \in Token, NEW t \in Token, NEW k \in asserting[b]
          PROVE  [kind |-> "assert", holds |-> {b, t}, token |-> t, binding |-> b, key |-> k]
                   \in Request
      BY DEF Request, AssertReq
    <3>4. ASSUME NEW t \in Token, NEW k \in keys
          PROVE  [kind |-> "remove", holds |-> {t}, token |-> t, key |-> k] \in Request
      BY DEF Request, KeyReq
    <3>5. QED
      BY <2>3, <3>1, <3>2, <3>3, <3>4, BeginsWith
  <2>4. QED
    BY <2>2, <2>3
<1>5. QED
  BY <1>1, <1>2, <1>3, <1>4, RequestGoesOn

(* A handler answers, and its request is over.                             *)
Answers(c) ==
  \/ Redirect(c) \/ BasicLogin(c) \/ ExchangePending(c) \/ RejectCode(c)
  \/ FinishPasskeyLogin(c) \/ FinishPasskeyConfirm(c) \/ FinishConfirm(c)

LEMMA AnswerStep ==
  ASSUME AdminTypes, NEW c \in Client, Answers(c) \/ RefuseCommit(c) \/ HangUp(c)
  PROVE  AdminTypes'
<1>1. UNCHANGED <<gen, auth, saved, step, change, keys, keyFile, commit, asserting>>
  BY DEF Answers, Redirect, BasicLogin, ExchangePending, RejectCode, FinishPasskeyLogin,
         FinishPasskeyConfirm, FinishConfirm, RefuseCommit, HangUp, Credentials, KeyVars, Ceremonies
<1>2. req[c].kind # "waits"
  BY DEF Answers, Redirect, BasicLogin, ExchangePending, RejectCode, FinishPasskeyLogin,
         FinishPasskeyConfirm, FinishConfirm, RefuseCommit, HangUp, At
<1>3. Goes(c, NoWork)
  BY DEF Answers, Redirect, BasicLogin, ExchangePending, RejectCode, FinishPasskeyLogin,
         FinishPasskeyConfirm, FinishConfirm, RefuseCommit, HangUp, Done, Goes
<1>4. QED
  BY <1>1, <1>2, <1>3, Kinds, RequestGoesOn DEF AdminTypes

(* Passkey changes: the caller of one waits until it is over.              *)
LEMMA BeginCommitTypes == ASSUME AdminTypes, NEW c \in Client, BeginCommit(c) PROVE AdminTypes'
<1> USE DEF AdminTypes
<1> DEFINE r == req[c]
           w == [r EXCEPT !.kind = "waits"]
<1>1. /\ r.kind \in {"enrol", "remove", "assert"} /\ Goes(c, w)
      /\ commit' = [kind |-> r.kind, next |-> ChangedKeys(r), key |-> r.key,
                    caller |-> c, written |-> FALSE]
      /\ UNCHANGED <<gen, auth, saved, step, change, keys, keyFile, asserting>>
  BY DEF BeginCommit, Credentials, Ceremonies
<1>2. /\ r \in AssertReq \cup KeyReq /\ r.key \in Passkey
      /\ r.kind = "assert" => r \in AssertReq
  BY <1>1, RequestKinds DEF AssertReq, KeyReq
<1>3. /\ w \in AssertReq \cup KeyReq /\ w.kind = "waits" /\ w.key = r.key
      /\ r.kind = "assert" => w \in AssertReq
  BY <1>2 DEF AssertReq, KeyReq
<1>4. ChangedKeys(r) \subseteq Passkey
  BY <1>1, <1>2 DEF ChangedKeys
<1>5. commit' \in KeyChange /\ commit'.kind = r.kind /\ commit'.key = r.key /\ commit'.caller = c
  BY <1>1, <1>2, <1>4 DEF KeyChange
<1>6. req' \in [Client -> Request] /\ req'[c] = w
  BY <1>1, <1>3 DEF Goes, Request
<1>7. Waiting(commit)'
  BY <1>3, <1>5, <1>6 DEF Waiting
<1>8. Transaction'
  BY <1>1 DEF Transaction, TwoFactor
<1>9. QED
  BY <1>1, <1>5, <1>6, <1>7, <1>8

LEMMA RunningCommit ==
  ASSUME AdminTypes, commit.kind # "none"
  PROVE  /\ commit \in KeyChange /\ Waiting(commit) /\ commit.caller \in Client
         /\ commit.next \subseteq Passkey /\ Waits
         /\ req[commit.caller] \in AssertReq \cup KeyReq
<1>1. commit \in KeyChange /\ Waiting(commit)
  BY Kinds DEF AdminTypes
<1>2. commit.caller \in Client /\ commit.next \subseteq Passkey /\ Waits
  BY <1>1 DEF KeyChange, Waiting, Waits
<1>3. req[commit.caller] \in Request /\ req[commit.caller].kind = "waits"
  BY <1>1, <1>2 DEF AdminTypes, Waiting
<1>4. QED
  BY <1>1, <1>2, <1>3, RequestKinds

LEMMA CommitTypes ==
  ASSUME AdminTypes, WritePasskeys \/ WriteFails \/ Publish
  PROVE  AdminTypes'
<1> USE DEF AdminTypes
<1> DEFINE k == commit.caller
           r == req[k]
<1>1. /\ commit \in KeyChange /\ Waiting(commit) /\ k \in Client
      /\ commit.next \subseteq Passkey /\ Waits /\ r \in AssertReq \cup KeyReq
  BY RunningCommit DEF WritePasskeys, WriteFails, Publish
<1>2. UNCHANGED <<gen, auth, saved, step, change, asserting>>
  BY DEF WritePasskeys, WriteFails, Publish, Credentials, Ceremonies
<1>3. Transaction'
  BY <1>2 DEF Transaction, TwoFactor
<1>4. CASE WritePasskeys
  <2>1. /\ keyFile' = commit.next /\ commit' = [commit EXCEPT !.written = TRUE]
        /\ UNCHANGED <<keys, req>>
    BY <1>4 DEF WritePasskeys
  <2>2. /\ commit' \in KeyChange /\ commit'.kind = commit.kind /\ commit'.key = commit.key
        /\ commit'.caller = commit.caller
    BY <1>1, <2>1 DEF KeyChange
  <2>3. Waiting(commit)'
    BY <1>1, <2>1, <2>2 DEF Waiting
  <2>4. QED
    BY <1>1, <1>2, <1>3, <2>1, <2>2, <2>3
<1>5. CASE WriteFails
  <2>1. commit' = NoWork /\ req' = [req EXCEPT ![k] = NoWork] /\ UNCHANGED <<keys, keyFile>>
    BY <1>1, <1>5 DEF WriteFails, Done
  <2>2. QED
    BY <1>2, <1>3, <2>1, Kinds
<1>6. CASE Publish
  <2>1. /\ commit' = NoWork /\ keyFile' = keyFile /\ keys' \in {keys, commit.next}
    BY <1>6 DEF Publish
  <2>2. \/ req' = [req EXCEPT ![k] = NoWork]
        \/ /\ r \in AssertReq
           /\ req' = [req EXCEPT ![k] = [r EXCEPT !.kind = "asserted"]]
    BY <1>1, <1>6 DEF Publish, Goes, Done, Waiting
  <2>3. r \in AssertReq => [r EXCEPT !.kind = "asserted"] \in Request
    BY DEF AssertReq, Request
  <2>4. req' \in [Client -> Request]
    BY <2>2, <2>3, Kinds
  <2>5. QED
    BY <1>1, <1>2, <1>3, <2>1, <2>4
<1>7. QED
  BY <1>4, <1>5, <1>6

(* The settings transactions.                                              *)
LEMMA TransactionTypes ==
  ASSUME AdminTypes, gen' \in Nat, auth' \in Factors, saved' \in Factors, Transaction',
         UNCHANGED <<step, asserting, keys, keyFile, req, commit>>
  PROVE  AdminTypes'
BY DEF AdminTypes, Waiting

LEMMA StartedWith ==
  ASSUME NEW kind \in {"password", "enable", "rotate", "disable"}, NEW next \in Factors,
         NEW proof \in SUBSET Steps, ChangeTo(kind, next, proof)
  PROVE  /\ change' \in Change /\ change'.kind = kind /\ change'.stage = "persist"
         /\ change'.next = next /\ change'.proof = proof
BY DEF ChangeTo, Change

LEMMA TransactionStarts ==
  ASSUME AdminTypes, UNCHANGED auth,
         NEW kind \in {"password", "enable", "rotate", "disable"}, NEW next \in Factors,
         NEW proof \in SUBSET Steps, ChangeTo(kind, next, proof),
         kind \in {"enable", "rotate"} => next.totp # 0
  PROVE  Transaction'
BY StartedWith DEF Transaction

Changes == ChangePassword \/ EnableTwoFactor \/ RotateSecret \/ DisableTwoFactor

LEMMA ChangesTypes == ASSUME AdminTypes, Changes PROVE AdminTypes'
<1>1. /\ gen \in Nat /\ auth \in Factors /\ saved \in Factors /\ {} \in SUBSET Steps
      /\ UNCHANGED <<gen, auth, saved, step, asserting, keys, keyFile, req, commit>>
  BY DEF AdminTypes, Changes, ChangePassword, EnableTwoFactor, RotateSecret, DisableTwoFactor,
         KeyVars, Ceremonies
<1>2. /\ [auth EXCEPT !.pw = gen + 1] \in Factors
      /\ [auth EXCEPT !.totp = gen + 2] \in Factors /\ [auth EXCEPT !.totp = gen + 2].totp # 0
      /\ [auth EXCEPT !.totp = 0] \in Factors
  BY <1>1 DEF Factors
<1>3. Transaction'
  <2>1. CASE ChangePassword
    BY <1>1, <1>2, <2>1, TransactionStarts DEF ChangePassword
  <2>2. CASE EnableTwoFactor
    <3>1. ChangeTo("enable", [auth EXCEPT !.totp = gen + 2], {})
      BY <2>2 DEF EnableTwoFactor
    <3>2. QED
      BY <1>1, <1>2, <3>1, TransactionStarts
  <2>3. CASE RotateSecret
    <3>1. PICK S \in Matching : ChangeTo("rotate", [auth EXCEPT !.totp = gen + 2], S)
      BY <2>3 DEF RotateSecret
    <3>2. S \in SUBSET Steps
      BY <3>1, StepsMatch DEF AdminTypes
    <3>3. QED
      BY <1>1, <1>2, <3>1, <3>2, TransactionStarts
  <2>4. CASE DisableTwoFactor
    BY <1>1, <1>2, <2>4, TransactionStarts DEF DisableTwoFactor
  <2>5. QED
    BY <2>1, <2>2, <2>3, <2>4 DEF Changes
<1>4. QED
  BY <1>1, <1>3, TransactionTypes

LEMMA ChangeRuns ==
  ASSUME AdminTypes, change.kind # "none"
  PROVE  change \in Change /\ change.next \in Factors /\ change.proof \subseteq Steps
BY Kinds DEF AdminTypes, Transaction, Change

LEMMA SwapTypes ==
  ASSUME AdminTypes, PersistChange \/ SwapCredentials \/ MintSession
  PROVE  AdminTypes'
<1>1. /\ change \in Change /\ change.next \in Factors /\ gen \in Nat /\ auth \in Factors
      /\ saved \in Factors /\ Transaction
  BY ChangeRuns DEF PersistChange, SwapCredentials, MintSession, AdminTypes
<1>2. UNCHANGED <<step, asserting, keys, keyFile, req, commit>>
  BY DEF PersistChange, SwapCredentials, MintSession, KeyVars, Ceremonies
<1>3. ASSUME NEW stage \in {"persist", "swap", "mint"}
      PROVE  /\ [change EXCEPT !.stage = stage] \in Change
             /\ [change EXCEPT !.stage = stage].kind = change.kind
             /\ [change EXCEPT !.stage = stage].next = change.next
             /\ [change EXCEPT !.stage = stage].stage = stage
  BY <1>1 DEF Change
<1>4. CASE PersistChange
  <2>1. UNCHANGED <<gen, auth>> /\ saved' \in {saved, Edited}
    BY <1>4 DEF PersistChange
  <2>2. change' = NoWork \/ change' = [change EXCEPT !.stage = "swap"]
    BY <1>4 DEF PersistChange
  <2>3. Edited \in Factors
    BY <1>1 DEF Edited, Factors
  <2>4. Transaction'
    BY <1>1, <1>3, <2>1, <2>2, Kinds DEF Transaction, TwoFactor
  <2>5. QED
    BY <1>1, <1>2, <2>1, <2>3, <2>4, TransactionTypes
<1>5. CASE SwapCredentials
  <2>1. auth' = change.next /\ gen' = gen + 1 /\ UNCHANGED saved
    BY <1>5 DEF SwapCredentials
  <2>2. \/ change' = NoWork
        \/ change.kind \in {"enable", "rotate"} /\ change' = [change EXCEPT !.stage = "mint"]
    BY <1>5 DEF SwapCredentials
  <2>3. Transaction'
    BY <1>1, <1>3, <2>1, <2>2, Kinds DEF Transaction, TwoFactor
  <2>4. QED
    BY <1>1, <1>2, <2>1, <2>3, TransactionTypes
<1>6. CASE MintSession
  <2>1. change' = NoWork /\ UNCHANGED <<gen, auth, saved>>
    BY <1>6 DEF MintSession
  <2>2. Transaction'
    BY <2>1, Kinds DEF Transaction
  <2>3. QED
    BY <1>1, <1>2, <2>1, <2>2, TransactionTypes
<1>7. QED
  BY <1>4, <1>5, <1>6

LEMMA RestartTypes == ASSUME AdminTypes, RestartServer PROVE AdminTypes'
BY Kinds DEF AdminTypes, RestartServer, Transaction, Factors

LEMMA CeremonyTypes ==
  ASSUME AdminTypes, NextStep \/ \E t \in Token :
           OfferToLogin(t) \/ OfferToSettings(t) \/ StartEnrolment(t) \/ LogOut(t) \/ Expire(t)
  PROVE  AdminTypes'
<1>1. UNCHANGED <<gen, auth, saved, change, keys, keyFile, commit, req>>
  BY DEF OfferToLogin, OfferToSettings, Offers, StartEnrolment, LogOut, Expire, NextStep,
         Credentials, KeyVars
<1>2. asserting' \in [Token -> SUBSET Passkey]
  BY DEF AdminTypes, OfferToLogin, OfferToSettings, Offers, StartEnrolment, LogOut, Expire, NextStep,
         Ceremonies
<1>3. step' \in 0 .. MaxStep
  BY AdminAssumption DEF AdminTypes, OfferToLogin, OfferToSettings, Offers, StartEnrolment, LogOut,
         Expire, NextStep
<1>4. QED
  BY <1>1, <1>2, <1>3, RequestsRest

LEMMA InitTypes == AdminInit => AdminTypes
BY AdminAssumption, Kinds DEF AdminInit, AdminTypes, Transaction, Factors

(* Requests, transactions and passkey changes are what they seem.          *)
LEMMA TypesKept == AdminTypes /\ [AdminNext]_adminVars => AdminTypes'
<1>1. ASSUME AdminTypes, UNCHANGED adminVars PROVE AdminTypes'
  BY <1>1, RequestsRest DEF adminVars, AdminTypes
<1>2. ASSUME AdminTypes, NEW c \in Client,
             \/ Authorize(c) \/ Redirect(c) \/ BasicLogin(c)
             \/ Verify(c) \/ ExchangePending(c) \/ RejectCode(c)
             \/ AssertLogin(c) \/ AssertSettings(c)
             \/ FinishPasskeyLogin(c) \/ FinishPasskeyConfirm(c)
             \/ Confirm(c) \/ FinishConfirm(c)
             \/ Enrol(c) \/ RemovePasskey(c) \/ RefuseCommit(c) \/ BeginCommit(c)
             \/ HangUp(c)
      PROVE  AdminTypes'
  BY <1>2, RequestStep, AnswerStep, BeginCommitTypes DEF Answers
<1>3. QED
  BY <1>1, <1>2, CeremonyTypes, CommitTypes, ChangesTypes, SwapTypes, RestartTypes
  DEF AdminNext, Changes

-----------------------------------------------------------------------------
(* Sessions follow the credentials.  What a handler does to the store      *)
(* leaves it in force.                                                     *)
LEMMA NewSession ==
  ASSUME AdminTypes, NEW kind \in {"pending", "full", "basic"}, NEW totp \in Nat,
         kind = "basic" <=> ~TwoFactor(auth), kind = "full" => totp = auth.totp
  PROVE  Session(kind, auth.pw, totp) \in Stored /\ InForce(Session(kind, auth.pw, totp))
BY DEF Session, Stored, InForce, AdminTypes, Factors

LEMMA PutSession ==
  ASSUME NEW store, StoreInForce(store), NEW t \in Token, NEW s,
         s = Free \/ (s \in Stored /\ InForce(s))
  PROVE  StoreInForce([store EXCEPT ![t] = s])
BY DEF StoreInForce

LEMMA OpenedInForce ==
  ASSUME CredentialsInv, NEW t \in Token, NEW kind \in {"pending", "full", "basic"},
         NEW totp \in Nat, kind = "basic" <=> ~TwoFactor(auth), kind = "full" => totp = auth.totp
  PROVE  StoreInForce(Opened(t, kind, auth.pw, totp))
BY NewSession, PutSession DEF Opened, CredentialsInv

LEMMA LiveSession ==
  ASSUME StoreInForce(sessions), NEW t \in Token, Live(t)
  PROVE  sessions[t] \in Stored /\ InForce(sessions[t])
BY Kinds DEF StoreInForce, Live

LEMMA ConfirmedInForce ==
  ASSUME CredentialsInv, NEW t \in Token, Live(t), NEW b \in BOOLEAN
  PROVE  StoreInForce([sessions EXCEPT ![t].confirmed = b])
<1> DEFINE s == [sessions[t] EXCEPT !.confirmed = b]
<1>1. sessions[t] \in Stored /\ InForce(sessions[t])
  BY LiveSession DEF CredentialsInv
<1>2. s \in Stored /\ InForce(s)
  BY <1>1 DEF Stored, InForce
<1>3. [sessions EXCEPT ![t].confirmed = b] = [sessions EXCEPT ![t] = s]
  BY DEF CredentialsInv, StoreInForce
<1>4. QED
  BY <1>2, <1>3, PutSession DEF CredentialsInv

LEMMA ExchangedInForce ==
  ASSUME CredentialsInv, NEW p \in Of("pending"), NEW t \in Token
  PROVE  StoreInForce(Exchanged(p, t, auth.totp))
<1> DEFINE s == Session("full", auth.pw, auth.totp)
<1>1. p \in Token /\ sessions[p].under.pw = auth.pw /\ TwoFactor(auth)
  BY LiveSession DEF Of, Live, InForce, CredentialsInv
<1>2. s \in Stored /\ InForce(s)
  BY <1>1, NewSession DEF CredentialsInv, AdminTypes, Factors
<1>3. Exchanged(p, t, auth.totp) = [sessions EXCEPT ![p] = Free, ![t] = s]
  BY <1>1 DEF Exchanged
<1> HIDE DEF s
<1>4. QED
  BY <1>1, <1>2, <1>3 DEF CredentialsInv, StoreInForce

LEMMA WithPendingInForce ==
  ASSUME CredentialsInv, NEW t \in Token, TwoFactor(auth), NEW store \in WithPending(t, auth.pw)
  PROVE  StoreInForce(store)
<1>1. StoreInForce(Opened(t, "pending", auth.pw, 0))
  BY OpenedInForce
<1>2. \A e \in Token : StoreInForce([Opened(t, "pending", auth.pw, 0) EXCEPT ![e] = Free])
  BY <1>1, PutSession
<1>3. QED
  BY <1>1, <1>2 DEF WithPending, Of

LEMMA FailedInForce ==
  ASSUME CredentialsInv, NEW p \in Of("pending")
  PROVE  StoreInForce([sessions EXCEPT ![p] = FailedOnce(@)])
<1> DEFINE s == sessions[p]
<1>1. p \in Token /\ s \in Stored /\ InForce(s)
  BY LiveSession DEF Of, Live, CredentialsInv
<1>2. s.failed + 1 \in Nat
  BY <1>1 DEF Stored
<1>3. FailedOnce(s) = Free \/ (FailedOnce(s) \in Stored /\ InForce(FailedOnce(s)))
  BY <1>1, <1>2 DEF FailedOnce, Stored, InForce
<1>4. [sessions EXCEPT ![p] = FailedOnce(@)] = [sessions EXCEPT ![p] = FailedOnce(s)]
  BY <1>1 DEF CredentialsInv, StoreInForce
<1>5. QED
  BY <1>1, <1>3, <1>4, PutSession DEF CredentialsInv

LEMMA StoreReplaced ==
  ASSUME NEW store, StoreInForce(store), sessions' = store, UNCHANGED <<gen, auth>>
  PROVE  StoreInForce(sessions)'
BY DEF StoreInForce, InForce, TwoFactor

LEMMA StoreRests ==
  ASSUME CredentialsInv, UNCHANGED <<sessions, gen, auth>>
  PROVE  StoreInForce(sessions)'
BY DEF CredentialsInv, StoreInForce, InForce, TwoFactor

(* The kind of a session tells whether a second factor is in force.  What  *)
(* a login checked before it waited for the locks, it checks again.        *)
LEMMA OfKind ==
  ASSUME CredentialsInv, NEW kind \in {"pending", "full", "basic"}, NEW t \in Of(kind)
  PROVE  t \in Token /\ Live(t) /\ (kind # "basic" => TwoFactor(auth))
BY LiveSession DEF Of, Live, InForce, CredentialsInv

LEMMA LoginStep ==
  ASSUME CredentialsInv, NEW c \in Client, Answers(c)
  PROVE  StoreInForce(sessions)'
<1>1. UNCHANGED <<gen, auth>>
  BY DEF Answers, Redirect, BasicLogin, ExchangePending, RejectCode, FinishPasskeyLogin,
         FinishPasskeyConfirm, FinishConfirm, Credentials
<1>2. /\ req[c] \in Request /\ req[c].kind # "none"
      /\ req[c].token \in Token /\ StoreInForce(sessions)
  BY RequestKinds DEF Answers, Redirect, BasicLogin, ExchangePending, RejectCode,
     FinishPasskeyLogin, FinishPasskeyConfirm, FinishConfirm, At, CredentialsInv, AdminTypes
<1>3. CASE Redirect(c)
  <2>1. \/ sessions' = sessions
        \/ sessions' \in WithPending(req[c].token, auth.pw) /\ TwoFactor(auth)
    BY <1>3 DEF Redirect, Rechecked, StillAuthorized
  <2>2. QED
    BY <1>1, <1>2, <2>1, WithPendingInForce, StoreReplaced
<1>4. CASE BasicLogin(c)
  <2>1. \/ sessions' = sessions
        \/ sessions' = Opened(req[c].token, "basic", auth.pw, 0) /\ ~TwoFactor(auth)
    BY <1>4 DEF BasicLogin, Rechecked, StillAuthorized
  <2>2. QED
    BY <1>1, <1>2, <2>1, OpenedInForce, StoreReplaced
<1>5. CASE ExchangePending(c)
  <2>1. /\ sessions' = Exchanged(req[c].binding, req[c].token, auth.totp)
        /\ req[c].binding \in Of("pending")
    BY <1>5 DEF ExchangePending
  <2>2. QED
    BY <1>1, <1>2, <2>1, ExchangedInForce, StoreReplaced
<1>6. CASE RejectCode(c)
  <2>1. \/ sessions' = sessions
        \/ \E p \in Of("pending") : sessions' = [sessions EXCEPT ![p] = FailedOnce(@)]
    BY <1>6 DEF RejectCode
  <2>2. QED
    BY <1>1, <1>2, <2>1, FailedInForce, StoreReplaced
<1>7. CASE FinishPasskeyLogin(c)
  <2>1. \/ sessions' = sessions
        \/ /\ sessions' = Exchanged(req[c].binding, req[c].token, auth.totp)
           /\ req[c].binding \in Of("pending")
    BY <1>7 DEF FinishPasskeyLogin
  <2>2. QED
    BY <1>1, <1>2, <2>1, ExchangedInForce, StoreReplaced
<1>8. CASE FinishPasskeyConfirm(c) \/ FinishConfirm(c)
  <2>1. \/ sessions' = sessions
        \/ \E t \in Token : Live(t) /\ sessions' = [sessions EXCEPT ![t].confirmed = TRUE]
    BY <1>2, <1>8, OfKind DEF FinishPasskeyConfirm, FinishConfirm, Confirmed
  <2>2. QED
    BY <1>1, <1>2, <2>1, ConfirmedInForce, StoreReplaced
<1>9. QED
  BY <1>3, <1>4, <1>5, <1>6, <1>7, <1>8 DEF Answers

(* A settings transaction may confirm the session it came with.            *)
LEMMA InlineKeepsStore ==
  ASSUME CredentialsInv, InlineConfirmed, UNCHANGED <<gen, auth>>
  PROVE  StoreInForce(sessions)'
<1>1. \/ sessions' = sessions
      \/ \E t \in Of(ConfirmKind) : sessions' = [sessions EXCEPT ![t].confirmed = TRUE]
  BY DEF InlineConfirmed, Confirmed
<1>2. \A t \in Of(ConfirmKind) : t \in Token /\ Live(t)
  BY OfKind DEF ConfirmKind
<1>3. QED
  BY <1>1, <1>2, ConfirmedInForce, StoreReplaced DEF CredentialsInv

LEMMA ChangesKeepStore ==
  ASSUME CredentialsInv, Changes PROVE StoreInForce(sessions)'
<1>1. UNCHANGED <<gen, auth>>
  BY DEF Changes, ChangePassword, EnableTwoFactor, RotateSecret, DisableTwoFactor
<1>2. InlineConfirmed \/ UNCHANGED sessions
  BY DEF Changes, ChangePassword, EnableTwoFactor, RotateSecret, DisableTwoFactor
<1>3. QED
  BY <1>1, <1>2, InlineKeepsStore, StoreRests

(* The session minted after codes were enabled or rotated belongs to them, *)
(* since the settings lock is still held.                                  *)
LEMMA MintKeepsStore ==
  ASSUME CredentialsInv, MintSession PROVE StoreInForce(sessions)'
<1>1. UNCHANGED <<gen, auth>>
  BY DEF MintSession
<1>2. TwoFactor(auth) /\ change.next = auth /\ auth.totp \in Nat
  <2>1. change \in Change /\ change.stage = "mint" /\ Transaction
    BY ChangeRuns DEF MintSession, CredentialsInv, AdminTypes
  <2>2. change.kind \in {"enable", "rotate"}
    BY <2>1 DEF Change, Transaction
  <2>3. QED
    BY <2>1, <2>2 DEF Transaction, TwoFactor, CredentialsInv, AdminTypes, Factors
<1>3. \/ sessions' = sessions
      \/ \E t \in Token : sessions' = Opened(t, "full", auth.pw, auth.totp)
  BY <1>2 DEF MintSession
<1>4. QED
  BY <1>1, <1>2, <1>3, OpenedInForce, StoreReplaced DEF CredentialsInv

LEMMA EndsKeepStore ==
  ASSUME CredentialsInv, NEW t \in Token, LogOut(t) \/ Expire(t)
  PROVE  StoreInForce(sessions)'
<1>1. UNCHANGED <<gen, auth>>
  BY DEF LogOut, Expire, Credentials
<1>2. \/ sessions' = sessions
      \/ sessions' = [sessions EXCEPT ![t] = Free]
      \/ Live(t) /\ sessions' = [sessions EXCEPT ![t].confirmed = FALSE]
  BY DEF LogOut, Expire
<1>3. QED
  BY <1>1, <1>2, PutSession, ConfirmedInForce, StoreReplaced DEF CredentialsInv

LEMMA StoreKept == CredentialsInv /\ [AdminNext]_adminVars => StoreInForce(sessions)'
<1> SUFFICES ASSUME CredentialsInv, [AdminNext]_adminVars PROVE StoreInForce(sessions)'
  OBVIOUS
<1>1. CASE UNCHANGED adminVars
  BY <1>1, StoreRests DEF adminVars
<1>2. ASSUME NEW c \in Client,
             \/ Authorize(c) \/ Verify(c) \/ AssertLogin(c) \/ AssertSettings(c) \/ Confirm(c)
             \/ Enrol(c) \/ RemovePasskey(c) \/ RefuseCommit(c) \/ BeginCommit(c) \/ HangUp(c)
      PROVE  StoreInForce(sessions)'
  <2>1. UNCHANGED <<sessions, gen, auth>>
    BY <1>2 DEF Authorize, Verify, AssertLogin, AssertSettings, TakeAssertion, Confirm, Enrol,
                RemovePasskey, RefuseCommit, BeginCommit, HangUp, Credentials
  <2>2. QED
    BY <2>1, StoreRests
<1>3. ASSUME NEW t \in Token, OfferToLogin(t) \/ OfferToSettings(t) \/ StartEnrolment(t)
      PROVE  StoreInForce(sessions)'
  BY <1>3, StoreRests DEF OfferToLogin, OfferToSettings, Offers, StartEnrolment, Credentials
<1>4. CASE WritePasskeys \/ WriteFails \/ Publish \/ NextStep \/ PersistChange
  BY <1>4, StoreRests DEF WritePasskeys, WriteFails, Publish, NextStep, PersistChange, Credentials
<1>5. CASE SwapCredentials \/ RestartServer
  <2>1. sessions' = Cleared
    BY <1>5 DEF SwapCredentials, RestartServer
  <2>2. QED
    BY <2>1 DEF Cleared, StoreInForce
<1>6. QED
  BY <1>1, <1>2, <1>3, <1>4, <1>5, LoginStep, ChangesKeepStore, MintKeepsStore, EndsKeepStore
  DEF AdminNext, Answers, Changes

(* No browser session outlives the credentials it was obtained with: its   *)
(* password, as its handler read it before it gave up the locks, and the   *)
(* secret its second factor was proved with are those in force.  A login   *)
(* checks password and kind again when it inserts (middleware.rs), a code  *)
(* is matched where its session is inserted, a session minted by enabling  *)
(* codes is of the credentials just put in force, and the swap of          *)
(* readonly_auth clears what there is (auth.rs).                           *)
THEOREM SessionsBelong == AdminSpec => []SessionsFollowCredentials
<1>1. AdminInit => CredentialsInv
  BY InitTypes DEF AdminInit, CredentialsInv, StoreInForce, Cleared
<1>2. CredentialsInv /\ [AdminNext]_adminVars => CredentialsInv'
  BY TypesKept, StoreKept DEF CredentialsInv
<1>3. CredentialsInv => SessionsFollowCredentials
  BY LiveSession DEF CredentialsInv, SessionsFollowCredentials, InForce
<1>4. QED
  BY <1>1, <1>2, <1>3, PTL DEF AdminSpec

-----------------------------------------------------------------------------
(* No code serves twice.  A step that was used stays marked for as long as *)
(* its code could match again, and a code that was shown is of a step      *)
(* marked since the last restart; so a code accepted now was never shown.  *)
Kept(s) == used[s] = 0 \/ used[s] >= s + 2
CodesKept ==
  /\ used \in [Steps -> Nat]
  /\ \A s \in Steps : Kept(s)
  /\ \A code \in shown : code[2] \in Steps /\ used[code[2]] # 0
  /\ CodesOpenOnce
ProofInTime == change.kind # "none" => \A s \in change.proof : s <= step + 1
CodesInv == AdminTypes /\ CodesKept /\ ProofInTime

LEMMA MarksKeep ==
  ASSUME CodesKept, step \in 0 .. MaxStep, NEW S, \A s \in S : s \in Steps /\ s <= step + 1
  PROVE  /\ Marked(S) \in [Steps -> Nat]
         /\ \A s \in Steps : IF s \in S THEN Marked(S)[s] >= s + 2 ELSE Marked(S)[s] = used[s]
         /\ \A s \in Steps : used[s] # 0 => Marked(S)[s] # 0
<1>1. MaxStep \in Nat /\ ReplayRetention \in Nat /\ ReplayRetention > 2
  BY AdminAssumption
<1>2. step \in Nat /\ step + ReplayRetention \in Nat
  BY <1>1
<1>3. \A s \in Steps : s \in Nat
  BY <1>1 DEF Steps
<1>4. Marked(S) = [s \in Steps |-> IF s \in S THEN step + ReplayRetention ELSE used[s]]
  BY DEF Marked, Marks
<1>5. used \in [Steps -> Nat]
  BY DEF CodesKept
<1>6. QED
  BY <1>1, <1>2, <1>3, <1>4, <1>5

LEMMA AcceptKeeps ==
  ASSUME CodesKept, step \in 0 .. MaxStep, NEW secret, NEW S \in Matching, Accept(secret, S)
  PROVE  CodesKept'
<1>1. MaxStep \in Nat /\ step \in Nat
  BY AdminAssumption
<1>2. S \in SUBSET Steps /\ S \subseteq Window
  BY StepsMatch
<1>3. \A s \in Steps : s \in Nat
  BY <1>1 DEF Steps
<1>4. \A s \in S : s \in Steps /\ s <= step + 1
  BY <1>1, <1>2, <1>3 DEF Window
<1>5. used \in [Steps -> Nat]
  BY DEF CodesKept
<1>6. PICK s \in S : used[s] <= step
  BY <1>1, <1>2, <1>5 DEF Accept, Unused, InUse
<1>7. used[s] = 0
  BY <1>1, <1>2, <1>3, <1>5, <1>6 DEF CodesKept, Kept, Window
<1>8. <<secret, s>> \in Shows(secret, S) /\ <<secret, s>> \notin shown
  BY <1>6, <1>7 DEF CodesKept, Shows
<1>9. replays' = 0
  BY <1>8 DEF Accept, CodesKept, CodesOpenOnce
<1>10. /\ used' = Marked(S) /\ shown' = shown \cup Shows(secret, S)
       /\ used' \in [Steps -> Nat]
  BY <1>4, MarksKeep DEF Accept
<1>11. \A x \in Steps : Kept(x)'
  BY <1>4, <1>10, MarksKeep DEF CodesKept, Kept
<1>12. ASSUME NEW code \in shown' PROVE code[2] \in Steps /\ used'[code[2]] # 0
  <2>1. CASE code \in shown
    BY <1>4, <1>10, <2>1, MarksKeep DEF CodesKept
  <2>2. CASE code \in Shows(secret, S)
    <3>1. code[2] \in S
      BY <2>2 DEF Shows
    <3>2. code[2] \in Steps /\ code[2] \in Nat /\ used'[code[2]] >= code[2] + 2
      BY <1>3, <1>4, <1>10, <3>1, MarksKeep
    <3>3. used'[code[2]] \in Nat
      BY <1>10, <3>2
    <3>4. QED
      BY <3>2, <3>3
  <2>3. QED
    BY <1>10, <2>1, <2>2
<1>13. QED
  BY <1>9, <1>10, <1>11, <1>12 DEF CodesKept, CodesOpenOnce

LEMMA CodesRest == ASSUME CodesKept, UNCHANGED CodeVars PROVE CodesKept'
BY DEF CodesKept, Kept, CodesOpenOnce, CodeVars

LEMMA InlineKeepsCodes ==
  ASSUME CodesKept, step \in 0 .. MaxStep, InlineConfirmed PROVE CodesKept'
<1>1. UNCHANGED CodeVars \/ \E S \in Matching : Accept(auth.totp, S)
  BY DEF InlineConfirmed
<1>2. QED
  BY <1>1, CodesRest, AcceptKeeps

LEMMA ChangesKeepCodes == ASSUME CodesInv, Changes PROVE CodesKept' /\ ProofInTime'
<1>1. CodesKept /\ step \in 0 .. MaxStep /\ MaxStep \in Nat /\ step \in Nat
  BY AdminAssumption DEF CodesInv, AdminTypes
<1>2. step' = step
  BY DEF Changes, ChangePassword, EnableTwoFactor, RotateSecret, DisableTwoFactor
<1>3. CodesKept'
  <2>1. InlineConfirmed \/ \E S \in Matching : Accept(gen + 2, S)
    BY DEF Changes, ChangePassword, EnableTwoFactor, RotateSecret, DisableTwoFactor
  <2>2. QED
    BY <1>1, <2>1, InlineKeepsCodes, AcceptKeeps
<1>4. change'.proof = {} \/ \E S \in Matching : change'.proof = S
  BY DEF Changes, ChangePassword, EnableTwoFactor, RotateSecret, DisableTwoFactor, ChangeTo
<1>5. ASSUME NEW S \in Matching, NEW s \in S PROVE s <= step + 1
  <2>1. s \in Window /\ s \in Steps
    BY <1>1, <1>5, StepsMatch
  <2>2. QED
    BY <1>1, <2>1 DEF Window, Steps
<1>6. ProofInTime'
  BY <1>2, <1>4, <1>5 DEF ProofInTime
<1>7. QED
  BY <1>3, <1>6

(* The swap spends the proof of a rotation, unless the confirmation with   *)
(* the old secret has spent its steps already.                             *)
LEMMA SwapKeepsCodes == ASSUME CodesInv, SwapCredentials PROVE CodesKept'
<1> DEFINE S == change.proof
<1>1. /\ CodesKept /\ step \in 0 .. MaxStep /\ MaxStep \in Nat /\ step \in Nat
      /\ used \in [Steps -> Nat] /\ \A s \in Steps : s \in Nat
  BY AdminAssumption DEF CodesInv, AdminTypes, CodesKept, Steps
<1>2. S \subseteq Steps /\ \A s \in S : s <= step + 1
  BY ChangeRuns DEF SwapCredentials, CodesInv, ProofInTime
<1>3. /\ used' = IF Unused(S) THEN Marked(S) ELSE used
      /\ shown' = shown \cup Shows(change.next.totp, S)
      /\ replays' = replays
  BY DEF SwapCredentials, SpendsProof, ProofSpent
<1> HIDE DEF S
<1>4. used' \in [Steps -> Nat]
  BY <1>1, <1>2, <1>3, MarksKeep
<1>5. ASSUME NEW s \in Steps
      PROVE  /\ used'[s] = used[s] \/ used'[s] >= s + 2
             /\ used[s] # 0 => used'[s] # 0
  <2>1. CASE Unused(S)
    BY <1>1, <1>2, <1>3, <2>1, MarksKeep
  <2>2. CASE ~Unused(S)
    BY <1>3, <2>2
  <2>3. QED
    BY <2>1, <2>2
<1>6. ASSUME NEW s \in S PROVE s \in Steps /\ used'[s] # 0
  <2>1. s \in Steps /\ s \in Nat /\ used'[s] \in Nat /\ used[s] \in Nat
    BY <1>1, <1>2, <1>4
  <2>2. CASE Unused(S)
    <3>1. used'[s] >= s + 2
      BY <1>1, <1>2, <1>3, <2>1, <2>2, MarksKeep
    <3>2. QED
      BY <2>1, <3>1
  <2>3. CASE ~Unused(S)
    <3>1. used[s] > step
      BY <2>3 DEF Unused, InUse
    <3>2. QED
      BY <1>1, <1>3, <2>1, <2>3, <3>1
  <2>4. QED
    BY <2>1, <2>2, <2>3
<1>7. \A s \in Steps : Kept(s)'
  BY <1>1, <1>4, <1>5 DEF CodesKept, Kept
<1>8. ASSUME NEW code \in shown' PROVE code[2] \in Steps /\ used'[code[2]] # 0
  <2>1. CASE code \in shown
    BY <1>1, <1>5, <2>1 DEF CodesKept
  <2>2. CASE code \in Shows(change.next.totp, S)
    BY <1>6, <2>2 DEF Shows
  <2>3. QED
    BY <1>3, <2>1, <2>2
<1>9. CodesOpenOnce'
  BY <1>1, <1>3 DEF CodesKept, CodesOpenOnce
<1>10. QED
  BY <1>4, <1>7, <1>8, <1>9 DEF CodesKept

LEMMA ProofRests ==
  ASSUME CodesInv, step' \in Nat, step' >= step,
         change' = NoWork \/ (change.kind # "none" /\ change'.proof = change.proof) \/ change' = change
  PROVE  ProofInTime'
<1>1. step \in Nat /\ MaxStep \in Nat
  BY AdminAssumption DEF CodesInv, AdminTypes
<1>2. change.kind # "none" => \A s \in change.proof : s \in Nat /\ s <= step + 1
  BY <1>1, ChangeRuns DEF CodesInv, ProofInTime, Steps
<1>3. CASE change' = NoWork
  BY <1>3, Kinds DEF ProofInTime
<1>4. CASE change.kind # "none" /\ change'.proof = change.proof
  BY <1>1, <1>2, <1>4 DEF ProofInTime
<1>5. CASE change' = change
  BY <1>1, <1>2, <1>5 DEF ProofInTime
<1>6. QED
  BY <1>3, <1>4, <1>5

LEMMA CodesStep == CodesInv /\ [AdminNext]_adminVars => CodesKept' /\ ProofInTime'
<1> SUFFICES ASSUME CodesInv, [AdminNext]_adminVars PROVE CodesKept' /\ ProofInTime'
  OBVIOUS
<1>1. CodesKept /\ step \in 0 .. MaxStep /\ MaxStep \in Nat /\ step \in Nat
  BY AdminAssumption DEF CodesInv, AdminTypes
<1>2. ASSUME UNCHANGED <<step, change>> PROVE ProofInTime'
  BY <1>1, <1>2, ProofRests
<1>3. CASE UNCHANGED adminVars
  BY <1>1, <1>2, <1>3, CodesRest DEF adminVars, CodeVars
<1>4. ASSUME NEW c \in Client, ExchangePending(c) \/ Confirm(c)
      PROVE  CodesKept' /\ ProofInTime'
  <2>1. UNCHANGED <<step, change>>
    BY <1>4 DEF ExchangePending, Confirm, Credentials
  <2>2. UNCHANGED CodeVars \/ \E S \in Matching : Accept(auth.totp, S)
    BY <1>4 DEF ExchangePending, Confirm
  <2>3. QED
    BY <1>1, <1>2, <2>1, <2>2, CodesRest, AcceptKeeps
<1>5. ASSUME NEW c \in Client,
             \/ Authorize(c) \/ Redirect(c) \/ BasicLogin(c) \/ Verify(c) \/ RejectCode(c)
             \/ AssertLogin(c) \/ AssertSettings(c) \/ FinishPasskeyLogin(c)
             \/ FinishPasskeyConfirm(c) \/ FinishConfirm(c) \/ Enrol(c) \/ RemovePasskey(c)
             \/ RefuseCommit(c) \/ BeginCommit(c) \/ HangUp(c)
      PROVE  CodesKept' /\ ProofInTime'
  <2>1. UNCHANGED <<step, change, CodeVars>>
    BY <1>5 DEF Authorize, Redirect, BasicLogin, Verify, RejectCode, AssertLogin, AssertSettings,
                TakeAssertion, FinishPasskeyLogin, FinishPasskeyConfirm, FinishConfirm, Enrol,
                RemovePasskey, RefuseCommit, BeginCommit, HangUp, Credentials
  <2>2. QED
    BY <1>1, <1>2, <2>1, CodesRest
<1>6. ASSUME NEW t \in Token,
             OfferToLogin(t) \/ OfferToSettings(t) \/ StartEnrolment(t) \/ LogOut(t) \/ Expire(t)
      PROVE  CodesKept' /\ ProofInTime'
  <2>1. UNCHANGED <<step, change, CodeVars>>
    BY <1>6 DEF OfferToLogin, OfferToSettings, Offers, StartEnrolment, LogOut, Expire, Credentials
  <2>2. QED
    BY <1>1, <1>2, <2>1, CodesRest
<1>7. CASE WritePasskeys \/ WriteFails \/ Publish
  <2>1. UNCHANGED <<step, change, CodeVars>>
    BY <1>7 DEF WritePasskeys, WriteFails, Publish, Credentials
  <2>2. QED
    BY <1>1, <1>2, <2>1, CodesRest
<1>8. CASE NextStep
  <2>1. step' = step + 1 /\ UNCHANGED <<change, CodeVars>>
    BY <1>8 DEF NextStep, Credentials
  <2>2. QED
    BY <1>1, <2>1, CodesRest, ProofRests
<1>9. CASE PersistChange \/ MintSession
  <2>1. /\ UNCHANGED <<step, CodeVars>>
        /\ change' = NoWork \/ (change.kind # "none" /\ change'.proof = change.proof)
    <3>1. change.kind # "none" /\ UNCHANGED <<step, CodeVars>>
      BY <1>9 DEF PersistChange, MintSession
    <3>2. change \in Change
      BY <3>1, ChangeRuns DEF CodesInv
    <3>3. change' = NoWork \/ change' = [change EXCEPT !.stage = "swap"]
      BY <1>9 DEF PersistChange, MintSession
    <3>4. QED
      BY <3>1, <3>2, <3>3 DEF Change
  <2>2. QED
    BY <1>1, <2>1, CodesRest, ProofRests
<1>10. CASE SwapCredentials
  <2>1. /\ step' = step
        /\ change' = NoWork \/ (change.kind # "none" /\ change'.proof = change.proof)
    <3>1. change.kind # "none" /\ step' = step
      BY <1>10 DEF SwapCredentials
    <3>2. change \in Change
      BY <3>1, ChangeRuns DEF CodesInv
    <3>3. change' = NoWork \/ change' = [change EXCEPT !.stage = "mint"]
      BY <1>10 DEF SwapCredentials
    <3>4. QED
      BY <3>1, <3>2, <3>3 DEF Change
  <2>2. QED
    BY <1>1, <1>10, <2>1, SwapKeepsCodes, ProofRests
<1>11. CASE RestartServer
  <2>1. /\ used' = [s \in Steps |-> 0] /\ shown' = {} /\ replays' = replays
        /\ change' = NoWork /\ step' = step
    BY <1>11 DEF RestartServer
  <2>2. CodesKept'
    BY <1>1, <2>1 DEF CodesKept, Kept, CodesOpenOnce
  <2>3. QED
    BY <1>1, <2>1, <2>2, ProofRests
<1>12. QED
  BY <1>3, <1>4, <1>5, <1>6, <1>7, <1>8, <1>9, <1>10, <1>11, ChangesKeepCodes
  DEF AdminNext, Changes

(* No code opens or confirms anything twice between two restarts: the      *)
(* check and the mark of used_totp_steps are one step under the write lock *)
(* of readonly_auth, and a mark outlives the drift window (auth.rs).       *)
THEOREM CodesAreSpent == AdminSpec => []CodesOpenOnce
<1>1. AdminInit => CodesInv
  BY InitTypes, Kinds
  DEF AdminInit, CodesInv, CodesKept, Kept, ProofInTime, CodesOpenOnce
<1>2. CodesInv /\ [AdminNext]_adminVars => CodesInv'
  BY TypesKept, CodesStep DEF CodesInv
<1>3. CodesInv => CodesOpenOnce
  BY DEF CodesInv, CodesKept
<1>4. QED
  BY <1>1, <1>2, <1>3, PTL DEF AdminSpec

-----------------------------------------------------------------------------
(* Removed passkeys stay removed.  A credential that is being registered   *)
(* is nobody else's and not in use; the change that runs was computed from *)
(* the keys in memory, which nobody else replaces while it holds           *)
(* mutation_lock.                                                          *)
Enrols(c, k) == req[c].kind = "enrol" /\ req[c].key = k
Holds(c, k)  == req[c].kind \in {"enrol", "waits"} /\ req[c].key = k

NewKeys ==
  \A c \in Client, k \in Passkey : Enrols(c, k) =>
     /\ k \notin keys \cup keyFile \cup removed
     /\ \A d \in Client : Holds(d, k) => d = c

Running ==
  commit.kind # "none" =>
     /\ commit.next = ChangedKeys(commit)
     /\ keyFile = IF commit.written THEN commit.next ELSE keys
     /\ commit.kind = "enrol" => commit.key \notin removed
     /\ commit.kind = "remove" => commit.key \in keys

KeysInv == NewKeys /\ Running /\ PasskeysStayRemoved

(* Requests that enrol nothing change nothing here.                        *)
LEMMA KeysRest ==
  ASSUME KeysInv, UNCHANGED KeyVars,
         \A c \in Client, k \in Passkey : (Enrols(c, k)' => Enrols(c, k)) /\ (Holds(c, k)' => Holds(c, k))
  PROVE  KeysInv'
<1>1. NewKeys'
  BY DEF KeysInv, NewKeys, KeyVars
<1>2. QED
  BY <1>1 DEF KeysInv, Running, PasskeysStayRemoved, ChangedKeys, KeyVars

LEMMA OtherRequest ==
  ASSUME KeysInv, req \in [Client -> Request], UNCHANGED KeyVars, NEW c \in Client, NEW r,
         Goes(c, r), r.kind \notin {"enrol", "waits"}
  PROVE  KeysInv'
<1>1. \A d \in Client, k \in Passkey : (Enrols(d, k)' => Enrols(d, k)) /\ (Holds(d, k)' => Holds(d, k))
  BY DEF Goes, Enrols, Holds
<1>2. QED
  BY <1>1, KeysRest

LEMMA EnrolKeepsKeys ==
  ASSUME KeysInv, AdminTypes, NEW c \in Client, Enrol(c) PROVE KeysInv'
<1>1. PICK t \in Token, k \in Passkey \ (keys \cup keyFile \cup removed \cup InCeremony) :
        Goes(c, [kind |-> "enrol", holds |-> {t}, token |-> t, key |-> k])
  BY DEF Enrol, Of
<1>2. UNCHANGED KeyVars /\ req \in [Client -> Request]
  BY DEF Enrol, AdminTypes
<1>3. ASSUME NEW d \in Client, NEW x \in Passkey
      PROVE  /\ Enrols(d, x)' <=> IF d = c THEN x = k ELSE Enrols(d, x)
             /\ Holds(d, x)' <=> IF d = c THEN x = k ELSE Holds(d, x)
  BY <1>1, <1>2 DEF Goes, Enrols, Holds
<1>4. ASSUME NEW d \in Client PROVE ~Holds(d, k) /\ ~Enrols(d, k)
  BY <1>1 DEF InCeremony, Holds, Enrols
<1>5. NewKeys'
  <2>1. keys' = keys /\ keyFile' = keyFile /\ removed' = removed
    BY <1>2 DEF KeyVars
  <2>2. k \notin keys \cup keyFile \cup removed
    BY <1>1
  <2>3. QED
    BY <1>3, <1>4, <2>1, <2>2 DEF KeysInv, NewKeys
<1>6. QED
  BY <1>2, <1>5 DEF KeysInv, Running, PasskeysStayRemoved, ChangedKeys, KeyVars

LEMMA BeginKeepsKeys ==
  ASSUME KeysInv, AdminTypes, NEW c \in Client, BeginCommit(c) PROVE KeysInv'
<1> DEFINE r == req[c]
<1>1. /\ r.kind \in {"enrol", "remove", "assert"} /\ NoChangeRunning /\ ~Refused(r)
      /\ commit' = [kind |-> r.kind, next |-> ChangedKeys(r), key |-> r.key,
                    caller |-> c, written |-> FALSE]
      /\ Goes(c, [r EXCEPT !.kind = "waits"])
      /\ UNCHANGED <<keys, keyFile, removed>>
  BY DEF BeginCommit, MayCommit
<1>2. req \in [Client -> Request] /\ r \in AssertReq \cup KeyReq /\ r.key \in Passkey
  BY <1>1, RequestKinds DEF AdminTypes, AssertReq, KeyReq
<1>3. [r EXCEPT !.kind = "waits"].kind = "waits" /\ [r EXCEPT !.kind = "waits"].key = r.key
  BY <1>2 DEF AssertReq, KeyReq
<1>4. ASSUME NEW d \in Client, NEW k \in Passkey
      PROVE  /\ Enrols(d, k)' => d # c /\ Enrols(d, k)
             /\ Holds(d, k)' => Holds(d, k) \/ (d = c /\ k = r.key)
  BY <1>1, <1>2, <1>3 DEF Goes, Enrols, Holds
<1>5. ASSUME NEW d \in Client, NEW k \in Passkey, Enrols(d, k)', k = r.key PROVE FALSE
  <2>1. d # c /\ Enrols(d, k)
    BY <1>4, <1>5
  <2>2. k \notin keys /\ ~Holds(c, k)
    BY <2>1 DEF KeysInv, NewKeys
  <2>3. CASE r.kind = "enrol"
    BY <1>5, <2>2, <2>3 DEF Holds
  <2>4. CASE r.kind \in {"remove", "assert"}
    BY <1>1, <1>5, <2>2, <2>4 DEF Refused
  <2>5. QED
    BY <1>1, <2>3, <2>4
<1>6. NewKeys'
  <2> SUFFICES ASSUME NEW d \in Client, NEW k \in Passkey, Enrols(d, k)'
               PROVE  /\ k \notin keys \cup keyFile \cup removed
                      /\ \A e \in Client : Holds(e, k)' => e = d
    BY <1>1 DEF NewKeys
  <2>1. d # c /\ Enrols(d, k) /\ k # r.key
    BY <1>4, <1>5
  <2>2. /\ k \notin keys \cup keyFile \cup removed
        /\ \A e \in Client : Holds(e, k) => e = d
    BY <2>1 DEF KeysInv, NewKeys
  <2>3. QED
    BY <1>4, <2>1, <2>2
<1>7. Running'
  <2>1. commit'.next = ChangedKeys(r) /\ commit'.kind = r.kind /\ commit'.key = r.key /\ ~commit'.written
    BY <1>1
  <2>2. ChangedKeys(commit)' = ChangedKeys(r)
    BY <1>1, <2>1 DEF ChangedKeys
  <2>3. keyFile' = keys'
    BY <1>1 DEF KeysInv, PasskeysStayRemoved, NoChangeRunning
  <2>4. r.kind = "enrol" => r.key \notin removed'
    BY <1>1, <1>2 DEF KeysInv, NewKeys, Enrols
  <2>5. r.kind = "remove" => r.key \in keys'
    BY <1>1 DEF Refused
  <2>6. QED
    BY <2>1, <2>2, <2>3, <2>4, <2>5 DEF Running
<1>8. PasskeysStayRemoved'
  <2>1. commit'.kind # "none"
    BY <1>1
  <2>2. QED
    BY <1>1, <2>1 DEF KeysInv, PasskeysStayRemoved
<1>9. QED
  BY <1>6, <1>7, <1>8 DEF KeysInv

(* The change is written, fails to be, or is published.                    *)
LEMMA WriteKeepsKeys ==
  ASSUME KeysInv, AdminTypes, WritePasskeys \/ WriteFails \/ Publish PROVE KeysInv'
<1> DEFINE a == commit.caller
<1>1. /\ commit \in KeyChange /\ Waiting(commit) /\ a \in Client /\ Waits
      /\ commit.kind # "none" /\ req \in [Client -> Request]
      /\ req[a] \in AssertReq \cup KeyReq /\ commit.key \in Passkey
  BY RunningCommit DEF WritePasskeys, WriteFails, Publish, AdminTypes, KeyChange
<1>2. /\ commit.next = ChangedKeys(commit)
      /\ keyFile = IF commit.written THEN commit.next ELSE keys
      /\ commit.kind = "enrol" => commit.key \notin removed
      /\ commit.kind = "remove" => commit.key \in keys
      /\ removed \cap (keys \cup keyFile) = {}
  BY <1>1 DEF KeysInv, Running, PasskeysStayRemoved
<1>3. /\ commit.kind = "enrol" => commit.next = keys \cup {commit.key}
      /\ commit.kind = "remove" => commit.next = keys \ {commit.key}
      /\ commit.kind = "assert" => commit.next = keys
      /\ commit.kind \in {"enrol", "remove", "assert"}
  BY <1>1, <1>2 DEF ChangedKeys, KeyChange
<1>4. ASSUME NEW c \in Client, NEW k \in Passkey, Enrols(c, k)
      PROVE  k # commit.key /\ k \notin commit.next /\ k \notin keys \cup keyFile \cup removed
  <2>1. Holds(a, commit.key) /\ ~Enrols(a, k)
    BY <1>1 DEF Waiting, Holds, Enrols
  <2>2. k # commit.key
    BY <1>1, <1>4, <2>1 DEF KeysInv, NewKeys
  <2>3. k \notin keys \cup keyFile \cup removed
    BY <1>4 DEF KeysInv, NewKeys
  <2>4. QED
    BY <1>3, <2>2, <2>3
<1>5. removed \cap commit.next = {}
  BY <1>2, <1>3
<1>6. ASSUME NEW c \in Client, NEW k \in Passkey
      PROVE  (Enrols(c, k)' => Enrols(c, k)) /\ (Holds(c, k)' => Holds(c, k))
  <2>1. \/ req' = req
        \/ req' = [req EXCEPT ![a] = NoWork]
        \/ req' = [req EXCEPT ![a] = [req[a] EXCEPT !.kind = "asserted"]]
    BY <1>1 DEF WritePasskeys, WriteFails, Publish, Goes, Done
  <2>2. /\ NoWork.kind \notin {"enrol", "waits"}
        /\ [req[a] EXCEPT !.kind = "asserted"].kind \notin {"enrol", "waits"}
    BY <1>1 DEF NoWork, AssertReq, KeyReq
  <2>3. QED
    BY <1>1, <2>1, <2>2 DEF Enrols, Holds
<1>7. CASE WritePasskeys
  <2>1. /\ keyFile' = commit.next /\ commit' = [commit EXCEPT !.written = TRUE]
        /\ UNCHANGED <<keys, removed>>
    BY <1>7 DEF WritePasskeys
  <2>2. /\ commit'.kind = commit.kind /\ commit'.next = commit.next /\ commit'.key = commit.key
        /\ commit'.written
    BY <1>1, <2>1 DEF KeyChange
  <2>3. NewKeys'
    BY <1>4, <1>6, <2>1 DEF KeysInv, NewKeys
  <2>4. Running'
    <3>1. ChangedKeys(commit)' = ChangedKeys(commit)
      BY <2>1, <2>2 DEF ChangedKeys
    <3>2. QED
      BY <1>2, <2>1, <2>2, <3>1 DEF Running
  <2>5. PasskeysStayRemoved'
    BY <1>1, <1>2, <1>5, <2>1, <2>2 DEF PasskeysStayRemoved
  <2>6. QED
    BY <2>3, <2>4, <2>5 DEF KeysInv
<1>8. CASE WriteFails
  <2>1. ~commit.written /\ commit' = NoWork /\ UNCHANGED <<keys, keyFile, removed>>
    BY <1>8 DEF WriteFails
  <2>2. NewKeys'
    BY <1>4, <1>6, <2>1 DEF KeysInv, NewKeys
  <2>3. Running' /\ PasskeysStayRemoved'
    BY <1>2, <2>1, Kinds DEF Running, PasskeysStayRemoved
  <2>4. QED
    BY <2>2, <2>3 DEF KeysInv
<1>9. CASE Publish
  <2>1. /\ commit.written \/ commit.kind = "assert"
        /\ keys' = IF commit.written THEN commit.next ELSE keys
        /\ commit' = NoWork /\ keyFile' = keyFile
        /\ removed' = IF commit.kind = "remove" THEN removed \cup {commit.key} ELSE removed
    BY <1>9 DEF Publish
  <2>2. keys' = commit.next /\ keyFile' = commit.next
    BY <1>2, <1>3, <2>1
  <2>3. NewKeys'
    BY <1>4, <1>6, <2>1, <2>2 DEF KeysInv, NewKeys
  <2>4. removed' \cap commit.next = {}
    BY <1>3, <1>5, <2>1
  <2>5. Running' /\ PasskeysStayRemoved'
    BY <2>1, <2>2, <2>4, Kinds DEF Running, PasskeysStayRemoved
  <2>6. QED
    BY <2>3, <2>5 DEF KeysInv
<1>10. QED
  BY <1>7, <1>8, <1>9

LEMMA KeysStep == KeysInv /\ AdminTypes /\ [AdminNext]_adminVars => KeysInv'
<1> SUFFICES ASSUME KeysInv, AdminTypes, [AdminNext]_adminVars PROVE KeysInv'
  OBVIOUS
<1>1. req \in [Client -> Request]
  BY DEF AdminTypes
<1>2. ASSUME UNCHANGED <<req, KeyVars>> PROVE KeysInv'
  BY <1>2, KeysRest DEF Enrols, Holds
<1>3. CASE UNCHANGED adminVars
  BY <1>2, <1>3 DEF adminVars, KeyVars
<1>4. ASSUME NEW c \in Client, Answers(c) \/ RefuseCommit(c) \/ HangUp(c) PROVE KeysInv'
  <2>1. UNCHANGED KeyVars /\ Goes(c, NoWork)
    BY <1>4 DEF Answers, Redirect, BasicLogin, ExchangePending, RejectCode, FinishPasskeyLogin,
                FinishPasskeyConfirm, FinishConfirm, RefuseCommit, HangUp, Done, Goes
  <2>2. NoWork.kind \notin {"enrol", "waits"}
    BY DEF NoWork
  <2>3. QED
    BY <1>1, <2>1, <2>2, OtherRequest
<1>5. ASSUME NEW c \in Client,
             \/ Authorize(c) \/ Verify(c) \/ AssertLogin(c) \/ AssertSettings(c)
             \/ Confirm(c) \/ RemovePasskey(c)
      PROVE  KeysInv'
  <2>1. UNCHANGED KeyVars
    BY <1>5 DEF Authorize, Verify, AssertLogin, AssertSettings, TakeAssertion, Confirm, RemovePasskey
  <2>2. \/ \E t \in Token, kind \in {"redirect", "login", "confirm"} :
              Goes(c, [kind |-> kind, holds |-> {t}, token |-> t, saw |-> auth.pw])
        \/ \E p \in Token, t \in Token :
              Goes(c, [kind |-> "verify", holds |-> {p, t}, token |-> t, binding |-> p])
        \/ \E b \in Token, t \in Token : \E k \in asserting[b] :
              Goes(c, [kind |-> "assert", holds |-> {b, t}, token |-> t, binding |-> b, key |-> k])
        \/ \E t \in Token, k \in keys :
              Goes(c, [kind |-> "remove", holds |-> {t}, token |-> t, key |-> k])
    BY <1>5, BeginsWith
  <2>3. QED
    BY <1>1, <2>1, <2>2, OtherRequest
<1>6. ASSUME NEW t \in Token,
             OfferToLogin(t) \/ OfferToSettings(t) \/ StartEnrolment(t) \/ LogOut(t) \/ Expire(t)
      PROVE  KeysInv'
  BY <1>2, <1>6 DEF OfferToLogin, OfferToSettings, Offers, StartEnrolment, LogOut, Expire
<1>7. CASE Changes \/ PersistChange \/ SwapCredentials \/ MintSession \/ NextStep
  BY <1>2, <1>7 DEF Changes, ChangePassword, EnableTwoFactor, RotateSecret, DisableTwoFactor,
     PersistChange, SwapCredentials, MintSession, NextStep
<1>8. CASE RestartServer
  <2>1. /\ keys' = keyFile /\ keyFile' = keyFile /\ removed' = removed /\ commit' = NoWork
        /\ req' = [c \in Client |-> NoWork]
    BY <1>8 DEF RestartServer
  <2>2. NewKeys'
    BY <2>1, Kinds DEF NewKeys, Enrols
  <2>3. Running' /\ PasskeysStayRemoved'
    BY <2>1, Kinds DEF KeysInv, Running, PasskeysStayRemoved
  <2>4. QED
    BY <2>2, <2>3 DEF KeysInv
<1>9. QED
  BY <1>3, <1>4, <1>5, <1>6, <1>7, <1>8, EnrolKeepsKeys, BeginKeepsKeys, WriteKeepsKeys
  DEF AdminNext, Answers, Changes

LEMMA KeysStart == AdminInit => KeysInv
<1> SUFFICES ASSUME AdminInit PROVE KeysInv
  OBVIOUS
<1>1. commit = NoWork /\ req = [c \in Client |-> NoWork] /\ keyFile = keys /\ removed = {}
  BY DEF AdminInit
<1>2. QED
  BY <1>1, Kinds DEF KeysInv, NewKeys, Enrols, Running, PasskeysStayRemoved

(* A passkey whose removal was acknowledged never comes back, neither in   *)
(* memory nor from the file, although a change is computed, written and    *)
(* published in separate steps and a restart may come between them         *)
(* (commit_locked of passkeys.rs).                                         *)
THEOREM PasskeysAreGone == AdminSpec => []PasskeysStayRemoved
<1>1. AdminInit => AdminTypes /\ KeysInv
  BY InitTypes, KeysStart
<1>2. AdminTypes /\ KeysInv /\ [AdminNext]_adminVars => AdminTypes' /\ KeysInv'
  BY TypesKept, KeysStep
<1>3. KeysInv => PasskeysStayRemoved
  BY DEF KeysInv
<1>4. QED
  BY <1>1, <1>2, <1>3, PTL DEF AdminSpec

(* The second factor, both kinds together: no code serves twice and no     *)
(* removed passkey comes back (used_totp_steps of auth.rs, passkeys.rs).   *)
THEOREM FactorsAreSpent == AdminSpec => []FactorsStaySpent
BY CodesAreSpent, PasskeysAreGone, PTL DEF FactorsStaySpent

(* ---- admission of agents ---- *)

(* A socket, and what it knows: the hashes left to verify are of the       *)
(* credential it read, a verdict is of its own token and read credential,  *)
(* and an authorized socket has a token of the revision it carries.        *)
Socket ==
  [stage : Stage, kind : Kind, addr : ClientAddr \cup {NoAddr},
   token : Secret \cup {NoSecret}, tried : Nat, seen : Seq(Secret), left : Seq(Secret),
   ok : BOOLEAN, rev : Nat]

Informed(r, registry) ==
  /\ r.stage \in {"verify", "queued", "hash"} <=> r.left # <<>>
  /\ Range(r.left) \subseteq Range(r.seen)
  /\ r.ok => r.stage = "recheck" /\ r.token \in Range(r.seen)
  /\ r.rev > 0 => /\ r.stage \in {"session", "closing"}
                  /\ r.rev <= Len(registry) /\ r.token \in Range(registry[r.rev])

SocketsInv ==
  /\ known \in Seq(Seq(Secret)) /\ Len(known) > 0
  /\ conn \in [Conn -> Socket]
  /\ \A c \in Conn : Informed(conn[c], known)

(* While an address is blocked, the failures it adds and the sockets that  *)
(* may still fail are no more than the sockets the block found.            *)
GuessesInv ==
  /\ held \in [Addr -> SUBSET Conn] /\ late \in [Addr -> Nat]
  /\ \A a \in Addr :
       IF IsBlocked(failures, a)
         THEN late[a] + Cardinality(UnderWay(a)) <= Cardinality(held[a])
         ELSE late[a] = 0

-----------------------------------------------------------------------------
LEMMA HashesOfCredentials == Credential \subseteq Seq(Secret)
<1>1. \A s \in Secret : <<s>> \in Seq(Secret)
  OBVIOUS
<1>2. ASSUME NEW p \in Secret \X Secret PROVE p \in Seq(Secret)
  <2>1. p = <<p[1], p[2]>> /\ p[1] \in Secret /\ p[2] \in Secret
    OBVIOUS
  <2>2. \A s \in Secret, t \in Secret : <<s, t>> \in Seq(Secret)
    OBVIOUS
  <2>3. QED
    BY <2>1, <2>2
<1>3. <<>> \in Seq(Secret)
  OBVIOUS
<1>4. QED
  BY <1>1, <1>2, <1>3 DEF Credential

LEMMA HashesLeft ==
  ASSUME NEW q \in Seq(Secret), q # <<>>
  PROVE  /\ Head(q) \in Range(q) /\ Tail(q) \in Seq(Secret)
         /\ Range(Tail(q)) \subseteq Range(q)
         /\ Len(q) = 1 <=> Tail(q) = <<>>
<1>1. Len(q) \in Nat /\ Len(q) >= 1 /\ DOMAIN q = 1 .. Len(q)
  OBVIOUS
<1>2. Head(q) = q[1] /\ Tail(q) \in Seq(Secret) /\ Len(Tail(q)) = Len(q) - 1
  BY <1>1
<1>3. \A i \in 1 .. Len(q) - 1 : Tail(q)[i] = q[i + 1] /\ i + 1 \in 1 .. Len(q)
  BY <1>1
<1>4. DOMAIN Tail(q) = 1 .. Len(q) - 1
  BY <1>1, <1>2
<1>5. Range(Tail(q)) \subseteq Range(q)
  BY <1>1, <1>3, <1>4 DEF Range
<1>6. QED
  BY <1>1, <1>2, <1>5 DEF Range

LEMMA FreeSocket == FreeConn \in Socket /\ \A registry : Informed(FreeConn, registry)
<1>1. FreeConn \in Socket
  BY DEF FreeConn, Socket, Stage, Kind
<1>2. \A registry : Informed(FreeConn, registry)
  BY DEF FreeConn, Informed, Range
<1>3. QED
  BY <1>1, <1>2

LEMMA ClosingSocket ==
  ASSUME SocketsInv, NEW c \in Conn
  PROVE  Closing(c) \in Socket /\ \A registry : Informed(Closing(c), registry)
<1>1. conn[c] \in Socket
  BY DEF SocketsInv
<1>2. Closing(c) \in Socket
  <2>1. "closing" \in Stage
    BY DEF Stage
  <2>2. QED
    BY <1>1, <2>1, FreeSocket DEF Closing, Socket
<1>3. \A registry : Informed(Closing(c), registry)
  BY DEF Closing, FreeConn, Informed, Range
<1>4. QED
  BY <1>2, <1>3

(* A socket moves on; the registry stays or has one more revision.         *)
LEMMA SocketMoves ==
  ASSUME SocketsInv, NEW c \in Conn, NEW r \in Socket, Informed(r, known), Becomes(c, r),
         UNCHANGED known
  PROVE  SocketsInv'
BY DEF SocketsInv, Becomes, Informed

LEMMA SocketsRest ==
  ASSUME SocketsInv, UNCHANGED <<conn, known>> PROVE SocketsInv'
BY DEF SocketsInv, Informed

LEMMA RegistryGrows ==
  ASSUME SocketsInv, EditRegistry PROVE SocketsInv'
<1>1. PICK e \in Credential : known' = Append(known, e)
  BY DEF EditRegistry
<1>2. conn' = conn
  BY DEF EditRegistry
<1>3. e \in Seq(Secret)
  BY HashesOfCredentials
<1>4. known \in Seq(Seq(Secret)) /\ Len(known) > 0
  BY DEF SocketsInv
<1>5. /\ known' \in Seq(Seq(Secret)) /\ Len(known') = Len(known) + 1
      /\ \A i \in 1 .. Len(known) : known'[i] = known[i]
  BY <1>1, <1>3, <1>4
<1>6. ASSUME NEW c \in Conn PROVE Informed(conn'[c], known')
  <2>1. conn[c] \in Socket /\ Informed(conn[c], known)
    BY DEF SocketsInv
  <2>2. conn[c].rev \in Nat
    BY <2>1 DEF Socket
  <2>3. conn[c].rev > 0 => /\ conn[c].rev <= Len(known')
                           /\ known'[conn[c].rev] = known[conn[c].rev]
    BY <1>4, <1>5, <2>1, <2>2 DEF Informed
  <2>4. QED
    BY <1>2, <2>1, <2>3 DEF Informed
<1>7. QED
  BY <1>2, <1>4, <1>5, <1>6 DEF SocketsInv

(* The verdict on the first hash left.                                     *)
LEMMA JudgedSocket ==
  ASSUME SocketsInv, NEW c \in Conn, conn[c].stage \in {"verify", "queued", "hash"}
  PROVE  Judged(c) \in Socket /\ Informed(Judged(c), known)
<1> DEFINE r == conn[c]
<1>1. r \in Socket /\ Informed(r, known)
  BY DEF SocketsInv
<1>2. /\ r.left # <<>> /\ r.left \in Seq(Secret) /\ r.seen \in Seq(Secret) /\ ~r.ok
      /\ Range(r.left) \subseteq Range(r.seen) /\ ~(r.rev > 0)
  BY <1>1 DEF Socket, Informed
<1>3. /\ Head(r.left) \in Range(r.left) /\ Tail(r.left) \in Seq(Secret)
      /\ Range(Tail(r.left)) \subseteq Range(r.left)
      /\ Len(r.left) = 1 <=> Tail(r.left) = <<>>
  BY <1>2, HashesLeft
<1>4. CASE Verdict(Pair(c))
  <2>1. Judged(c) = [r EXCEPT !.stage = "recheck", !.left = <<>>, !.ok = TRUE]
    BY <1>4 DEF Judged
  <2>2. r.token = Head(r.left)
    BY <1>4 DEF Verdict, Pair
  <2>3. Judged(c) \in Socket
    <3>1. "recheck" \in Stage /\ <<>> \in Seq(Secret)
      BY DEF Stage
    <3>2. QED
      BY <1>1, <2>1, <3>1 DEF Socket
  <2>4. Range(<<>>) = {}
    BY DEF Range
  <2>5. QED
    BY <1>1, <1>2, <1>3, <2>1, <2>2, <2>3, <2>4 DEF Informed, Socket
<1>5. CASE ~Verdict(Pair(c))
  <2>1. PICK stage \in {"recheck", "verify"} :
          /\ Judged(c) = [r EXCEPT !.stage = stage, !.left = Tail(r.left)]
          /\ stage = "verify" <=> Len(r.left) # 1
    BY <1>1, <1>5 DEF Judged, Socket
  <2>2. Judged(c) \in Socket
    BY <1>1, <1>3, <2>1 DEF Socket, Stage
  <2>3. QED
    BY <1>1, <1>2, <1>3, <2>1, <2>2 DEF Informed, Socket
<1>6. QED
  BY <1>4, <1>5

LEMMA EntryIsTheNewest ==
  ASSUME SocketsInv
  PROVE  Entry = known[Len(known)] /\ Entry \in Seq(Secret) /\ Len(known) \in Nat /\ Len(known) > 0
BY DEF SocketsInv, Entry, Last

(* Waiting for the upgrade, the hello or a permit tells a socket nothing.  *)
LEMMA SocketWaits ==
  ASSUME SocketsInv, NEW c \in Conn, UNCHANGED known,
         Upgrade(c) \/ Miss(c) \/ StartHash(c) \/ (Acquire(c) /\ conn'[c] # FreeConn)
  PROVE  SocketsInv'
<1> DEFINE r == conn[c]
<1>1. r \in Socket /\ Informed(r, known) /\ conn \in [Conn -> Socket]
  BY DEF SocketsInv
<1>2. PICK s \in {"upgrade", "hello", "queued", "hash"} :
        /\ Becomes(c, [r EXCEPT !.stage = s])
        /\ s \in {"queued", "hash"} <=> r.stage \in {"verify", "queued", "hash"}
        /\ r.stage \notin {"recheck", "session", "closing"}
  BY <1>1 DEF Upgrade, Miss, StartHash, Acquire, Becomes
<1> DEFINE w == [r EXCEPT !.stage = s]
<1>3. s \in Stage
  BY <1>2 DEF Stage
<1>4. w \in Socket /\ w.stage = s /\ w.left = r.left /\ w.seen = r.seen /\ w.ok = r.ok
      /\ w.rev = r.rev /\ w.token = r.token
  BY <1>1, <1>3 DEF Socket
<1>5. Informed(w, known)
  BY <1>1, <1>2, <1>4 DEF Informed
<1>6. QED
  BY <1>2, <1>4, <1>5, SocketMoves

LEMMA HelloTells ==
  ASSUME SocketsInv, NEW c \in Conn, Hello(c) PROVE SocketsInv'
<1> DEFINE r == conn[c]
<1>1. r \in Socket /\ Informed(r, known)
  BY DEF SocketsInv
<1>2. PICK s \in Secret : Becomes(c, [r EXCEPT !.stage = "read", !.token = s])
  BY DEF Hello
<1> DEFINE w == [r EXCEPT !.stage = "read", !.token = s]
<1>3. "read" \in Stage
  BY DEF Stage
<1>4. w \in Socket /\ w.stage = "read" /\ w.left = r.left /\ w.seen = r.seen /\ w.ok = r.ok
      /\ w.rev = r.rev
  BY <1>1, <1>3 DEF Socket
<1>5. Informed(w, known)
  BY <1>1, <1>4 DEF Informed, Hello
<1>6. QED
  BY <1>2, <1>4, <1>5, SocketMoves DEF Hello

LEMMA EntryIsRead ==
  ASSUME SocketsInv, NEW c \in Conn, ReadEntry(c), Entry # <<>> PROVE SocketsInv'
<1> DEFINE r == conn[c]
           w == [r EXCEPT !.stage = "verify", !.seen = Entry, !.left = Entry, !.ok = FALSE]
<1>1. r \in Socket /\ Informed(r, known) /\ r.stage = "read"
  BY DEF SocketsInv, ReadEntry
<1>2. Becomes(c, w)
  BY DEF ReadEntry
<1>3. "verify" \in Stage /\ Entry \in Seq(Secret)
  BY EntryIsTheNewest DEF Stage
<1>4. w \in Socket /\ w.stage = "verify" /\ w.left = Entry /\ w.seen = Entry /\ ~w.ok
      /\ w.rev = r.rev
  BY <1>1, <1>3 DEF Socket
<1>5. Informed(w, known)
  BY <1>1, <1>4 DEF Informed
<1>6. QED
  BY <1>2, <1>4, <1>5, SocketMoves DEF ReadEntry

LEMMA EntryIsReadAgain ==
  ASSUME SocketsInv, NEW c \in Conn, TryAgain(c) PROVE SocketsInv'
<1> DEFINE r == conn[c]
           w == [r EXCEPT !.stage = "read", !.tried = r.tried + 1, !.seen = <<>>, !.ok = FALSE]
<1>1. r \in Socket /\ Informed(r, known) /\ r.stage = "recheck"
  BY DEF SocketsInv, TryAgain
<1>2. Becomes(c, w)
  BY <1>1 DEF TryAgain, Socket
<1>3. "read" \in Stage /\ <<>> \in Seq(Secret) /\ r.tried + 1 \in Nat
  BY <1>1 DEF Stage, Socket
<1>4. w \in Socket /\ w.stage = "read" /\ w.left = r.left /\ w.seen = <<>> /\ ~w.ok /\ w.rev = r.rev
  BY <1>1, <1>3 DEF Socket
<1>5. Informed(w, known)
  BY <1>1, <1>4 DEF Informed
<1>6. QED
  BY <1>2, <1>4, <1>5, SocketMoves DEF TryAgain

(* The credential is compared with the newest one and the revision taken   *)
(* in the same step.                                                       *)
LEMMA AuthorizedSocket ==
  ASSUME SocketsInv, NEW c \in Conn, Authorized(c) PROVE SocketsInv'
<1> DEFINE r == conn[c]
<1>1. r \in Socket /\ Informed(r, known)
  BY DEF SocketsInv
<1>2. r.ok /\ r.seen = Entry
  BY DEF Authorized, Rejected, SameMaterial
<1>3. r.token \in Range(known[Len(known)])
  BY <1>1, <1>2, EntryIsTheNewest DEF Informed
<1>4. PICK stage \in {"session", "closing"} :
        Becomes(c, [FreeConn EXCEPT !.stage = stage, !.kind = r.kind, !.addr = r.addr,
                                    !.token = r.token, !.rev = Len(known)])
  BY DEF Authorized
<1> DEFINE w == [FreeConn EXCEPT !.stage = stage, !.kind = r.kind, !.addr = r.addr,
                                 !.token = r.token, !.rev = Len(known)]
<1>5. stage \in Stage
  BY <1>4 DEF Stage
<1>6. w \in Socket /\ w.token = r.token /\ w.rev = Len(known) /\ w.stage = stage
  BY <1>1, <1>5, FreeSocket, EntryIsTheNewest DEF Socket
<1>7. w.seen = <<>> /\ w.left = <<>> /\ w.ok = FALSE
  BY DEF FreeConn
<1>8. Informed(w, known)
  BY <1>3, <1>4, <1>6, <1>7, EntryIsTheNewest DEF Informed
<1>9. QED
  BY <1>4, <1>6, <1>8, SocketMoves DEF Authorized

LEMMA SocketsStep == SocketsInv /\ [AdmissionNext]_admissionVars => SocketsInv'
<1> SUFFICES ASSUME SocketsInv, [AdmissionNext]_admissionVars PROVE SocketsInv'
  OBVIOUS
<1>1. CASE UNCHANGED admissionVars \/ CacheExpires \/ PassTime
  BY <1>1, SocketsRest DEF admissionVars, CacheExpires, PassTime
<1>2. ASSUME NEW c \in Conn, Ask(c) PROVE SocketsInv'
  <2>1. known' = known
    BY <1>2 DEF Ask
  <2>2. \/ conn' = conn
        \/ \E k \in Kind, a \in ClientAddr :
              Becomes(c, [FreeConn EXCEPT !.stage = "asked", !.kind = k, !.addr = a])
    BY <1>2 DEF Ask
  <2>3. ASSUME NEW k \in Kind, NEW a \in ClientAddr
        PROVE  /\ [FreeConn EXCEPT !.stage = "asked", !.kind = k, !.addr = a] \in Socket
               /\ Informed([FreeConn EXCEPT !.stage = "asked", !.kind = k, !.addr = a], known)
    <3>1. "asked" \in Stage
      BY DEF Stage
    <3>2. QED
      BY <3>1, FreeSocket DEF Socket, FreeConn, Informed, Range
  <2>4. QED
    BY <2>1, <2>2, <2>3, SocketMoves, SocketsRest
<1>3. ASSUME NEW c \in Conn, Acquire(c) \/ End(c) PROVE SocketsInv'
  <2>1. known' = known
    BY <1>3 DEF Acquire, End
  <2>2. CASE Becomes(c, FreeConn)
    BY <2>1, <2>2, FreeSocket, SocketMoves
  <2>3. CASE ~Becomes(c, FreeConn)
    <3>1. Acquire(c) /\ Becomes(c, [conn[c] EXCEPT !.stage = "upgrade"])
      BY <1>3, <2>3 DEF Acquire, End
    <3>2. conn'[c] = [conn[c] EXCEPT !.stage = "upgrade"] /\ conn[c] \in Socket
      BY <3>1 DEF Becomes, SocketsInv
    <3>3. conn'[c].stage = "upgrade"
      BY <3>2 DEF Socket
    <3>4. conn'[c] # FreeConn
      BY <3>3 DEF FreeConn
    <3>5. QED
      BY <2>1, <3>1, <3>4, SocketWaits
  <2>4. QED
    BY <2>2, <2>3
<1>4. ASSUME NEW c \in Conn,
             \/ HelloFails(c) \/ Refuse(c) \/ Expired(c)
             \/ (ReadEntry(c) /\ Entry = <<>>)
      PROVE  SocketsInv'
  <2>1. known' = known /\ Becomes(c, Closing(c))
    BY <1>4 DEF HelloFails, Refuse, Expired, ReadEntry, Fail
  <2>2. QED
    BY <2>1, ClosingSocket, SocketMoves
<1>5. ASSUME NEW c \in Conn, Lookup(c) \/ Hashed(c) PROVE SocketsInv'
  <2>1. /\ known' = known /\ Becomes(c, Judged(c))
        /\ conn[c].stage \in {"verify", "queued", "hash"}
    BY <1>5 DEF Lookup, Hashed
  <2>2. QED
    BY <2>1, JudgedSocket, SocketMoves
<1>6. ASSUME NEW c \in Conn, Upgrade(c) \/ Miss(c) \/ StartHash(c) PROVE SocketsInv'
  <2>1. known' = known
    BY <1>6 DEF Upgrade, Miss, StartHash
  <2>2. QED
    BY <1>6, <2>1, SocketWaits
<1>7. QED
  BY <1>1, <1>2, <1>3, <1>4, <1>5, <1>6, HelloTells, EntryIsRead, EntryIsReadAgain,
     AuthorizedSocket, RegistryGrows
  DEF AdmissionNext, SocketStep, AroundSockets

LEMMA SocketsStart == AdmissionInit => SocketsInv
<1> SUFFICES ASSUME AdmissionInit PROVE SocketsInv
  OBVIOUS
<1>1. PICK e \in Credential : known = <<e>>
  BY DEF AdmissionInit
<1>2. known \in Seq(Seq(Secret)) /\ Len(known) > 0
  BY <1>1, HashesOfCredentials
<1>3. QED
  BY <1>2, FreeSocket DEF AdmissionInit, SocketsInv

-----------------------------------------------------------------------------
(* Guesses are bounded.  A check of an address blocks and unblocks nobody. *)
LEMMA ChecksKeepBlocks ==
  ASSUME NEW table, NEW a, NEW x
  PROVE  IsBlocked(AfterCheck(table, a), x) <=> IsBlocked(table, x)
<1> DEFINE s == StateOf(table, a)
           p == Pruned(s)
           t == AfterCheck(table, a)
<1>1. p.until = (IF s.until > 0 THEN s.until ELSE -1) /\ ~(-1 > 0) /\ Innocent.until = -1
  BY DEF Pruned, NotBlocked, Innocent
<1>2. CASE p = Innocent
  <2>1. t = [y \in DOMAIN table \ {a} |-> table[y]]
    BY <1>2 DEF AfterCheck, Forgiven, Restrict
  <2>2. StateOf(t, x) = IF x = a THEN Innocent ELSE StateOf(table, x)
    BY <2>1 DEF StateOf
  <2>3. QED
    BY <1>1, <1>2, <2>2 DEF IsBlocked
<1>3. CASE p # Innocent
  <2>1. t = [y \in DOMAIN table \cup {a} |-> IF y = a THEN p ELSE table[y]]
    BY <1>3 DEF AfterCheck, WithState
  <2>2. StateOf(t, x) = IF x = a THEN p ELSE StateOf(table, x)
    BY <2>1 DEF StateOf
  <2>3. QED
    BY <1>1, <2>2 DEF IsBlocked
<1>4. QED
  BY <1>2, <1>3

LEMMA UnderWayIsFinite ==
  ASSUME NEW a
  PROVE  /\ UnderWay(a) \subseteq Conn /\ IsFiniteSet(UnderWay(a))
         /\ Cardinality(UnderWay(a)) \in Nat
<1>1. UnderWay(a) \in SUBSET Conn
  BY DEF UnderWay
<1>2. QED
  BY <1>1, FS_Subset, FS_CardinalityType, ConnectionAdmissionAssumption

(* Nobody fails and nobody joins the sockets of a blocked address.         *)
LEMMA NobodyFails ==
  ASSUME GuessesInv, UNCHANGED <<held, late>>,
         \A a \in Addr : IsBlocked(failures', a) <=> IsBlocked(failures, a),
         \A a \in Addr : IsBlocked(failures, a) => UnderWay(a)' \subseteq UnderWay(a)
  PROVE  GuessesInv'
<1> SUFFICES ASSUME NEW a \in Addr
             PROVE  IF IsBlocked(failures', a)
                      THEN late[a] + Cardinality(UnderWay(a)') <= Cardinality(held[a])
                      ELSE late[a] = 0
  BY DEF GuessesInv
<1>1. CASE ~IsBlocked(failures, a)
  BY <1>1 DEF GuessesInv
<1>2. CASE IsBlocked(failures, a)
  <2>1. /\ late[a] + Cardinality(UnderWay(a)) <= Cardinality(held[a])
        /\ late[a] \in Nat /\ held[a] \in SUBSET Conn
    BY <1>2 DEF GuessesInv
  <2>2. Cardinality(held[a]) \in Nat
    BY <2>1, FS_Subset, FS_CardinalityType, ConnectionAdmissionAssumption
  <2>3. UnderWay(a)' \in SUBSET UnderWay(a)
    BY <1>2
  <2>4. /\ Cardinality(UnderWay(a)') <= Cardinality(UnderWay(a))
        /\ Cardinality(UnderWay(a)') \in Nat
    BY <2>3, UnderWayIsFinite, FS_Subset, FS_CardinalityType
  <2>5. QED
    BY <1>2, <2>1, <2>2, <2>4, UnderWayIsFinite
<1>3. QED
  BY <1>1, <1>2

(* A socket answers, or time passes: the failure it may add is its last.   *)
LEMMA GuessIsCounted ==
  ASSUME GuessesInv, NEW table, NEW a, FailuresBecome(table, a),
         \A x \in Addr : UnderWay(x)' \subseteq UnderWay(x),
         a \in Addr => \E c \in UnderWay(a) : c \notin UnderWay(a)'
  PROVE  GuessesInv'
<1>1. /\ failures' = table
      /\ held' = [x \in Addr |-> IF ~IsBlocked(table, x) THEN {}
                                 ELSE IF IsBlocked(failures, x) THEN held[x]
                                 ELSE {c \in UnderWay(x) : conn'[c].stage # "closing"}]
      /\ late' = [x \in Addr |-> IF ~IsBlocked(table, x) THEN 0
                                 ELSE IF IsBlocked(failures, x) /\ x = a THEN late[x] + 1
                                 ELSE late[x]]
  BY Zenon DEF FailuresBecome
<1>2. held \in [Addr -> SUBSET Conn] /\ late \in [Addr -> Nat]
  BY DEF GuessesInv
<1>3. held' \in [Addr -> SUBSET Conn] /\ late' \in [Addr -> Nat]
  <2>1. \A x \in Addr : {c \in UnderWay(x) : conn'[c].stage # "closing"} \in SUBSET Conn
    BY UnderWayIsFinite
  <2>2. QED
    BY <1>1, <1>2, <2>1
<1>4. ASSUME NEW x \in Addr
      PROVE  IF IsBlocked(failures', x)
               THEN late'[x] + Cardinality(UnderWay(x)') <= Cardinality(held'[x])
               ELSE late'[x] = 0
  <2>1. CASE ~IsBlocked(table, x)
    BY <1>1, <2>1
  <2>2. CASE IsBlocked(table, x) /\ ~IsBlocked(failures, x)
    <3>1. late'[x] = 0
      BY <1>1, <2>2 DEF GuessesInv
    <3>2. held'[x] = {c \in UnderWay(x) : conn'[c].stage # "closing"}
      BY <1>1, <2>2
    <3>3. UnderWay(x)' \subseteq held'[x]
      <4>1. \A c \in UnderWay(x)' : c \in UnderWay(x)
        OBVIOUS
      <4>2. \A c \in UnderWay(x)' : conn'[c].stage # "closing"
        BY DEF UnderWay
      <4>3. QED
        BY <3>2, <4>1, <4>2
    <3>4. held'[x] \in SUBSET Conn
      BY <1>3
    <3>5. /\ Cardinality(UnderWay(x)') <= Cardinality(held'[x])
          /\ Cardinality(UnderWay(x)') \in Nat
      BY <3>3, <3>4, FS_Subset, FS_CardinalityType, ConnectionAdmissionAssumption
    <3>6. QED
      BY <1>1, <2>2, <3>1, <3>5
  <2>3. CASE IsBlocked(table, x) /\ IsBlocked(failures, x)
    <3>1. /\ held'[x] = held[x]
          /\ late'[x] = IF x = a THEN late[x] + 1 ELSE late[x]
          /\ late[x] + Cardinality(UnderWay(x)) <= Cardinality(held[x])
          /\ late[x] \in Nat /\ held[x] \in SUBSET Conn
      BY <1>1, <1>2, <2>3 DEF GuessesInv
    <3>2. Cardinality(held[x]) \in Nat
      BY <3>1, FS_Subset, FS_CardinalityType, ConnectionAdmissionAssumption
    <3>3. IsFiniteSet(UnderWay(x)) /\ Cardinality(UnderWay(x)) \in Nat
      BY UnderWayIsFinite
    <3>4. /\ Cardinality(UnderWay(x)') <= Cardinality(UnderWay(x))
          /\ Cardinality(UnderWay(x)') \in Nat
      BY <3>3, FS_Subset, FS_CardinalityType
    <3>5. x = a => Cardinality(UnderWay(x)') # Cardinality(UnderWay(x))
      BY <3>3, FS_Subset
    <3>6. QED
      BY <1>1, <2>3, <3>1, <3>2, <3>3, <3>4, <3>5
  <2>4. QED
    BY <2>1, <2>2, <2>3
<1>5. QED
  BY <1>3, <1>4 DEF GuessesInv

Away == {"free", "session", "closing"}

LEMMA SocketMovesOn ==
  ASSUME conn \in [Conn -> Socket], NEW c \in Conn, NEW r, Becomes(c, r),
         r.stage \in Away \/ (conn[c].stage \notin Away /\ r.addr = conn[c].addr)
  PROVE  /\ \A x \in Addr : UnderWay(x)' \subseteq UnderWay(x)
         /\ r.stage \in Away => \A x \in Addr : c \notin UnderWay(x)'
BY DEF Becomes, UnderWay, Away

LEMMA SocketGuesses ==
  ASSUME GuessesInv, SocketsInv, NEW c \in Conn, Fail(c),
         conn[c].stage \in {"hello", "read", "recheck"}
  PROVE  GuessesInv'
<1>1. conn \in [Conn -> Socket]
  BY DEF SocketsInv
<1>2. Becomes(c, Closing(c)) /\ Closing(c).stage \in Away
  BY DEF Fail, Closing, FreeConn, Away
<1>3. conn[c].addr \in Addr => c \in UnderWay(conn[c].addr)
  BY DEF UnderWay
<1>4. PICK table \in AfterFailure(failures, conn[c].addr, MaxAttempts) :
        FailuresBecome(table, conn[c].addr)
  BY DEF Fail
<1>5. /\ \A x \in Addr : UnderWay(x)' \subseteq UnderWay(x)
      /\ \A x \in Addr : c \notin UnderWay(x)'
  BY <1>1, <1>2, SocketMovesOn
<1>6. PICK a : a = conn[c].addr
  OBVIOUS
<1>7. FailuresBecome(table, a) /\ (a \in Addr => c \in UnderWay(a) /\ c \notin UnderWay(a)')
  BY <1>3, <1>4, <1>5, <1>6
<1>8. QED
  BY <1>5, <1>7, GuessIsCounted

LEMMA SuccessForgives ==
  ASSUME GuessesInv, SocketsInv, NEW c \in Conn, Authorized(c) PROVE GuessesInv'
<1> DEFINE r == [FreeConn EXCEPT
                   !.stage = IF conn[c].kind = "agent" THEN "session" ELSE "closing",
                   !.kind = conn[c].kind, !.addr = conn[c].addr,
                   !.token = conn[c].token, !.rev = Len(known)]
<1>1. conn \in [Conn -> Socket]
  BY DEF SocketsInv
<1>2. Becomes(c, r) /\ r.stage \in Away /\ conn[c].stage = "recheck"
  BY DEF Authorized, FreeConn, Away
<1>3. conn[c].addr \in Addr => c \in UnderWay(conn[c].addr)
  BY <1>2 DEF UnderWay
<1> HIDE DEF r
<1>4. /\ \A x \in Addr : UnderWay(x)' \subseteq UnderWay(x)
      /\ \A x \in Addr : c \notin UnderWay(x)'
  BY <1>1, <1>2, SocketMovesOn
<1>5. PICK a : a = conn[c].addr
  OBVIOUS
<1>6. PICK table : table = Forgiven(failures, a)
  OBVIOUS
<1>7. FailuresBecome(table, a) /\ (a \in Addr => c \in UnderWay(a) /\ c \notin UnderWay(a)')
  BY <1>3, <1>4, <1>5, <1>6 DEF Authorized
<1>8. QED
  BY <1>4, <1>7, GuessIsCounted

(* A new connection of a blocked address is turned away.                   *)
LEMMA BlockBars ==
  ASSUME GuessesInv, SocketsInv, NEW c \in Conn, Ask(c) PROVE GuessesInv'
<1>1. PICK k \in Kind, a \in ClientAddr :
        /\ conn[c].stage = "free"
        /\ failures' = AfterCheck(failures, a)
        /\ IF ~IsBlocked(failures, a)
             THEN Becomes(c, [FreeConn EXCEPT !.stage = "asked", !.kind = k, !.addr = a])
             ELSE UNCHANGED conn
        /\ UNCHANGED <<held, late>>
  BY Zenon DEF Ask, NotBarred
<1>2. \A x \in Addr : IsBlocked(failures', x) <=> IsBlocked(failures, x)
  BY <1>1, ChecksKeepBlocks
<1>3. conn \in [Conn -> Socket]
  BY DEF SocketsInv
<1>4. ASSUME NEW x \in Addr, IsBlocked(failures, x) PROVE UnderWay(x)' \subseteq UnderWay(x)
  <2>1. CASE IsBlocked(failures, a)
    BY <1>1, <2>1 DEF UnderWay
  <2>2. CASE ~IsBlocked(failures, a)
    <3>1. Becomes(c, [FreeConn EXCEPT !.stage = "asked", !.kind = k, !.addr = a]) /\ x # a
      BY <1>1, <1>4, <2>2
    <3>2. [FreeConn EXCEPT !.stage = "asked", !.kind = k, !.addr = a].addr = a
      BY DEF FreeConn
    <3>3. QED
      BY <1>3, <3>1, <3>2 DEF Becomes, UnderWay
  <2>3. QED
    BY <2>1, <2>2
<1>5. QED
  BY <1>1, <1>2, <1>4, NobodyFails

LEMMA GuessesStep ==
  ASSUME GuessesInv, SocketsInv, [AdmissionNext]_admissionVars PROVE GuessesInv'
<1>1. conn \in [Conn -> Socket]
  BY DEF SocketsInv
<1>2. CASE UNCHANGED admissionVars \/ CacheExpires \/ EditRegistry
  <2>1. UNCHANGED <<failures, conn, held, late>>
    BY <1>2 DEF admissionVars, CacheExpires, EditRegistry
  <2>2. \A x \in Addr : UnderWay(x)' \subseteq UnderWay(x)
    BY <2>1 DEF UnderWay
  <2>3. QED
    BY <2>1, <2>2, NobodyFails
<1>3. CASE PassTime
  <2>1. PICK table : table = Aged(failures)
    OBVIOUS
  <2>2. FailuresBecome(table, NoAddr) /\ conn' = conn
    BY <1>3, <2>1 DEF PassTime
  <2>3. \A x \in Addr : UnderWay(x)' \subseteq UnderWay(x)
    BY <2>2 DEF UnderWay
  <2>4. QED
    BY <2>2, <2>3, GuessIsCounted, ConnectionAdmissionAssumption
<1>4. ASSUME NEW c \in Conn,
             \/ Acquire(c) \/ Upgrade(c) \/ End(c) \/ Hello(c) \/ Lookup(c) \/ Miss(c)
             \/ StartHash(c) \/ Hashed(c) \/ TryAgain(c) \/ (ReadEntry(c) /\ Entry # <<>>)
      PROVE  GuessesInv'
  <2>1. UNCHANGED <<held, late>>
    BY <1>4 DEF Acquire, Upgrade, End, Hello, Lookup, Miss, StartHash, Hashed, TryAgain, ReadEntry
  <2>2. \/ failures' = failures
        \/ \E a \in {conn[c].addr} : failures' = AfterCheck(failures, a)
    BY <1>4 DEF Acquire, Upgrade, End, Hello, Lookup, Miss, StartHash, Hashed, TryAgain, ReadEntry
  <2>3. \A x \in Addr : IsBlocked(failures', x) <=> IsBlocked(failures, x)
    BY <2>2, ChecksKeepBlocks
  <2>4. conn[c] \in Socket
    BY <1>1
  <2>5. \E r : /\ Becomes(c, r)
               /\ r.stage \in Away \/ (conn[c].stage \notin Away /\ r.addr = conn[c].addr)
    <3>1. CASE Acquire(c) \/ End(c)
      <4>1. \/ Becomes(c, FreeConn)
            \/ Becomes(c, [conn[c] EXCEPT !.stage = "upgrade"]) /\ conn[c].stage = "asked"
        BY <3>1 DEF Acquire, End
      <4>2. FreeConn.stage \in Away
        BY DEF FreeConn, Away
      <4>3. [conn[c] EXCEPT !.stage = "upgrade"].addr = conn[c].addr
        BY <2>4 DEF Socket
      <4>4. QED
        BY <4>1, <4>2, <4>3 DEF Away
    <3>2. CASE Lookup(c) \/ Hashed(c)
      <4>1. Becomes(c, Judged(c)) /\ conn[c].stage \notin Away
        BY <3>2 DEF Lookup, Hashed, Away
      <4>2. Judged(c).addr = conn[c].addr
        BY <2>4 DEF Judged, Socket
      <4>3. QED
        BY <4>1, <4>2
    <3>3. CASE Upgrade(c) \/ Hello(c) \/ Miss(c) \/ StartHash(c) \/ TryAgain(c)
               \/ (ReadEntry(c) /\ Entry # <<>>)
      <4> DEFINE old == conn[c]
      <4>1. /\ old.stage \notin Away
            /\ \/ \E s \in {"hello", "queued", "hash"} : Becomes(c, [old EXCEPT !.stage = s])
               \/ \E s \in Secret : Becomes(c, [old EXCEPT !.stage = "read", !.token = s])
               \/ Becomes(c, [old EXCEPT !.stage = "read", !.tried = @ + 1, !.seen = <<>>,
                                         !.ok = FALSE])
               \/ Becomes(c, [old EXCEPT !.stage = "verify", !.seen = Entry, !.left = Entry,
                                         !.ok = FALSE])
        BY <3>3 DEF Upgrade, Hello, Miss, StartHash, TryAgain, ReadEntry, Away
      <4>2. /\ \A s : [old EXCEPT !.stage = s].addr = old.addr
            /\ \A s : [old EXCEPT !.stage = "read", !.token = s].addr = old.addr
            /\ [old EXCEPT !.stage = "read", !.tried = @ + 1, !.seen = <<>>,
                           !.ok = FALSE].addr = old.addr
            /\ [old EXCEPT !.stage = "verify", !.seen = Entry, !.left = Entry,
                           !.ok = FALSE].addr = old.addr
        BY <2>4 DEF Socket
      <4>3. QED
        BY <4>1, <4>2
    <3>4. QED
      BY <1>4, <3>1, <3>2, <3>3
  <2>6. \A x \in Addr : UnderWay(x)' \subseteq UnderWay(x)
    BY <1>1, <2>5, SocketMovesOn
  <2>7. QED
    BY <2>1, <2>3, <2>6, NobodyFails
<1>5. ASSUME NEW c \in Conn,
             \/ HelloFails(c) \/ Refuse(c) \/ Expired(c)
             \/ (ReadEntry(c) /\ Entry = <<>>)
      PROVE  GuessesInv'
  BY <1>5, SocketGuesses DEF HelloFails, Refuse, Expired, ReadEntry
<1>6. QED
  BY <1>2, <1>3, <1>4, <1>5, BlockBars, SuccessForgives
  DEF AdmissionNext, SocketStep, AroundSockets

LEMMA GuessesStart == AdmissionInit => GuessesInv
<1> SUFFICES ASSUME AdmissionInit PROVE GuessesInv
  OBVIOUS
<1>1. failures = <<>> /\ held = [a \in Addr |-> {}] /\ late = [a \in Addr |-> 0]
  BY DEF AdmissionInit
<1>2. ASSUME NEW a \in Addr PROVE ~IsBlocked(failures, a)
  <2>1. DOMAIN failures = {}
    BY <1>1
  <2>2. StateOf(failures, a) = Innocent
    BY <2>1 DEF StateOf
  <2>3. QED
    BY <2>2 DEF IsBlocked, Innocent, NotBlocked
<1>3. QED
  BY <1>1, <1>2 DEF GuessesInv

(* Agents get in neither by guessing nor with a credential that was        *)
(* replaced meanwhile: a blocked address has as many failures left as it   *)
(* had sockets on their way, through both endpoints together (ws.rs,       *)
(* admission.rs), and a slow verification counts only for the credential   *)
(* that memory still serves (match_registered_token).                      *)
THEOREM AdmissionSound == AdmissionSpec => []AdmissionIsSound
<1>1. AdmissionInit => SocketsInv /\ GuessesInv
  BY SocketsStart, GuessesStart
<1>2. SocketsInv /\ GuessesInv /\ [AdmissionNext]_admissionVars => SocketsInv' /\ GuessesInv'
  BY SocketsStep, GuessesStep
<1>3. SocketsInv => AuthorizedIsCurrent
  BY DEF SocketsInv, AuthorizedIsCurrent, Informed
<1>4. GuessesInv => GuessesAreBounded
  <2> SUFFICES ASSUME GuessesInv, NEW a \in Addr PROVE late[a] <= Cardinality(held[a])
    BY DEF GuessesAreBounded
  <2>1. held[a] \in SUBSET Conn /\ late[a] \in Nat
    BY DEF GuessesInv
  <2>2. Cardinality(held[a]) \in Nat
    BY <2>1, FS_Subset, FS_CardinalityType, ConnectionAdmissionAssumption
  <2>3. QED
    BY <2>1, <2>2, UnderWayIsFinite DEF GuessesInv
<1>5. QED
  BY <1>1, <1>2, <1>3, <1>4, PTL DEF AdmissionSpec, AdmissionIsSound

=============================================================================
