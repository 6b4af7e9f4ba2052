-------------------------- MODULE InstallBootstrap --------------------------
(***************************************************************************)
(* Installing an agent: an administrator issues a node (registry/issue.rs, *)
(* from the settings page or with the CLI) and gets a one-time install     *)
(* token; the installer exchanges it at /install/bootstrap for the node's  *)
(* configuration (handlers/install_routes.rs, consume_install_token).      *)
(* Every edit works on a copy of the registry file and is committed under  *)
(* the file's lock only if the file still has the version that was read    *)
(* (storage/write.rs); the server's edits are refused when the file is     *)
(* older than its memory.  Addresses that present wrong tokens are blocked *)
(* (InstallAdmissionController).                                           *)
(***************************************************************************)
EXTENDS AuthFailures

CONSTANTS Task,           \* edits that may run at a time
          Node,           \* nodes
          NoNode,
          Ticket,         \* install tokens
          NoTicket,
          Origin,         \* addresses of installers
          InstallAttempts,\* auth_fail_max_attempts
          WriteRetries,   \* MAX_REGISTRY_WRITE_RETRIES
          MaxVersion,     \* bound: versions of the file
          MaxRestores     \* bound: times an older file is put back

ASSUME InstallAssumption ==
    /\ NoNode \notin Node /\ NoTicket \notin Ticket
    /\ {InstallAttempts, WriteRetries, MaxVersion} \subseteq Nat \ {0}
    /\ MaxRestores \in Nat

VARIABLES file,      \* the registry file: version, nodes, install sessions
          mem,       \* what the server has loaded
          task,      \* the edits under way
          issued,    \* install tokens generated so far
          expired,   \* install tokens past their ten minutes
          blame,     \* the failures of install_admission
          backups,   \* older files an operator may put back
          restores,
          taken      \* ghost: how often a token was exchanged

installVars == <<file, mem, task, issued, expired, blame, backups, restores, taken>>

Op == {"consume", "issue", "cli", "remove"}

EmptyFile == [version |-> 0, nodes |-> {}, sessions |-> {}]

NoTask == [stage |-> "idle", op |-> "consume", node |-> NoNode, ticket |-> NoTicket,
          origin |-> NoNode, guard |-> 0, copy |-> EmptyFile, found |-> FALSE,
          tries |-> 0]

InstallInit ==
    /\ file = EmptyFile /\ mem = EmptyFile
    /\ task = [k \in Task |-> NoTask]
    /\ issued = {} /\ expired = {} /\ blame = <<>>
    /\ backups = {} /\ restores \in 0..MaxRestores
    /\ taken = [t \in Ticket |-> 0]

(* ------------------------- what an edit does -------------------------- *)

Tickets(f) == {s.ticket : s \in f.sessions}

Unexpired(f) == {s \in f.sessions : s.ticket \notin expired}

\* The session is removed with the edit that hands out its token; a session
\* whose node is not there is removed too, but gives nothing.
ConsumeEdit(f, t) ==
    LET mine == {s \in Unexpired(f) : s.ticket = t} IN
    [file    |-> [f EXCEPT !.sessions = Unexpired(f) \ mine],
     found   |-> \E s \in mine : s.node \in f.nodes,
     persist |-> mine # {} \/ Unexpired(f) # f.sessions]

\* A new token replaces the session the node may still have.
IssueEdit(f, n, t) ==
    [file    |-> [f EXCEPT !.nodes = @ \union {n},
                           !.sessions = {s \in Unexpired(f) : s.node # n}
                                          \union {[node |-> n, ticket |-> t]}],
     found   |-> TRUE, persist |-> TRUE]

RemoveEdit(f, n) ==
    [file    |-> [f EXCEPT !.nodes = @ \ {n},
                           !.sessions = {s \in Unexpired(f) : s.node # n}],
     found   |-> TRUE, persist |-> TRUE]

EditOf(r, f) ==
    CASE r.op = "consume" -> ConsumeEdit(f, r.ticket)
      [] r.op = "remove"  -> RemoveEdit(f, r.node)
      [] OTHER            -> IssueEdit(f, r.node, r.ticket)

\* The file must be there and not older than the memory of the server that
\* asked; the CLI has no memory to protect.
GuardAllows(r, f) == r.op = "cli" \/ f.version >= r.guard

\* A registry whose install sessions name unknown nodes is not accepted.
ValidFile(f) ==
    /\ \A s \in f.sessions : s.node \in f.nodes
    /\ \A s, u \in f.sessions : s.ticket = u.ticket => s = u

(* ------------------------------ the edits ----------------------------- *)

TaskIs(k, r) == task' = [task EXCEPT ![k] = r]

\* The handler: a blocked address is turned away, a request without a token
\* that looks like one is a failure without touching the file.
Ring(k) ==
    \E a \in Origin, t \in Ticket \union {NoTicket} :
        /\ task[k].stage = "idle"
        /\ IF IsBlocked(blame, a) THEN blame' = AfterCheck(blame, a) /\ UNCHANGED task
           ELSE IF t = NoTicket
           THEN /\ blame' \in AfterFailure(AfterCheck(blame, a), a, InstallAttempts)
                /\ UNCHANGED task
           ELSE /\ blame' = AfterCheck(blame, a)
                /\ TaskIs(k, [NoTask EXCEPT !.stage = "begun", !.ticket = t, !.origin = a,
                                        !.guard = mem.version])
        /\ UNCHANGED <<file, mem, issued, expired, backups, restores, taken>>

\* Issuing generates a fresh token; the CLI does it in a process of its own.
Issue(k) ==
    \E op \in {"issue", "cli"}, n \in Node, t \in Ticket \ issued :
        /\ task[k].stage = "idle"
        /\ TaskIs(k, [NoTask EXCEPT !.stage = "begun", !.op = op, !.node = n, !.ticket = t,
                                !.guard = mem.version])
        /\ issued' = issued \union {t}
        /\ UNCHANGED <<file, mem, expired, blame, backups, restores, taken>>

RemoveNode(k) ==
    \E n \in Node :
        /\ task[k].stage = "idle"
        /\ TaskIs(k, [NoTask EXCEPT !.stage = "begun", !.op = "remove", !.node = n,
                                !.guard = mem.version])
        /\ UNCHANGED <<file, mem, issued, expired, blame, backups, restores, taken>>

\* An unknown token is a failure of its address.
Unknown(k) ==
    IF task[k].op = "consume"
    THEN blame' \in AfterFailure(blame, task[k].origin, InstallAttempts)
    ELSE UNCHANGED blame

\* The file is read and the edit prepared on the copy.  A refused guard and a
\* node that is not there are errors; nothing to write is an answer already.
ReadAndEdit(k) ==
    LET r == task[k]  e == EditOf(r, file) IN
    /\ r.stage = "begun"
    /\ IF \/ ~GuardAllows(r, file)
          \/ r.op = "remove" /\ r.node \notin file.nodes
          \/ ~ValidFile(file)
       THEN TaskIs(k, NoTask) /\ UNCHANGED blame
       ELSE IF ~e.persist THEN TaskIs(k, NoTask) /\ Unknown(k)
       ELSE /\ TaskIs(k, [r EXCEPT !.stage = "ready", !.found = e.found, !.copy = e.file])
            /\ UNCHANGED blame
    /\ UNCHANGED <<file, mem, issued, expired, backups, restores, taken>>

AnyBase(r) == TRUE
SameBase(r) == file.version = r.copy.version

\* The tokens of f may be exchanged (again).
MadeGood(f) == [t \in Ticket |-> IF t \in Tickets(f) THEN 0 ELSE taken[t]]

\* Under the lock of the file: the guard and the version once more, then the
\* rename.  The CLI's edit of a file put back makes its tokens good again.
Commit(k) ==
    LET r == task[k] IN
    /\ r.stage = "ready" /\ file.version < MaxVersion
    /\ GuardAllows(r, file) /\ SameBase(r) /\ ValidFile(r.copy)
    /\ file' = [r.copy EXCEPT !.version = file.version + 1]
    /\ backups' = IF restores < MaxRestores THEN backups \union {file} ELSE {}
    /\ taken' = IF r.op = "consume" /\ r.found THEN [taken EXCEPT ![r.ticket] = @ + 1]
                ELSE IF r.op = "cli" /\ file.version < mem.version THEN MadeGood(file)
                ELSE taken
    /\ IF r.op = "cli" THEN TaskIs(k, NoTask)
       ELSE TaskIs(k, [r EXCEPT !.stage = "done", !.copy = file'])
    /\ UNCHANGED <<mem, issued, expired, blame, restores>>

\* The copy cannot be committed: the file changed (another try, as long as
\* there is one), or the guard or the validation refuses.
CommitFails(k) ==
    LET r == task[k] IN
    /\ r.stage = "ready"
    /\ IF GuardAllows(r, file) /\ ValidFile(r.copy)
       THEN /\ ~SameBase(r)
            /\ TaskIs(k, IF r.tries + 1 < WriteRetries
                      THEN [r EXCEPT !.stage = "begun", !.tries = @ + 1, !.found = FALSE,
                                     !.copy = EmptyFile]
                      ELSE NoTask)
       ELSE TaskIs(k, NoTask)
    /\ UNCHANGED <<file, mem, issued, expired, blame, backups, restores, taken>>

\* The rename is done but its directory is not synced: an error for the
\* caller, who gets nothing, although the file has changed.
CommitUnsynced(k) ==
    LET r == task[k] IN
    /\ r.stage = "ready" /\ file.version < MaxVersion
    /\ GuardAllows(r, file) /\ SameBase(r) /\ ValidFile(r.copy)
    /\ file' = [r.copy EXCEPT !.version = file.version + 1]
    /\ TaskIs(k, NoTask)
    /\ taken' = IF r.op = "cli" /\ file.version < mem.version THEN MadeGood(file) ELSE taken
    /\ UNCHANGED <<mem, issued, expired, blame, backups, restores>>

\* Memory follows, unless it is newer already; then the handler answers, and
\* the address of an installer is forgiven.
Follows(f) == IF f.version >= mem.version THEN f ELSE mem

AnswerTask(k) ==
    LET r == task[k] IN
    /\ r.stage = "done"
    /\ mem' = Follows(r.copy)
    /\ IF r.op = "consume" /\ ~r.found THEN Unknown(k)
       ELSE blame' = IF r.op = "consume" THEN Forgiven(blame, r.origin) ELSE blame
    /\ TaskIs(k, NoTask)
    /\ UNCHANGED <<file, issued, expired, backups, restores, taken>>

\* The client is gone: the edit was made, but memory waits for the reload.
Abandon(k) ==
    /\ task[k].stage = "done"
    /\ TaskIs(k, NoTask)
    /\ UNCHANGED <<file, mem, issued, expired, blame, backups, restores, taken>>

(* --------------------------- the environment -------------------------- *)

\* Every two seconds the file is looked at; an older one is refused.
Reloads ==
    /\ file.version >= mem.version /\ ValidFile(file) /\ mem # file
    /\ mem' = file
    /\ UNCHANGED <<file, task, issued, expired, blame, backups, restores, taken>>

TicketExpires(t) ==
    /\ t \in issued \ expired
    /\ expired' = expired \union {t}
    /\ UNCHANGED <<file, mem, task, issued, blame, backups, restores, taken>>

Cool ==
    /\ blame # <<>>
    /\ blame' = Aged(blame)
    /\ UNCHANGED <<file, mem, task, issued, expired, backups, restores, taken>>

\* An operator puts an older file back while no edit is under way (one that
\* has read the file already would compare versions of different histories).
\* What the server knows to be taken stays taken.
PutBack ==
    /\ restores < MaxRestores /\ \A k \in Task : task[k].stage = "idle"
    /\ \E old \in backups :
          /\ file' = old
          /\ taken' = IF old.version < mem.version THEN taken ELSE MadeGood(old)
    /\ restores' = restores + 1 /\ backups' = {}
    /\ UNCHANGED <<mem, task, issued, expired, blame>>

\* A restart accepts the file as it is.
ServerRestarts ==
    /\ mem' = file
    /\ task' = [k \in Task |-> IF task[k].op = "cli" THEN task[k] ELSE NoTask]
    /\ blame' = <<>>
    /\ taken' = MadeGood(file)
    /\ UNCHANGED <<file, issued, expired, backups, restores>>

InstallNext ==
    \/ \E k \in Task :
          \/ Ring(k) \/ Issue(k) \/ RemoveNode(k) \/ ReadAndEdit(k) \/ Commit(k)
          \/ CommitFails(k) \/ CommitUnsynced(k) \/ AnswerTask(k) \/ Abandon(k)
    \/ Reloads \/ Cool \/ PutBack \/ ServerRestarts
    \/ \E t \in Ticket : TicketExpires(t)

InstallSpec == InstallInit /\ [][InstallNext]_installVars

(* ----------------------------- properties ----------------------------- *)

\* The type invariant.  Whatever edits run into each other, the file can be
\* loaded again: its sessions name nodes that are in it.
InstallTypeOK ==
    /\ ValidFile(file) /\ ValidFile(mem)
    /\ file.version \in 0..MaxVersion
    /\ \A s \in file.sessions : s.node \in Node /\ s.ticket \in issued
    /\ expired \subseteq issued /\ restores \in 0..MaxRestores
    /\ \A a \in DOMAIN blame : a \in Origin /\ blame[a] \in FailureState
    /\ \A k \in Task : /\ task[k].op \in Op /\ task[k].tries < WriteRetries
                       /\ task[k].stage \in {"idle", "begun", "ready", "done"}

\* An install token is exchanged at most once: by one of two installers that
\* read the file at the same time, and not again when an older file that
\* still has it is put back under the running server (consume_install_token).
InstalledOnce == \A t \in Ticket : taken[t] <= 1
=============================================================================
