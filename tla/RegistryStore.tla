---------------------------- MODULE RegistryStore ----------------------------
(***************************************************************************)
(* The node registry of nodelite-server: one JSON file shared by the       *)
(* server process and the command line, and the copy the server keeps in   *)
(* memory (registry/storage.rs, registry/storage/write.rs,                 *)
(* registry/lifecycle.rs).                                                 *)
(*                                                                         *)
(* A mutation reads the file without a lock, prepares a temporary file,    *)
(* and publishes it by a rename under an exclusive flock, after checking   *)
(* that the version it started from is still the version on disk; on a     *)
(* conflict it starts again from the new file.  Afterwards, and without    *)
(* any lock, the server installs what it wrote in memory.  Reloads race    *)
(* with that, and both race with the command line.                         *)
(*                                                                         *)
(* What a mutation does to the nodes is abstracted to its identity: a file *)
(* carries the set of the mutations that made it ("log"), so that a lost   *)
(* update is a mutation missing from a later file.                         *)
(***************************************************************************)
EXTENDS Integers

CONSTANTS
  Server,      \* tasks of the server process that mutate or reload
  Cli,         \* command-line processes (issue-node)
  Reloader,    \* the task that loads at startup and polls the file afterwards
  Op,          \* identities of the mutations that may be requested
  Legacy,      \* mutations already in a registry file that has no version yet
  MaxTries,    \* MAX_REGISTRY_WRITE_RETRIES
  Nobody,      \* no process: the flock is free
  NoOp         \* no mutation in progress

ASSUME ConstantsAssumption ==
  /\ Reloader \notin Server
  /\ (Server \cup {Reloader}) \cap Cli = {}
  /\ Nobody \notin Server \cup {Reloader} \cup Cli
  /\ NoOp \notin Op
  /\ Legacy \subseteq Op
  /\ MaxTries \in Nat \ {0}

InServer == Server \cup {Reloader}
Proc == InServer \cup Cli

VARIABLES
  disk,        \* the registry file as any process sees it
  durable,     \* the registry file as it survives a crash of the host
  stamp,       \* last file identity handed out (inode and mtime)
  lock,        \* holder of the flock on the .lock file
  up,          \* the server has finished its startup load
  mem,         \* NodeRegistry.state
  checkpoint,  \* NodeRegistry.reload_checkpoint
  pc, guard, base, op, tries, seen,  \* locals of each process
  used,        \* mutations already requested
  acked        \* mutations whose caller was told they succeeded

fileVars == <<disk, durable, stamp>>
memVars == <<up, mem, checkpoint>>
procVars == <<pc, guard, base, op, tries, seen>>
vars == <<fileVars, lock, memVars, procVars, used, acked>>

-----------------------------------------------------------------------------
(* A missing file has identity 0; it reads as an empty registry.           *)
File == [version : Nat, log : SUBSET Op, id : Nat]
NoFile == [version |-> 0, log |-> {}, id |-> 0]
LegacyFile == [version |-> 0, log |-> Legacy, id |-> 1]

Memory == [version : Nat, log : SUBSET Op]
EmptyMemory == [version |-> 0, log |-> {}]

(* RegistryGuard: AllowCreate, or RequireExisting with its min_version.    *)
(* It is there for a file that an administrator has put back; commits      *)
(* alone never fail it (see NoFalseDivergence), so that its refusals are   *)
(* no actions here.                                                        *)
AllowCreate == -1
NoCheckpoint == -1

RequireAlways == mem.version
WriteGuard ==
  IF mem.version = 0 /\ mem.log = {} THEN AllowCreate ELSE mem.version

GuardAccepts(g, f) == g = AllowCreate \/ (f.id # 0 /\ g <= f.version)

(* What a process writes: its base plus its own mutation, one version up.  *)
Draft(p) == [version |-> base[p].version + 1,
             log |-> base[p].log \cup {op[p]},
             id |-> stamp + 1]

(* What a rename and the fsync of its directory leave on the disk.         *)
UnsyncedFile(p) == durable
SyncedFile(p) == Draft(p)

(* The base of a draft is still the latest commit.                         *)
AnyBase(p) == TRUE
BaseIsCurrent(p) == disk.version = base[p].version

TryCount == 0..(MaxTries - 1)
OneMoreTry(p) == tries[p] < MaxTries
MayRetry(p) == tries[p] + 1 < MaxTries

(* The flock after a failed publication.                                   *)
LeakedLock(p) == lock
ReleasedLock(p) == Nobody

(* apply_loaded_state: the commit order, not the order of completion,      *)
(* decides what is installed, and with it goes the fingerprint that was    *)
(* taken before the file was read; a write has none.                       *)
LastToFinish(f) == TRUE
Newer(f) == f.version >= mem.version

LateFingerprint(p) == disk.id
AppliedFingerprint(p) == seen[p]

-----------------------------------------------------------------------------
Init ==
  /\ disk \in {NoFile, LegacyFile}
  /\ durable = disk
  /\ stamp = 1
  /\ lock = Nobody
  /\ up = FALSE
  /\ mem = EmptyMemory
  /\ checkpoint = NoCheckpoint
  /\ pc = [p \in Proc |-> "idle"]
  /\ guard = [p \in Proc |-> AllowCreate]
  /\ base = [p \in Proc |-> NoFile]
  /\ op = [p \in Proc |-> NoOp]
  /\ tries = [p \in Proc |-> 0]
  /\ seen = [p \in Proc |-> NoCheckpoint]
  /\ used = Legacy
  /\ acked = {}

(* The locals of a process that has nothing in progress.                   *)
Settle(p) ==
  /\ pc' = [pc EXCEPT ![p] = "idle"]
  /\ guard' = [guard EXCEPT ![p] = AllowCreate]
  /\ base' = [base EXCEPT ![p] = NoFile]
  /\ op' = [op EXCEPT ![p] = NoOp]
  /\ tries' = [tries EXCEPT ![p] = 0]
  /\ seen' = [seen EXCEPT ![p] = NoCheckpoint]

(* A caller requests a mutation: a task of the server takes the guard from *)
(* memory, the command line protects no memory and may create the file.    *)
BeginWrite(p, o) ==
  /\ p \in Server \cup Cli
  /\ pc[p] = "idle"
  /\ p \in Server => up
  /\ o \notin used
  /\ used' = used \cup {o}
  /\ op' = [op EXCEPT ![p] = o]
  /\ guard' = [guard EXCEPT ![p] = IF p \in Cli THEN AllowCreate ELSE WriteGuard]
  /\ pc' = [pc EXCEPT ![p] = "read"]
  /\ UNCHANGED <<fileVars, lock, memVars, base, tries, seen, acked>>

(* The lockless read of one attempt: the guard is checked against what it  *)
(* finds, and the mutation runs on a private copy.                         *)
ReadFile(p) ==
  /\ pc[p] = "read"
  /\ GuardAccepts(guard[p], disk)
  /\ base' = [base EXCEPT ![p] = disk]
  /\ UNCHANGED <<fileVars, lock, memVars, guard, tries, seen, used, acked>>

Prepare(p) ==
  /\ ReadFile(p)
  /\ UNCHANGED op
  /\ pc' = [pc EXCEPT ![p] = "commit"]

(* An install token that is not in the file persists nothing; the server   *)
(* still installs the file it has just read.                               *)
PrepareNothing(p) ==
  /\ p \in Server
  /\ seen[p] = NoCheckpoint
  /\ ReadFile(p)
  /\ op' = [op EXCEPT ![p] = NoOp]
  /\ pc' = [pc EXCEPT ![p] = "apply"]

(* The mutation refuses the content it found, or the guard refuses the     *)
(* file: the caller gets an error and nothing is written.                  *)
Refuse(p) ==
  /\ pc[p] = "read"
  /\ Settle(p)
  /\ UNCHANGED <<fileVars, lock, memVars, used, acked>>

(* Under the flock: the base is still what the disk holds.                 *)
LockAndCheck(p) ==
  /\ pc[p] = "commit"
  /\ lock = Nobody
  /\ GuardAccepts(guard[p], disk)
  /\ BaseIsCurrent(p)
  /\ lock' = p
  /\ pc' = [pc EXCEPT ![p] = "rename"]
  /\ UNCHANGED <<fileVars, memVars, guard, base, op, tries, seen, used, acked>>

(* Someone else committed first: drop the temporary file and start over,   *)
(* or give up after MaxTries attempts.                                     *)
Conflict(p) ==
  /\ pc[p] = "commit"
  /\ lock = Nobody
  /\ GuardAccepts(guard[p], disk)
  /\ ~BaseIsCurrent(p)
  /\ \/ /\ MayRetry(p)
        /\ tries' = [tries EXCEPT ![p] = @ + 1]
        /\ pc' = [pc EXCEPT ![p] = "read"]
        /\ UNCHANGED <<guard, base, op, seen>>
     \/ /\ ~MayRetry(p)
        /\ Settle(p)
  /\ UNCHANGED <<fileVars, lock, memVars, used, acked>>

(* rename, then fsync of the parent directory, then the flock is released. *)
(* The command line is done.  A task of the server still has to install    *)
(* what it wrote, or, after issue_node, to reload the file.                *)
Publish(p) ==
  /\ pc[p] = "rename"
  /\ disk' = Draft(p)
  /\ durable' = SyncedFile(p)
  /\ stamp' = stamp + 1
  /\ lock' = Nobody
  /\ \/ /\ p \in InServer
        /\ base' = [base EXCEPT ![p] = Draft(p)]
        /\ pc' = [pc EXCEPT ![p] = "apply"]
        /\ UNCHANGED <<guard, op, tries, seen, acked>>
     \/ /\ p \in Server
        /\ seen[p] = NoCheckpoint
        /\ base' = [base EXCEPT ![p] = NoFile]
        /\ tries' = [tries EXCEPT ![p] = 0]
        /\ pc' = [pc EXCEPT ![p] = "issued"]
        /\ UNCHANGED <<guard, op, seen, acked>>
     \/ /\ p \in Cli
        /\ acked' = acked \cup {op[p]}
        /\ Settle(p)
  /\ UNCHANGED <<memVars, used>>

(* The rename fails, or it happens but the directory cannot be synced, or  *)
(* the sync succeeds and the permission check fails: an error in each      *)
(* case, with the file not replaced, replaced, or replaced for good.       *)
PublishFails(p) ==
  /\ pc[p] = "rename"
  /\ \/ UNCHANGED fileVars
     \/ /\ disk' = Draft(p)
        /\ stamp' = stamp + 1
        /\ durable' \in {durable, Draft(p)}
  /\ lock' = ReleasedLock(p)
  /\ Settle(p)
  /\ UNCHANGED <<memVars, used, acked>>

(* A reload notes the identity of the file before it reads it.  The        *)
(* poller skips a file it has already loaded; the caller of issue_node     *)
(* does not.                                                               *)
BeginReload(p) ==
  /\ \/ p = Reloader /\ pc[p] = "idle" /\ (up => checkpoint # disk.id)
     \/ p \in Server /\ pc[p] = "issued"
  /\ seen' = [seen EXCEPT ![p] = disk.id]
  /\ pc' = [pc EXCEPT ![p] = "stat"]
  /\ UNCHANGED <<fileVars, lock, memVars, guard, base, op, tries, used, acked>>

ReloadGuard(p) ==
  /\ pc[p] = "stat"
  /\ guard' = [guard EXCEPT ![p] = WriteGuard]
  /\ pc' = [pc EXCEPT ![p] = "load"]
  /\ UNCHANGED <<fileVars, lock, memVars, base, op, tries, seen, used, acked>>

(* The file is read and either installed as it is, or first rewritten      *)
(* because it holds expired install sessions or legacy entries; then only  *)
(* the rewrite counts as answered at the end, not the issue_node before.   *)
Load(p) ==
  /\ pc[p] = "load"
  /\ GuardAccepts(guard[p], disk)
  /\ \/ /\ base' = [base EXCEPT ![p] = disk]
        /\ pc' = [pc EXCEPT ![p] = "apply"]
        /\ UNCHANGED <<op, used>>
     \/ /\ disk.id # 0
        /\ \E o \in Op \ used :
             /\ used' = used \cup {o}
             /\ op' = [op EXCEPT ![p] = o]
        /\ pc' = [pc EXCEPT ![p] = "read"]
        /\ UNCHANGED base
  /\ UNCHANGED <<fileVars, lock, memVars, guard, tries, seen, acked>>

(* apply_loaded_state, without any lock on the file.                       *)
Apply(p) ==
  /\ pc[p] = "apply"
  /\ IF Newer(base[p])
       THEN /\ mem' = [version |-> base[p].version, log |-> base[p].log]
            /\ checkpoint' = AppliedFingerprint(p)
       ELSE UNCHANGED <<mem, checkpoint>>
  /\ up' = TRUE
  /\ acked' = IF op[p] = NoOp THEN acked ELSE acked \cup {op[p]}
  /\ Settle(p)
  /\ UNCHANGED <<fileVars, lock, used>>

(* The server process ends: its tasks, its memory and its flock go.        *)
ServerCrash ==
  /\ up' = FALSE
  /\ mem' = EmptyMemory
  /\ checkpoint' = NoCheckpoint
  /\ lock' = IF lock \in InServer THEN Nobody ELSE lock
  /\ pc' = [p \in Proc |-> IF p \in InServer THEN "idle" ELSE pc[p]]
  /\ guard' = [p \in Proc |-> IF p \in InServer THEN AllowCreate ELSE guard[p]]
  /\ base' = [p \in Proc |-> IF p \in InServer THEN NoFile ELSE base[p]]
  /\ op' = [p \in Proc |-> IF p \in InServer THEN NoOp ELSE op[p]]
  /\ tries' = [p \in Proc |-> IF p \in InServer THEN 0 ELSE tries[p]]
  /\ seen' = [p \in Proc |-> IF p \in InServer THEN NoCheckpoint ELSE seen[p]]
  /\ UNCHANGED <<fileVars, used, acked>>

(* The host ends: every process goes, and a rename whose directory was     *)
(* never synced may or may not have reached the disk.                      *)
HostCrash ==
  /\ disk' \in {disk, durable}
  /\ durable' = disk'
  /\ up' = FALSE
  /\ mem' = EmptyMemory
  /\ checkpoint' = NoCheckpoint
  /\ lock' = Nobody
  /\ pc' = [p \in Proc |-> "idle"]
  /\ guard' = [p \in Proc |-> AllowCreate]
  /\ base' = [p \in Proc |-> NoFile]
  /\ op' = [p \in Proc |-> NoOp]
  /\ tries' = [p \in Proc |-> 0]
  /\ seen' = [p \in Proc |-> NoCheckpoint]
  /\ UNCHANGED <<stamp, used, acked>>

Step(p) ==
  \/ Prepare(p) \/ PrepareNothing(p) \/ Refuse(p)
  \/ LockAndCheck(p) \/ Conflict(p)
  \/ Publish(p) \/ PublishFails(p)
  \/ BeginReload(p) \/ ReloadGuard(p) \/ Load(p)
  \/ Apply(p)

Next ==
  \/ \E p \in Proc : Step(p) \/ \E o \in Op : BeginWrite(p, o)
  \/ ServerCrash
  \/ HostCrash

Spec == Init /\ [][Next]_vars

(* Every process that has something to do gets to do it: the tasks run on  *)
(* the server's executor, the poller ticks every second, and a flock goes  *)
(* to a waiter when it is released.  Nobody is obliged to request a        *)
(* mutation and nothing is obliged to crash.                               *)
Fairness == \A p \in Proc : WF_vars(Step(p))
FairSpec == Spec /\ Fairness

-----------------------------------------------------------------------------
(* TypeOK: every variable holds a value of its kind, and no writer makes   *)
(* more than MAX_REGISTRY_WRITE_RETRIES attempts.                          *)
TypeOK ==
  /\ disk \in File /\ durable \in File /\ stamp \in Nat
  /\ lock \in Proc \cup {Nobody}
  /\ up \in BOOLEAN /\ mem \in Memory
  /\ checkpoint \in Nat \cup {NoCheckpoint}
  /\ pc \in [Proc -> {"idle", "read", "commit", "rename", "issued",
                       "apply", "stat", "load"}]
  /\ guard \in [Proc -> Nat \cup {AllowCreate}]
  /\ base \in [Proc -> File]
  /\ op \in [Proc -> Op \cup {NoOp}]
  /\ tries \in [Proc -> TryCount]
  /\ seen \in [Proc -> Nat \cup {NoCheckpoint}]
  /\ used \in SUBSET Op /\ acked \in SUBSET Op

(* One file content precedes another in the same history: fewer versions,  *)
(* fewer mutations, and the version determines the content.                *)
Precedes(f, g) ==
  /\ f.version <= g.version
  /\ f.log \subseteq g.log
  /\ f.version = g.version => f.log = g.log

(* AckedIsDurable: a mutation whose caller was told it succeeded survives  *)
(* every later mutation by anyone and a crash of the host (write.rs        *)
(* publishes only over the version it started from, and reports success    *)
(* only after the directory is synced).                                    *)
AckedIsDurable == acked \subseteq durable.log /\ durable.log \subseteq disk.log

(* MemoryFollowsFile: the copy the server authenticates from is always a   *)
(* content the file has had, never ahead of it and never a mixture         *)
(* (lifecycle.rs installs a file that writers and reloads finish with in   *)
(* any order).                                                             *)
MemoryFollowsFile == up => Precedes(mem, disk)

(* SkippedReloadIsSound: when the poller finds the fingerprint it holds    *)
(* and skips the reload, memory has what the file has (reload_from_disk    *)
(* passes on the fingerprint taken before the read).                       *)
SkippedReloadIsSound == up /\ checkpoint = disk.id => mem.log = disk.log

(* NoFalseDivergence: the guard a mutation or a reload has taken from      *)
(* memory still accepts the file when it is checked, twice per attempt,    *)
(* whatever was committed, installed or lost to a crash in between: the    *)
(* server never refuses its own registry as rolled back (storage.rs        *)
(* RegistryGuard, lifecycle.rs write_guard).                               *)
NoFalseDivergence ==
  \A p \in Proc : pc[p] \in {"read", "commit", "load"} => GuardAccepts(guard[p], disk)

(* MemoryStaysTrue: memory is a version of the file, and what was taken    *)
(* from it to guard the file never turns against the file (lifecycle.rs).  *)
MemoryStaysTrue == MemoryFollowsFile /\ NoFalseDivergence

(* MemoryMovesForward: while the server runs, no write or reload finishing *)
(* late takes memory back to an older registry, where a revoked credential *)
(* would be accepted again (apply_loaded_state ignores older versions).    *)
MemoryMovesForward ==
  [][up /\ up' => mem.version <= mem'.version /\ mem.log \subseteq mem'.log]_vars

(* AckedBecomesServed: if the server stays up, whatever anyone was told    *)
(* succeeded, command line included, is in the registry it serves from.    *)
AckedBecomesServed ==
  <>[]up => \A o \in Op : [](o \in acked => <>(o \in mem.log))

(* WritesReturn: a mutation ends, in success or in an error, however many  *)
(* others compete for the file.                                            *)
WritesReturn == \A p \in Server \cup Cli : pc[p] # "idle" ~> pc[p] = "idle"

(* WritesTakeEffect: every mutation comes to its end, and one that was     *)
(* acknowledged is served (write.rs retries; background.rs polls).         *)
WritesTakeEffect == AckedBecomesServed /\ WritesReturn

(* The promise this protocol keeps (see RegistryService).                  *)
Service == INSTANCE RegistryService WITH
  committed <- disk.log,
  stable <- durable.log,
  served <- mem.log,
  answered <- acked

(* ImplementsService: optimistic commits, lockless reads and unordered     *)
(* reloads together behave as one registry whose mutations happen one      *)
(* after the other; an answered caller reads its own write.                *)
ImplementsService == Service!Spec
=============================================================================
