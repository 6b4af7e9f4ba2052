------------------------- MODULE RegistryStoreProofs -------------------------
(***************************************************************************)
(* Safety of the registry file protocol for any number of processes and    *)
(* mutations, any retry limit, and any crashes.                            *)
(***************************************************************************)
EXTENDS RegistryStore, TLAPS

(* A process whose base is a copy of the file it may still use.            *)
Holds(p) == pc[p] \in {"commit", "rename", "apply"}

Comparable(f, g) == Precedes(f, g) \/ Precedes(g, f)

(* A process whose mutation is in the file but not yet answered.           *)
Owing(p) == pc[p] \in {"issued", "stat", "load", "apply"} /\ op[p] # NoOp

(* Every copy of the file in use is a content the file has had, and any    *)
(* two of them come from one history.                                      *)
OneHistory ==
  /\ Precedes(durable, disk)
  /\ \A p \in Proc : Holds(p) => Precedes(base[p], disk)
  /\ up => Precedes(mem, disk)
  /\ ~up => mem = EmptyMemory
  /\ \A p, q \in Proc : Holds(p) /\ Holds(q) => Comparable(base[p], base[q])
  /\ \A p \in Proc : up /\ Holds(p) => Comparable(base[p], mem)

(* Whoever is about to rename holds the flock and starts from the file.    *)
Renaming ==
  \A p \in Proc : pc[p] = "rename" =>
    /\ lock = p
    /\ base[p].version = disk.version
    /\ op[p] \in Op

(* A mutation about to be answered is in the file, for good.               *)
Answers ==
  /\ acked \subseteq durable.log
  /\ \A p \in Proc : Owing(p) => op[p] \in durable.log
  /\ \A p \in Proc : Owing(p) /\ pc[p] = "apply" => op[p] \in base[p].log

(* Fingerprints: none is in use before its file exists.                    *)
Fingerprints ==
  /\ disk.id <= stamp /\ durable.id <= stamp /\ checkpoint <= stamp
  /\ \A p \in Proc : seen[p] <= stamp
  /\ up /\ checkpoint = disk.id => mem.version = disk.version
  /\ \A p \in Proc : pc[p] = "apply" /\ seen[p] = disk.id =>
       base[p].version = disk.version

Roles ==
  \A p \in Proc :
    /\ pc[p] \in {"read", "commit"} => op[p] \in Op
    /\ pc[p] \in {"issued", "apply", "stat", "load"} => p \in InServer
    /\ pc[p] = "idle" => op[p] = NoOp

IInv == TypeOK /\ Roles /\ OneHistory /\ Renaming /\ Answers /\ Fingerprints

-----------------------------------------------------------------------------
(* The type invariant, together with the roles it needs: a process about   *)
(* to write has a mutation, and only the server reloads.                   *)
Typed == TypeOK /\ Roles /\ \A p \in Proc : pc[p] = "rename" => op[p] \in Op

(* The one-line helpers of the model are always expanded.                  *)
USE DEF SyncedFile, BaseIsCurrent, MayRetry, ReleasedLock, AppliedFingerprint

LEMMA EmptyTypes == NoFile \in File /\ LegacyFile \in File /\ EmptyMemory \in Memory
BY ConstantsAssumption DEF NoFile, LegacyFile, EmptyMemory, File, Memory

(* The attempts of a writer are counted from zero to below the limit.      *)
LEMMA Attempts ==
  /\ 0 \in TryCount
  /\ \A n \in TryCount : n + 1 < MaxTries => n + 1 \in TryCount
BY ConstantsAssumption DEF TryCount

(* Once a process has settled, only the others have anything to say.       *)
LEMMA SettleRoles ==
  ASSUME Typed, NEW p \in Proc, Settle(p)
  PROVE  /\ Roles'
         /\ \A q \in Proc : pc'[q] = "rename" => op'[q] \in Op
BY DEF Typed, TypeOK, Roles, Settle

LEMMA DraftType == ASSUME TypeOK, NEW p \in Proc, op[p] \in Op
                   PROVE  Draft(p) \in File
BY DEF TypeOK, Draft, File

LEMMA SettleType ==
  ASSUME TypeOK, NEW p \in Proc, Settle(p)
  PROVE  /\ pc' \in [Proc -> {"idle", "read", "commit", "rename", "issued",
                             "apply", "stat", "load"}]
         /\ guard' \in [Proc -> Nat \cup {AllowCreate}]
         /\ base' \in [Proc -> File]
         /\ op' \in [Proc -> Op \cup {NoOp}]
         /\ tries' \in [Proc -> TryCount]
         /\ seen' \in [Proc -> Nat \cup {NoCheckpoint}]
BY EmptyTypes, Attempts DEF TypeOK, Settle, AllowCreate, NoCheckpoint

LEMMA TypedStep ==
  ASSUME Typed, NEW p \in Proc, Step(p) \/ (\E o \in Op : BeginWrite(p, o))
  PROVE  Typed'
<1> USE DEF Typed, fileVars, memVars
<1>1. ASSUME NEW o \in Op, BeginWrite(p, o) PROVE Typed'
  BY <1>1 DEF BeginWrite, TypeOK, Roles, WriteGuard, Memory, AllowCreate
<1>2. CASE Prepare(p) \/ PrepareNothing(p)
  BY <1>2, ConstantsAssumption DEF Prepare, PrepareNothing, ReadFile, TypeOK, Roles, InServer
<1>3. CASE Refuse(p)
  BY <1>3, SettleType, SettleRoles DEF Refuse, TypeOK
<1>4. CASE LockAndCheck(p)
  BY <1>4 DEF LockAndCheck, TypeOK, Roles
<1>5. CASE Conflict(p)
  BY <1>5, SettleType, Attempts DEF Conflict, TypeOK, Roles, Settle
<1>6. CASE Publish(p)
  <2>1. CASE p \in InServer /\ pc' = [pc EXCEPT ![p] = "apply"]
             /\ base' = [base EXCEPT ![p] = Draft(p)]
             /\ UNCHANGED <<guard, op, tries, seen, acked>>
    BY <1>6, <2>1, DraftType DEF Publish, TypeOK, Roles
  <2>2. CASE p \in Server /\ pc' = [pc EXCEPT ![p] = "issued"]
             /\ base' = [base EXCEPT ![p] = NoFile] /\ tries' = [tries EXCEPT ![p] = 0]
             /\ UNCHANGED <<guard, op, seen, acked>>
    BY <1>6, <2>2, DraftType, EmptyTypes, Attempts DEF Publish, TypeOK, Roles, InServer
  <2>3. CASE acked' = acked \cup {op[p]} /\ Settle(p)
    BY <1>6, <2>3, SettleType, SettleRoles, DraftType DEF Publish, TypeOK
  <2>4. QED
    BY <1>6, <2>1, <2>2, <2>3 DEF Publish
<1>7. CASE PublishFails(p)
  <2>1. Settle(p) /\ lock' = Nobody /\ UNCHANGED <<memVars, used, acked>>
    BY <1>7 DEF PublishFails
  <2>2. disk' \in File /\ durable' \in File /\ stamp' \in Nat
    BY <1>7, DraftType DEF PublishFails, TypeOK
  <2>3. QED
    BY <2>1, <2>2, SettleType, SettleRoles DEF TypeOK
<1>8. CASE BeginReload(p) \/ ReloadGuard(p)
  BY <1>8 DEF BeginReload, ReloadGuard, TypeOK, Roles, WriteGuard, Memory, File,
              AllowCreate, NoCheckpoint, InServer
<1>9. CASE Load(p)
  BY <1>9 DEF Load, TypeOK, Roles
<1>10. CASE Apply(p)
  <2>1. Settle(p) /\ UNCHANGED <<fileVars, lock, used>>
    BY <1>10 DEF Apply
  <2>2. mem' \in Memory /\ checkpoint' \in Nat \cup {NoCheckpoint}
    BY <1>10 DEF Apply, TypeOK, Memory, File
  <2>3. up' \in BOOLEAN /\ acked' \in SUBSET Op
    BY <1>10 DEF Apply, TypeOK
  <2>4. QED
    BY <2>1, <2>2, <2>3, SettleType, SettleRoles DEF TypeOK
<1>11. QED
  BY <1>1, <1>2, <1>3, <1>4, <1>5, <1>6, <1>7, <1>8, <1>9, <1>10 DEF Step

LEMMA TypedCrash == ASSUME Typed, ServerCrash \/ HostCrash PROVE Typed'
<1> USE EmptyTypes, Attempts DEF Typed, fileVars
<1>1. CASE ServerCrash
  <2>1. TypeOK'
    BY <1>1 DEF ServerCrash, TypeOK, AllowCreate, NoCheckpoint
  <2>2. Roles' /\ \A p \in Proc : pc'[p] = "rename" => op'[p] \in Op
    BY <1>1 DEF ServerCrash, TypeOK, Roles
  <2>3. QED BY <2>1, <2>2
<1>2. CASE HostCrash
  BY <1>2 DEF HostCrash, TypeOK, Roles, AllowCreate, NoCheckpoint
<1>3. QED BY <1>1, <1>2

LEMMA TypedStutter == ASSUME Typed, UNCHANGED vars PROVE Typed'
BY DEF Typed, TypeOK, Roles, vars, fileVars, memVars, procVars

(* TypeCorrect: every variable keeps its type (write.rs, lifecycle.rs).    *)
THEOREM TypeCorrect == Spec => []TypeOK
<1>1. ASSUME Init PROVE Typed
  <2>1. TypeOK
    BY <1>1, EmptyTypes, Attempts, ConstantsAssumption DEF Init, TypeOK, AllowCreate, NoCheckpoint
  <2>2. Roles /\ \A p \in Proc : pc[p] = "rename" => op[p] \in Op
    BY <1>1 DEF Init, Roles
  <2>3. QED BY <2>1, <2>2 DEF Typed
<1>2. Typed /\ [Next]_vars => Typed'
  BY TypedStep, TypedCrash, TypedStutter DEF Next
<1>3. Typed => TypeOK
  BY DEF Typed
<1>4. QED
  BY <1>1, <1>2, <1>3, PTL DEF Spec

-----------------------------------------------------------------------------
(* Copies of the file are ordered as the commits were.                     *)
LEMMA PrecedesRefl == ASSUME NEW f, f.version \in Nat PROVE Precedes(f, f)
BY DEF Precedes

LEMMA PrecedesTrans ==
  ASSUME NEW f, NEW g, NEW h,
         f.version \in Nat, g.version \in Nat, h.version \in Nat,
         Precedes(f, g), Precedes(g, h)
  PROVE  Precedes(f, h)
BY DEF Precedes

LEMMA Versions ==
  ASSUME TypeOK
  PROVE  /\ disk.version \in Nat /\ durable.version \in Nat /\ mem.version \in Nat
         /\ \A p \in Proc : base[p].version \in Nat
BY DEF TypeOK, File, Memory

(* What is about to be published comes right after what is on disk.        *)
LEMMA DraftFollows ==
  ASSUME IInv, NEW p \in Proc, pc[p] = "rename"
  PROVE  /\ Draft(p) \in File /\ Precedes(disk, Draft(p))
         /\ Draft(p).log = disk.log \cup {op[p]}
         /\ Draft(p).id = stamp + 1 /\ Draft(p).id # disk.id
         /\ lock = p /\ \A q \in Proc : q # p => pc[q] # "rename"
<1>1. op[p] \in Op /\ lock = p /\ base[p].version = disk.version
  BY DEF IInv, Renaming
<1>2. base[p].log = disk.log
  BY <1>1 DEF IInv, OneHistory, Holds, Precedes
<1>3. Draft(p) \in File
  BY <1>1, DraftType DEF IInv
<1>4. Precedes(disk, Draft(p))
  BY <1>1, <1>2, Versions DEF IInv, Draft, Precedes
<1>5. Draft(p).id = stamp + 1 /\ Draft(p).id # disk.id
  BY DEF IInv, TypeOK, Fingerprints, Draft, File
<1>6. \A q \in Proc : q # p => pc[q] # "rename"
  BY <1>1 DEF IInv, Renaming
<1>7. QED
  BY <1>1, <1>2, <1>3, <1>4, <1>5, <1>6 DEF Draft

(* A step of p that leaves the file and the memory alone, and gives p at   *)
(* most the copy it had or a fresh one, keeps the copies in one history.   *)
OthersKeep(p) ==
  \A q \in Proc : q # p =>
    /\ pc'[q] = pc[q] /\ base'[q] = base[q] /\ op'[q] = op[q] /\ seen'[q] = seen[q]

LEMMA QuietHistory ==
  ASSUME IInv, NEW p \in Proc, OthersKeep(p),
         UNCHANGED <<fileVars, memVars>>,
         Holds(p)' => base'[p] = disk \/ (Holds(p) /\ base'[p] = base[p])
  PROVE  OneHistory'
<1> USE Versions, PrecedesRefl DEF IInv, OthersKeep, Holds, fileVars, memVars
<1>1. \A q \in Proc : Holds(q)' => base'[q] = disk \/ (Holds(q) /\ base'[q] = base[q])
  OBVIOUS
<1>2. \A q \in Proc : Holds(q)' => Precedes(base'[q], disk')
  BY <1>1 DEF OneHistory
<1>3. \A q, r \in Proc : Holds(q)' /\ Holds(r)' => Comparable(base'[q], base'[r])
  BY <1>1 DEF OneHistory, Comparable
<1>4. \A q \in Proc : up' /\ Holds(q)' => Comparable(base'[q], mem')
  BY <1>1 DEF OneHistory, Comparable
<1>5. QED
  BY <1>2, <1>3, <1>4 DEF OneHistory

LEMMA PublishHistory ==
  ASSUME IInv, NEW p \in Proc, pc[p] = "rename", OthersKeep(p),
         disk' = Draft(p), durable' \in {durable, Draft(p)}, UNCHANGED memVars,
         Holds(p)' => base'[p] = Draft(p)
  PROVE  OneHistory'
<1> DEFINE d == Draft(p)
<1>1. d.version \in Nat /\ Precedes(disk, d) /\ Precedes(d, d)
  BY DraftFollows, PrecedesRefl DEF File
<1>2. Precedes(durable', disk')
  BY <1>1, Versions, PrecedesTrans DEF IInv, OneHistory
<1>3. \A q \in Proc : Holds(q) => Precedes(base[q], d)
  BY <1>1, Versions, PrecedesTrans DEF IInv, OneHistory
<1>4. up => Precedes(mem, d)
  BY <1>1, Versions, PrecedesTrans DEF IInv, OneHistory
<1>5. \A q \in Proc : Holds(q)' => base'[q] = d \/ (Holds(q) /\ base'[q] = base[q])
  BY DEF OthersKeep, Holds
<1>6. \A q, r \in Proc : Holds(q)' /\ Holds(r)' => Comparable(base'[q], base'[r])
  BY <1>1, <1>3, <1>5 DEF IInv, OneHistory, Comparable
<1>7. \A q \in Proc : up' /\ Holds(q)' => Comparable(base'[q], mem')
  BY <1>4, <1>5 DEF IInv, OneHistory, Comparable, memVars
<1>8. QED
  BY <1>1, <1>2, <1>3, <1>4, <1>5, <1>6, <1>7 DEF IInv, OneHistory, memVars

(* What a reload or a write installs is newer than what it replaces.       *)
LEMMA ApplyHistory ==
  ASSUME IInv, NEW p \in Proc, Apply(p)
  PROVE  /\ OneHistory'
         /\ up => Precedes(mem, mem')
         /\ ~up => mem'.log = base[p].log
         /\ base[p].log \subseteq mem'.log
         /\ Precedes(mem', disk)
<1>1. /\ OthersKeep(p) /\ ~Holds(p)' /\ up' = TRUE /\ UNCHANGED <<disk, durable>>
      /\ pc[p] = "apply"
  BY DEF IInv, TypeOK, Apply, Settle, OthersKeep, Holds, fileVars
<1>2. /\ Holds(p) /\ Precedes(base[p], disk)
      /\ \A q \in Proc : Holds(q) => Comparable(base[q], base[p])
  BY <1>1 DEF IInv, OneHistory, Holds
<1>3. \A q \in Proc : Holds(q)' => Holds(q) /\ base'[q] = base[q]
  BY <1>1 DEF OthersKeep, Holds
<1>4. CASE Newer(base[p])
  <2>1. mem'.version = base[p].version /\ mem'.log = base[p].log
    BY <1>4 DEF Apply
  <2>2. up => Precedes(mem, mem')
    BY <2>1, <1>2, <1>4, Versions DEF IInv, OneHistory, Comparable, Precedes, Newer
  <2>3. Precedes(mem', disk)
    BY <2>1, <1>2 DEF Precedes
  <2>4. \A q \in Proc : Holds(q)' => Comparable(base'[q], mem')
    BY <2>1, <1>2, <1>3 DEF Comparable, Precedes
  <2>5. OneHistory'
    BY <1>1, <1>3, <2>3, <2>4 DEF IInv, OneHistory
  <2>6. QED
    BY <2>1, <2>2, <2>3, <2>5
<1>5. CASE ~Newer(base[p])
  <2>1. UNCHANGED mem
    BY <1>5 DEF Apply
  <2>2. up
    BY <1>5, Versions DEF IInv, OneHistory, Newer, EmptyMemory
  <2>3. base[p].log \subseteq mem.log
    BY <1>2, <1>5, <2>2, Versions DEF IInv, OneHistory, Comparable, Precedes, Newer
  <2>4. Precedes(mem, mem)
    BY Versions, PrecedesRefl DEF IInv
  <2>5. OneHistory'
    BY <1>1, <1>3, <2>1, <2>2 DEF IInv, OneHistory
  <2>6. QED
    BY <2>1, <2>2, <2>3, <2>4, <2>5 DEF IInv, OneHistory
<1>6. QED
  BY <1>4, <1>5

LEMMA CrashHistory == ASSUME IInv, ServerCrash \/ HostCrash PROVE OneHistory'
<1>1. CASE ServerCrash
  <2>1. \A q \in Proc : Holds(q)' => Holds(q) /\ base'[q] = base[q]
    BY <1>1 DEF ServerCrash, Holds
  <2>2. QED
    BY <1>1, <2>1 DEF ServerCrash, IInv, OneHistory, fileVars
<1>2. CASE HostCrash
  BY <1>2, Versions, PrecedesRefl DEF HostCrash, IInv, OneHistory, Holds
<1>3. QED
  BY <1>1, <1>2

LEMMA IInvTyped == ASSUME IInv PROVE Typed
BY DEF IInv, Typed, Renaming

(* Steps that touch neither the file nor the memory.                       *)
LEMMA QuietStep ==
  ASSUME IInv, NEW p \in Proc, UNCHANGED <<fileVars, memVars, acked>>,
         \/ Prepare(p) \/ PrepareNothing(p) \/ Refuse(p) \/ LockAndCheck(p)
         \/ Conflict(p) \/ BeginReload(p) \/ ReloadGuard(p)
         \/ Load(p) \/ \E o \in Op : BeginWrite(p, o)
  PROVE  OneHistory' /\ Renaming' /\ Answers' /\ Fingerprints'
<1> USE DEF IInv, fileVars, memVars
<1>1. OthersKeep(p)
  BY DEF TypeOK, OthersKeep, Prepare, PrepareNothing, Refuse, LockAndCheck, Conflict,
         BeginReload, ReloadGuard, Load, BeginWrite,
         ReadFile, Settle
<1>2. \/ ~Holds(p)'
      \/ Prepare(p) \/ PrepareNothing(p) \/ Load(p)
      \/ LockAndCheck(p) /\ Holds(p) /\ base'[p] = base[p]
  BY DEF TypeOK, Holds, Prepare, PrepareNothing, Refuse, LockAndCheck, Conflict,
         BeginReload, ReloadGuard, Load, BeginWrite,
         ReadFile, Settle
<1>3. Holds(p)' => base'[p] = disk \/ (Holds(p) /\ base'[p] = base[p])
  BY <1>2 DEF TypeOK, Holds, Prepare, PrepareNothing, Load, ReadFile
<1>4. OneHistory'
  BY <1>1, <1>3, QuietHistory
<1>5. Renaming'
  <2>1. pc'[p] = "rename" => LockAndCheck(p)
    BY <1>2 DEF TypeOK, Holds, Prepare, PrepareNothing, Load, ReadFile
  <2>2. CASE LockAndCheck(p)
    BY <1>1, <2>2, ConstantsAssumption
       DEF LockAndCheck, OthersKeep, Renaming, Roles, TypeOK, Proc, InServer
  <2>3. CASE ~LockAndCheck(p)
    <3>1. lock' = lock
      BY <2>3 DEF Prepare, PrepareNothing, Refuse, Conflict, BeginReload,
                  ReloadGuard, Load, BeginWrite, ReadFile
    <3>2. QED
      BY <1>1, <2>1, <2>3, <3>1 DEF OthersKeep, Renaming
  <2>4. QED
    BY <2>2, <2>3
<1>6. Answers'
  <2>1. Owing(p)' => Owing(p) /\ op'[p] = op[p]
    BY ConstantsAssumption
       DEF TypeOK, Roles, Owing, Prepare, PrepareNothing, Refuse, LockAndCheck, Conflict,
           BeginReload, ReloadGuard, Load, BeginWrite,
           ReadFile, Settle
  <2>2. pc'[p] = "apply" => base'[p] = disk
    BY <1>2 DEF TypeOK, Holds, Prepare, PrepareNothing, Load, LockAndCheck, ReadFile
  <2>3. durable.log \subseteq disk.log
    BY DEF OneHistory, Precedes
  <2>4. \A q \in Proc : q # p => Owing(q)' = Owing(q)
    BY <1>1 DEF OthersKeep, Owing
  <2>5. QED
    BY <1>1, <2>1, <2>2, <2>3, <2>4 DEF OthersKeep, Answers
<1>7. Fingerprints'
  <2>1. seen'[p] <= stamp
    BY DEF TypeOK, File, Fingerprints, Prepare, PrepareNothing, Refuse, LockAndCheck,
           Conflict, BeginReload, ReloadGuard, Load,
           BeginWrite, ReadFile, Settle, NoCheckpoint
  <2>2. pc'[p] = "apply" => base'[p] = disk
    BY <1>2 DEF TypeOK, Holds, Prepare, PrepareNothing, Load, LockAndCheck, ReadFile
  <2>3. QED
    BY <1>1, <2>1, <2>2 DEF OthersKeep, Fingerprints
<1>8. QED
  BY <1>4, <1>5, <1>6, <1>7

LEMMA PublishStep ==
  ASSUME IInv, NEW p \in Proc, Publish(p) \/ PublishFails(p)
  PROVE  OneHistory' /\ Renaming' /\ Answers' /\ Fingerprints'
<1> USE DEF IInv
<1>1. OthersKeep(p) /\ pc[p] = "rename" /\ UNCHANGED memVars /\ lock' = Nobody
  BY DEF TypeOK, Publish, PublishFails, Settle, OthersKeep
<1>2. \A q \in Proc : pc'[q] # "rename"
  BY <1>1, DraftFollows DEF TypeOK, Publish, PublishFails, Settle, OthersKeep
<1>3. Renaming'
  BY <1>2 DEF Renaming
<1>4. seen'[p] <= stamp /\ stamp \in Nat
  BY DEF TypeOK, Fingerprints, Publish, PublishFails, Settle, NoCheckpoint
<1>5. CASE disk' = Draft(p) /\ durable' \in {durable, Draft(p)} /\ stamp' = stamp + 1
  <2>1. /\ Holds(p)' => base'[p] = Draft(p)
        /\ Holds(p)' => Publish(p) /\ durable' = Draft(p) /\ op'[p] = op[p]
        /\ Owing(p)' => Publish(p) /\ durable' = Draft(p) /\ op'[p] = op[p]
    BY DEF TypeOK, Publish, PublishFails, Settle, Holds, Owing
  <2>2. OneHistory'
    BY <1>1, <1>5, <2>1, PublishHistory
  <2>3. durable.log \subseteq durable'.log
    BY <1>1, <1>5, DraftFollows DEF OneHistory, Precedes
  <2>4. acked' \subseteq acked \cup ({op[p]} \cap durable'.log)
    BY <1>1, DraftFollows DEF Publish, PublishFails
  <2>5. Answers'
    <3>1. \A q \in Proc : q # p => Owing(q)' = Owing(q)
      BY <1>1 DEF OthersKeep, Owing
    <3>2. Draft(p).log = disk.log \cup {op[p]}
      BY <1>1, DraftFollows
    <3>3. acked' \subseteq durable'.log
      BY <2>3, <2>4 DEF Answers
    <3>4. QED
      BY <1>1, <2>1, <2>3, <3>1, <3>2, <3>3 DEF Answers, OthersKeep, Holds
  <2>6. disk'.id = stamp + 1 /\ durable'.id <= stamp + 1
    <3>1. Draft(p).id = stamp + 1
      BY <1>1, DraftFollows
    <3>2. durable.id \in Nat /\ durable.id <= stamp
      BY DEF TypeOK, File, Fingerprints
    <3>3. QED
      BY <1>4, <1>5, <3>1, <3>2
  <2>7. /\ checkpoint' \in Int /\ checkpoint' <= stamp
        /\ \A q \in Proc : seen'[q] \in Int /\ seen'[q] <= stamp
    <3>1. checkpoint' \in Int /\ checkpoint' <= stamp
      BY <1>1 DEF TypeOK, Fingerprints, memVars, NoCheckpoint
    <3>2. \A q \in Proc : seen[q] \in Int /\ seen[q] <= stamp
      BY DEF TypeOK, Fingerprints, NoCheckpoint
    <3>3. seen'[p] \in Int
      BY <3>2 DEF TypeOK, Publish, PublishFails, Settle, NoCheckpoint
    <3>4. QED
      BY <1>1, <1>4, <3>1, <3>2, <3>3 DEF OthersKeep
  <2>8. Fingerprints'
    <3>1. stamp' = stamp + 1 /\ disk'.id # checkpoint' /\ checkpoint' <= stamp'
      BY <1>4, <1>5, <2>6, <2>7
    <3>2. \A q \in Proc : seen'[q] # disk'.id /\ seen'[q] <= stamp'
      BY <1>4, <1>5, <2>6, <2>7
    <3>3. QED
      BY <1>4, <2>6, <3>1, <3>2 DEF Fingerprints
  <2>9. QED
    BY <1>3, <2>2, <2>5, <2>8
<1>6. CASE PublishFails(p) /\ UNCHANGED fileVars
  <2>1. ~Holds(p)' /\ ~Owing(p)' /\ UNCHANGED acked
    BY <1>6 DEF TypeOK, PublishFails, Settle, Holds, Owing
  <2>2. OneHistory'
    BY <1>1, <1>6, <2>1, QuietHistory
  <2>3. Answers'
    BY <1>1, <1>6, <2>1 DEF Answers, OthersKeep, Owing, fileVars
  <2>4. Fingerprints'
    BY <1>1, <1>4, <1>6, <2>1 DEF Fingerprints, OthersKeep, Holds, fileVars, memVars
  <2>5. QED
    BY <1>3, <2>2, <2>3, <2>4
<1>7. QED
  BY <1>5, <1>6 DEF Publish, PublishFails

LEMMA ApplyStep ==
  ASSUME IInv, NEW p \in Proc, Apply(p)
  PROVE  OneHistory' /\ Renaming' /\ Answers' /\ Fingerprints'
<1> USE DEF IInv
<1>1. /\ OthersKeep(p) /\ pc[p] = "apply" /\ pc'[p] = "idle"
      /\ UNCHANGED <<disk, durable, stamp, lock>> /\ seen'[p] = NoCheckpoint
  BY DEF TypeOK, Apply, Settle, OthersKeep, fileVars
<1>2. Renaming'
  BY <1>1 DEF Renaming, OthersKeep
<1>3. Answers'
  <2>1. acked' \subseteq durable.log
    BY <1>1 DEF Answers, Apply, Owing
  <2>2. \A q \in Proc : Owing(q)' => Owing(q) /\ q # p
    BY <1>1 DEF OthersKeep, Owing
  <2>3. QED
    BY <1>1, <2>1, <2>2 DEF Answers, OthersKeep
<1>4. Fingerprints'
  <2>1. checkpoint' <= stamp
    BY DEF Apply, Fingerprints
  <2>2. checkpoint' = disk.id => mem'.version = disk.version
    <3>1. CASE Newer(base[p])
      BY <1>1, <3>1 DEF Apply, Fingerprints
    <3>2. CASE ~Newer(base[p])
      <4>1. up
        BY <3>2, Versions DEF OneHistory, Newer, EmptyMemory
      <4>2. QED
        BY <3>2, <4>1 DEF Apply, Fingerprints
    <3>3. QED
      BY <3>1, <3>2
  <2>3. seen'[p] <= stamp
    BY <1>1 DEF TypeOK, NoCheckpoint
  <2>4. QED
    BY <1>1, <2>1, <2>2, <2>3 DEF Fingerprints, OthersKeep
<1>5. QED
  BY <1>2, <1>3, <1>4, ApplyHistory

LEMMA CrashStep ==
  ASSUME IInv, ServerCrash \/ HostCrash
  PROVE  OneHistory' /\ Renaming' /\ Answers' /\ Fingerprints'
<1> USE DEF IInv
<1>1. CASE ServerCrash
  <2>1. Renaming'
    BY <1>1, ConstantsAssumption DEF ServerCrash, Renaming, Proc, InServer, fileVars
  <2>2. Answers'
    BY <1>1 DEF ServerCrash, Answers, Owing, fileVars
  <2>3. Fingerprints'
    BY <1>1 DEF ServerCrash, Fingerprints, fileVars, TypeOK, NoCheckpoint
  <2>4. QED
    BY <1>1, <2>1, <2>2, <2>3, CrashHistory
<1>2. CASE HostCrash
  <2>1. Renaming'
    BY <1>2 DEF HostCrash, Renaming
  <2>2. Answers'
    BY <1>2 DEF HostCrash, Answers, Owing, OneHistory, Precedes
  <2>3. Fingerprints'
    BY <1>2 DEF HostCrash, Fingerprints, TypeOK, NoCheckpoint
  <2>4. QED
    BY <1>2, <2>1, <2>2, <2>3, CrashHistory
<1>3. QED
  BY <1>1, <1>2

LEMMA StepInv == ASSUME IInv, [Next]_vars PROVE IInv'
<1>1. Typed'
  BY IInvTyped, TypedStep, TypedCrash, TypedStutter DEF Next
<1>2. ASSUME NEW p \in Proc, Step(p) \/ \E o \in Op : BeginWrite(p, o)
      PROVE  OneHistory' /\ Renaming' /\ Answers' /\ Fingerprints'
  <2>1. CASE Publish(p) \/ PublishFails(p)
    BY <2>1, PublishStep
  <2>2. CASE Apply(p)
    BY <2>2, ApplyStep
  <2>3. CASE \/ Prepare(p) \/ PrepareNothing(p) \/ Refuse(p) \/ LockAndCheck(p)
             \/ Conflict(p) \/ BeginReload(p) \/ ReloadGuard(p)
             \/ Load(p) \/ \E o \in Op : BeginWrite(p, o)
    <3>1. UNCHANGED <<fileVars, memVars, acked>>
      BY <2>3 DEF Prepare, PrepareNothing, Refuse, LockAndCheck, Conflict,
                  BeginReload, ReloadGuard, Load, BeginWrite, ReadFile
    <3>2. QED
      BY <2>3, <3>1, QuietStep
  <2>4. QED
    BY <1>2, <2>1, <2>2, <2>3 DEF Step
<1>3. CASE UNCHANGED vars
  <2>1. /\ disk' = disk /\ durable' = durable /\ stamp' = stamp /\ lock' = lock
        /\ up' = up /\ mem' = mem /\ checkpoint' = checkpoint /\ acked' = acked
        /\ pc' = pc /\ base' = base /\ op' = op /\ seen' = seen
    BY <1>3 DEF vars, fileVars, memVars, procVars
  <2>2. OneHistory'
    <3>1. \A q \in Proc : Holds(q)' <=> Holds(q)
      BY <2>1 DEF Holds
    <3>2. \A q, r \in Proc : Holds(q)' /\ Holds(r)' => Comparable(base'[q], base'[r])
      BY <2>1, <3>1 DEF IInv, OneHistory
    <3>3. \A q \in Proc : up' /\ Holds(q)' => Comparable(base'[q], mem')
      BY <2>1, <3>1 DEF IInv, OneHistory
    <3>4. QED
      BY <2>1, <3>1, <3>2, <3>3 DEF IInv, OneHistory
  <2>3. Renaming' /\ Answers'
    BY <2>1 DEF IInv, Renaming, Answers, Owing
  <2>4. Fingerprints'
    BY <2>1 DEF IInv, Fingerprints
  <2>5. QED
    BY <1>1, <2>2, <2>3, <2>4 DEF IInv, Typed
<1>4. QED
  BY <1>1, <1>2, <1>3, CrashStep DEF Next, IInv, Typed

LEMMA InitInv == ASSUME Init PROVE IInv
<1>1. TypeOK
  BY EmptyTypes, Attempts, ConstantsAssumption DEF Init, TypeOK, AllowCreate, NoCheckpoint
<1>2. Roles /\ Renaming /\ OneHistory
  BY <1>1, Versions, PrecedesRefl DEF Init, Roles, Renaming, OneHistory, Holds
<1>3. Answers /\ Fingerprints
  BY DEF Init, Answers, Owing, Fingerprints, NoCheckpoint, NoFile, LegacyFile
<1>4. QED
  BY <1>1, <1>2, <1>3 DEF IInv

LEMMA Invariant == Spec => []IInv
BY InitInv, StepInv, PTL DEF Spec

(* NoLostUpdate: whatever was reported as successful stays in the file,    *)
(* through every later commit and every crash (write.rs commit protocol).  *)
THEOREM NoLostUpdate == Spec => []AckedIsDurable
<1>1. IInv => AckedIsDurable
  BY DEF IInv, Answers, OneHistory, Precedes, AckedIsDurable
<1>2. QED
  BY <1>1, Invariant, PTL

(* MemoryIsACommit: the served copy is always a content of the file.       *)
THEOREM MemoryIsACommit == Spec => []MemoryFollowsFile
<1>1. IInv => MemoryFollowsFile
  BY DEF IInv, OneHistory, MemoryFollowsFile
<1>2. QED
  BY <1>1, Invariant, PTL

(* SkippingIsSafe: a poll that skips the reload misses nothing.            *)
THEOREM SkippingIsSafe == Spec => []SkippedReloadIsSound
<1>1. IInv => SkippedReloadIsSound
  BY DEF IInv, OneHistory, Precedes, Fingerprints, SkippedReloadIsSound
<1>2. QED
  BY <1>1, Invariant, PTL

(* NoRegression: while the server runs its memory only moves forward.      *)
THEOREM NoRegression == Spec => MemoryMovesForward
<1>1. ASSUME IInv, [Next]_vars
      PROVE  [up /\ up' => mem.version <= mem'.version /\ mem.log \subseteq mem'.log]_vars
  <2>1. ASSUME NEW p \in Proc, Apply(p), up
        PROVE  mem.version <= mem'.version /\ mem.log \subseteq mem'.log
    BY <1>1, <2>1, ApplyHistory DEF Precedes
  <2>2. CASE UNCHANGED mem
    BY <1>1, <2>2, Versions DEF IInv
  <2>3. CASE up' = FALSE
    BY <2>3
  <2>4. UNCHANGED mem \/ up' = FALSE \/ (\E p \in Proc : Apply(p)) \/ UNCHANGED vars
    BY <1>1 DEF Next, Step, Prepare, PrepareNothing, Refuse, LockAndCheck, Conflict,
       BeginReload, ReloadGuard, Load, BeginWrite, ReadFile,
       Publish, PublishFails, ServerCrash, HostCrash, memVars
  <2>5. QED
    BY <2>1, <2>2, <2>3, <2>4
<1>2. QED
  BY <1>1, Invariant, PTL DEF Spec, MemoryMovesForward

-----------------------------------------------------------------------------
(* Guards, old and new, accept the file: versions only grow while a guard  *)
(* is held, and a file that is missing has never been in memory.           *)
GuardInv ==
  /\ \A p \in Proc : GuardAccepts(guard[p], disk)
  /\ disk.id = 0 => disk.version = 0 /\ disk.log = {}
  /\ durable.id = 0 => durable.version = 0 /\ durable.log = {}

LEMMA FreshGuard == ASSUME IInv, GuardInv PROVE GuardAccepts(WriteGuard, disk)
<1>1. mem.version <= disk.version /\ mem.log \subseteq disk.log
  <2>1. CASE up
    BY <2>1 DEF IInv, OneHistory, Precedes
  <2>2. CASE ~up
    BY <2>2, Versions DEF IInv, OneHistory, EmptyMemory
  <2>3. QED
    BY <2>1, <2>2
<1>2. QED
  BY <1>1, Versions DEF IInv, GuardInv, GuardAccepts, WriteGuard

(* A publication raises the version.                                       *)
LEMMA GuardPublish ==
  ASSUME IInv, GuardInv, NEW p \in Proc, Publish(p) \/ PublishFails(p)
  PROVE  GuardInv'
<1>1. /\ Draft(p).version = disk.version + 1 /\ Draft(p).id = stamp + 1
      /\ stamp + 1 # 0
  BY DEF IInv, TypeOK, Renaming, Draft, Publish, PublishFails
<1>2. disk' \in {disk, Draft(p)} /\ durable' \in {durable, Draft(p)}
  BY DEF Publish, PublishFails, fileVars
<1>3. \A q \in Proc : guard'[q] \in {guard[q], AllowCreate}
  BY DEF IInv, TypeOK, Publish, PublishFails, Settle
<1>4. \A q \in Proc : guard[q] \in Nat \cup {AllowCreate}
  BY DEF IInv, TypeOK
<1>5. QED
  BY <1>1, <1>2, <1>3, <1>4, Versions DEF IInv, GuardInv, GuardAccepts

LEMMA GuardStep == ASSUME IInv, GuardInv, [Next]_vars PROVE GuardInv'
<1>1. ASSUME NEW p \in Proc, Publish(p) \/ PublishFails(p) PROVE GuardInv'
  BY <1>1, GuardPublish
<1>2. CASE HostCrash
  BY <1>2 DEF HostCrash, GuardInv, GuardAccepts
<1>3. CASE UNCHANGED fileVars /\ \A q \in Proc : guard'[q] \in {guard[q], AllowCreate, WriteGuard}
  BY <1>3, FreshGuard DEF GuardInv, GuardAccepts, fileVars
<1>4. ASSUME NEW p \in Proc, Step(p) \/ \E o \in Op : BeginWrite(p, o),
             ~(Publish(p) \/ PublishFails(p))
      PROVE  UNCHANGED fileVars /\ \A q \in Proc : guard'[q] \in {guard[q], AllowCreate, WriteGuard}
  <2>1. UNCHANGED fileVars
    BY <1>4 DEF Step, Prepare, PrepareNothing, Refuse, LockAndCheck, Conflict, BeginReload,
       ReloadGuard, Load, BeginWrite, ReadFile, Apply
  <2>2. \/ guard' = guard \/ guard' = [guard EXCEPT ![p] = AllowCreate]
        \/ guard' = [guard EXCEPT ![p] = WriteGuard]
    BY <1>4 DEF Step, Prepare, PrepareNothing, Refuse, LockAndCheck, Conflict, BeginReload,
       ReloadGuard, Load, BeginWrite, ReadFile, Apply, Settle
  <2>3. QED
    BY <2>1, <2>2 DEF IInv, TypeOK
<1>5. CASE ServerCrash
  BY <1>3, <1>5 DEF ServerCrash, fileVars
<1>6. CASE UNCHANGED vars
  BY <1>3, <1>6 DEF vars, fileVars, procVars
<1>7. QED
  BY <1>1, <1>2, <1>3, <1>4, <1>5, <1>6 DEF Next

(* GuardsAccept: without an administrator who puts an old file back, the   *)
(* guard of storage.rs never refuses the file.                             *)
THEOREM GuardsAccept == Spec => []NoFalseDivergence
<1>1. Init => GuardInv
  BY DEF Init, GuardInv, GuardAccepts, NoFile, LegacyFile
<1>2. IInv /\ GuardInv => NoFalseDivergence
  BY DEF GuardInv, NoFalseDivergence
<1>3. QED
  BY <1>1, <1>2, GuardStep, Invariant, PTL DEF Spec

(* MemoryIsTrue: memory is a version of the file, and no guard taken from  *)
(* it ever turns against the file.                                         *)
THEOREM MemoryIsTrue == Spec => []MemoryStaysTrue
  BY MemoryIsACommit, GuardsAccept, PTL DEF MemoryStaysTrue

-----------------------------------------------------------------------------
(* The registry service, step by step: a rename commits, an apply serves,  *)
(* a crash restarts, and everything else is invisible.                     *)
LEMMA PublishCommits ==
  ASSUME IInv, NEW p \in Proc, Publish(p) \/ PublishFails(p)
  PROVE  [Service!Next]_(Service!vars)
<1>1. pc[p] = "rename" /\ op[p] \in Op /\ Draft(p).log = disk.log \cup {op[p]}
  BY DraftFollows DEF Publish, PublishFails, IInv, Renaming
<1>2. CASE disk' = Draft(p) /\ durable' \in {durable, Draft(p)} /\ UNCHANGED mem
           /\ \/ acked' = acked
              \/ acked' = acked \cup {op[p]} /\ durable' = Draft(p)
  <2>1. Service!Commit(op[p])
    BY <1>1, <1>2 DEF Service!Commit
  <2>2. QED
    BY <1>1, <2>1 DEF Service!Next
<1>3. CASE UNCHANGED fileVars /\ UNCHANGED mem /\ UNCHANGED acked
  BY <1>3 DEF fileVars, Service!vars
<1>4. QED
  BY <1>2, <1>3 DEF Publish, PublishFails, memVars

LEMMA ApplyServes ==
  ASSUME IInv, IInv', NEW p \in Proc, Apply(p)
  PROVE  Service!Serve
<1>1. UNCHANGED <<disk, durable>> /\ up'
  BY DEF Apply, fileVars
<1>2. mem.log \subseteq mem'.log
  BY ApplyHistory DEF Precedes, IInv, OneHistory, EmptyMemory
<1>3. mem'.log \subseteq disk.log
  BY <1>1 DEF IInv, OneHistory, Precedes
<1>4. acked' \ acked \subseteq {op[p]} /\ acked \subseteq acked'
  BY DEF Apply
<1>5. op[p] # NoOp => op[p] \in durable.log /\ op[p] \in mem'.log
  BY ApplyHistory DEF Apply, IInv, Answers, Owing
<1>6. acked' \ acked \subseteq mem'.log \cap durable.log
  BY <1>4, <1>5 DEF Apply
<1>7. acked' \subseteq Op
  BY DEF IInv, TypeOK
<1>8. QED
  BY <1>1, <1>2, <1>3, <1>4, <1>6, <1>7 DEF Service!Serve

LEMMA CrashRestarts ==
  ASSUME IInv, ServerCrash \/ HostCrash
  PROVE  Service!Restart
BY DEF IInv, OneHistory, Precedes, ServerCrash, HostCrash, EmptyMemory, fileVars,
       Service!Restart

LEMMA StepServes ==
  ASSUME IInv, IInv', [Next]_vars
  PROVE  [Service!Next]_(Service!vars)
<1>1. UNCHANGED <<disk, durable, mem, acked>> => UNCHANGED Service!vars
  BY DEF Service!vars
<1>2. ASSUME NEW p \in Proc, Step(p) \/ \E o \in Op : BeginWrite(p, o)
      PROVE  \/ Publish(p) \/ PublishFails(p) \/ Apply(p)
             \/ UNCHANGED <<disk, durable, mem, acked>>
  BY <1>2 DEF Step, Prepare, PrepareNothing, Refuse, LockAndCheck, Conflict,
     BeginReload, ReloadGuard, Load, BeginWrite, ReadFile,
     fileVars, memVars
<1>3. CASE UNCHANGED vars
  BY <1>1, <1>3 DEF vars, fileVars, memVars
<1>4. CASE ServerCrash \/ HostCrash
  BY <1>4, CrashRestarts DEF Service!Next
<1>5. ASSUME NEW p \in Proc, Step(p) \/ \E o \in Op : BeginWrite(p, o)
      PROVE  [Service!Next]_(Service!vars)
  BY <1>1, <1>2, <1>5, PublishCommits, ApplyServes DEF Service!Next
<1>6. QED
  BY <1>3, <1>4, <1>5 DEF Next

(* Refinement: optimistic commits, lockless reads and reloads in any order *)
(* implement one registry with serial mutations (write.rs, lifecycle.rs).  *)
THEOREM Refinement == Spec => ImplementsService
<1>1. Init => Service!Init
  BY DEF Init, Service!Init, NoFile, LegacyFile, EmptyMemory
<1>2. QED
  BY <1>1, StepServes, Invariant, PTL DEF Spec, ImplementsService, Service!Spec
=============================================================================
