--------------------------- MODULE BackupsProofs ---------------------------
(***************************************************************************)
(* Proofs about the backups, for any number of server processes, tables,   *)
(* folders and transactions, any retention and any bounds.                 *)
(***************************************************************************)
EXTENDS Backups, FiniteSetTheorems, TLAPS

Kinds == {"nightly", "retry", "manual"}
Sighting == [folder : Folders, made : Nat]
BackupRecord ==
  [step : {"idle"} \cup Writing \cup Retaining, kind : Kinds, folder : Folders, made : Nat,
   snapshot : Versions, sent : Contents, unread : SUBSET Folders, seen : SUBSET Sighting,
   doomed : SUBSET Sighting, left : SUBSET (Tables \cup {0})]
Manifest == [made : Nat, parts : Contents]
RestoreRecord ==
  [step : {"idle", "checking", "inserting", "done"}, folder : Folders, wanted : Contents,
   asked : SUBSET Contents, next : Nat \ {0}]

(* The four parts of the type invariant.                                   *)
StorageOK ==
  /\ part \in [Folders -> Contents] /\ manifest \in [Folders -> Manifest]
  /\ shared \subseteq Folders

ProcessesOK ==
  /\ backup \in [Servers -> BackupRecord]
  /\ timer \in [Servers -> {"none", "nightly", "retry", "alerting"}]
  /\ up \in [Servers -> BOOLEAN]

RestoreOK == target \in Contents /\ restore \in RestoreRecord

BudgetOK ==
  /\ limit \in Limits
  /\ begun \in Nat /\ begun <= limit.backups /\ restores \in Nat /\ restores <= limit.restores
  /\ faults \in Nat /\ faults <= limit.faults /\ crashes \in Nat /\ crashes <= limit.crashes
  /\ minute \in Nat /\ minute <= limit.minutes
  /\ version \in Nat \ {0} /\ version <= limit.writes + 1

Types == StorageOK /\ ProcessesOK /\ RestoreOK /\ BudgetOK

(* The advisory lock is held by the one process inside its transaction.    *)
LockHeld ==
  /\ \A s \in Servers : s \in lock <=> backup[s].step = "uploading"
  /\ lock \subseteq Servers /\ \A r, s \in lock : r = s

(* Backups are numbered as they begin.                                     *)
Numbered ==
  /\ \A f \in Folders : manifest[f].made <= begun
  /\ \A s \in Servers : /\ backup[s].made <= begun
                        /\ \A x \in backup[s].seen \cup backup[s].doomed : x.made <= begun

LEMMA Limited ==
  ASSUME NEW l \in Limits
  PROVE  /\ l.backups \in Nat /\ l.restores \in Nat /\ l.faults \in Nat /\ l.crashes \in Nat
         /\ l.minutes \in Nat /\ l.minutes <= MaxMinute
         /\ l.writes \in Nat /\ l.writes + 1 <= MaxVersion
         /\ MaxVersion \in Nat /\ MaxMinute \in Nat
BY BackupAssumption

LEMMA Values ==
  /\ NoFolder \in Folders /\ Nothing \in Contents /\ NoManifest \in Manifest
  /\ Idle \in BackupRecord /\ NoRestore \in RestoreRecord
  /\ TableCount \in Nat \ {0} /\ Keep \in Nat \ {0} /\ Day \in Nat \ {0}
<1>1. /\ TableCount \in Nat \ {0} /\ Keep \in Nat \ {0} /\ Day \in Nat \ {0}
      /\ MaxSuffix \in Nat \ {0} /\ MaxMinute \in Nat /\ MaxVersion \in Nat
  BY BackupAssumption
<1>2. NoFolder \in Folders
  BY <1>1 DEF NoFolder, Folders
<1>3. Nothing \in Contents /\ 0 \in Versions
  BY <1>1 DEF Nothing, Contents, Versions
<1>4. NoManifest \in Manifest
  BY <1>3 DEF NoManifest, Manifest
<1>5. Idle \in BackupRecord
  BY <1>2, <1>3 DEF Idle, BackupRecord, Kinds
<1>6. NoRestore \in RestoreRecord
  BY <1>2, <1>3 DEF NoRestore, RestoreRecord
<1>7. QED
  BY <1>1, <1>2, <1>3, <1>4, <1>5, <1>6

(* The named parts make the type invariant of the module.                  *)
LEMMA TypeParts == Types /\ LockHeld /\ Numbered => TypeOK
<1> SUFFICES ASSUME Types, LockHeld, Numbered PROVE TypeOK
  OBVIOUS
<1>0. /\ limit.backups \in Nat /\ limit.restores \in Nat /\ limit.faults \in Nat
      /\ limit.crashes \in Nat /\ limit.minutes \in Nat /\ limit.minutes <= MaxMinute
      /\ limit.writes \in Nat /\ limit.writes + 1 <= MaxVersion
      /\ MaxVersion \in Nat /\ MaxMinute \in Nat
  BY Limited DEF Types, BudgetOK
<1>1. version \in Versions /\ minute \in 0..MaxMinute
  BY <1>0 DEF Types, BudgetOK, Versions
<1>2. Cardinality(lock) <= 1
  <2>1. CASE lock = {}
    BY <2>1, FS_EmptySet
  <2>2. CASE lock # {}
    <3>1. PICK s \in lock : TRUE
      BY <2>2
    <3>2. lock = {s}
      BY <3>1 DEF LockHeld
    <3>3. QED
      BY <3>2, FS_Singleton
  <2>3. QED
    BY <2>1, <2>2
<1>3. \A f \in Folders : manifest[f].made \in 0..begun /\ manifest[f].parts \in Contents
  BY DEF Types, StorageOK, BudgetOK, Manifest, Numbered
<1>4. ASSUME NEW s \in Servers
      PROVE  /\ backup[s].step \in {"idle"} \cup Writing \cup Retaining
             /\ backup[s].kind \in {"nightly", "retry", "manual"}
             /\ backup[s].folder \in Folders /\ backup[s].made \in 0..begun
             /\ backup[s].snapshot \in Versions /\ backup[s].sent \in Contents
             /\ backup[s].unread \subseteq Folders
             /\ backup[s].seen \cup backup[s].doomed \subseteq [folder : Folders, made : 0..begun]
             /\ s \in lock <=> backup[s].step = "uploading"
  <2>1. backup[s] \in BackupRecord
    BY DEF Types, ProcessesOK
  <2>2. \A x \in backup[s].seen \cup backup[s].doomed : x \in [folder : Folders, made : 0..begun]
    <3> TAKE x \in backup[s].seen \cup backup[s].doomed
    <3>1. x \in Sighting /\ x.made <= begun
      BY <2>1 DEF BackupRecord, Numbered
    <3>2. QED
      BY <3>1 DEF Sighting, Types, BudgetOK
  <2>3. backup[s].made \in 0..begun
    BY <2>1 DEF BackupRecord, Numbered, Types, BudgetOK
  <2>4. QED
    BY <2>1, <2>2, <2>3 DEF BackupRecord, Kinds, LockHeld
<1>5. restore.step \in {"idle", "checking", "inserting", "done"} /\ target \in Contents
  BY DEF Types, RestoreOK, RestoreRecord
<1>6. QED
  BY <1>0, <1>1, <1>2, <1>3, <1>4, <1>5
  DEF TypeOK, Types, StorageOK, ProcessesOK, BudgetOK, LockHeld

-----------------------------------------------------------------------------
(* The steps of a process keep the types.                                  *)

LEMMA Timers ==
  ASSUME ProcessesOK, NEW s \in Servers, NEW outcome
  PROVE  /\ [timer EXCEPT ![s] = IF backup[s].kind = "manual" THEN @
                                 ELSE NextTimer(backup[s].kind, outcome)]
              \in [Servers -> {"none", "nightly", "retry", "alerting"}]
BY DEF ProcessesOK, NextTimer

LEMMA EndsType ==
  ASSUME ProcessesOK, NEW s \in Servers, NEW outcome, Ends(s, outcome), UNCHANGED up
  PROVE  ProcessesOK'
BY Values, Timers DEF Ends, ProcessesOK

LEMMA BeginTypes ==
  ASSUME Types, NEW s \in Servers, NEW kind \in Kinds, Begin(s, kind)
  PROVE  Types'
<1>1. StorageOK' /\ RestoreOK'
  BY DEF Types, StorageOK, RestoreOK, Begin, storage, restoring
<1>2. BudgetOK'
  <2>1. limit.backups \in Nat
    BY Limited DEF Types, BudgetOK
  <2>2. QED
    BY <2>1 DEF Types, BudgetOK, Begin
<1>3. ProcessesOK'
  <2>1. PICK f \in Folders : backup' = [backup EXCEPT ![s] =
          [Idle EXCEPT !.step = "named", !.kind = kind, !.folder = f, !.made = begun + 1]]
    BY DEF Begin
  <2>2. [Idle EXCEPT !.step = "named", !.kind = kind, !.folder = f, !.made = begun + 1]
          \in BackupRecord
    <3>1. begun + 1 \in Nat
      BY DEF Types, BudgetOK
    <3>2. QED
      BY <3>1, Values DEF BackupRecord, Writing
  <2>3. QED
    BY <2>1, <2>2 DEF Types, ProcessesOK, Begin
<1>4. QED
  BY <1>1, <1>2, <1>3 DEF Types

LEMMA TimerFindsBusyTypes ==
  ASSUME Types, NEW s \in Servers, TimerFindsBusy(s)
  PROVE  Types'
BY DEF Types, StorageOK, ProcessesOK, RestoreOK, BudgetOK, TimerFindsBusy, storage, restoring,
       budget

LEMMA TakeLockTypes ==
  ASSUME Types, NEW s \in Servers, TakeLock(s)
  PROVE  Types'
<1>1. StorageOK' /\ RestoreOK' /\ BudgetOK'
  BY DEF Types, StorageOK, RestoreOK, BudgetOK, TakeLock, storage, restoring, budget
<1>2. version \in Versions
  BY Limited DEF Types, BudgetOK, Versions
<1>3. ProcessesOK'
  <2>1. [backup[s] EXCEPT !.step = "uploading", !.snapshot = version] \in BackupRecord
    BY <1>2 DEF Types, ProcessesOK, BackupRecord, Writing
  <2>2. [backup EXCEPT ![s].step = "uploading", ![s].snapshot = version]
          \in [Servers -> BackupRecord]
    BY <2>1 DEF Types, ProcessesOK
  <2>3. QED
    BY <2>2 DEF Types, ProcessesOK, TakeLock
<1>4. QED
  BY <1>1, <1>3 DEF Types

LEMMA BusyTypes ==
  ASSUME Types, NEW s \in Servers, Busy(s)
  PROVE  Types'
<1>1. StorageOK' /\ RestoreOK' /\ BudgetOK'
  BY DEF Types, StorageOK, RestoreOK, BudgetOK, Busy, storage, restoring, budget
<1>2. ProcessesOK'
  BY EndsType DEF Types, Busy
<1>3. QED
  BY <1>1, <1>2 DEF Types

(* What a backup sends and where to.                                       *)
LEMMA UploadType ==
  ASSUME Types, NEW s \in Servers, NextTable(s) \in Tables
  PROVE  /\ [part EXCEPT ![backup[s].folder][NextTable(s)] = Reads(s)] \in [Folders -> Contents]
         /\ [backup EXCEPT ![s].sent[NextTable(s)] = Reads(s)] \in [Servers -> BackupRecord]
         /\ [manifest EXCEPT ![backup[s].folder] =
               [made |-> backup[s].made, parts |-> backup[s].sent]] \in [Folders -> Manifest]
<1> DEFINE n == NextTable(s)
<1>1. backup[s] \in BackupRecord /\ backup \in [Servers -> BackupRecord]
      /\ part \in [Folders -> Contents] /\ manifest \in [Folders -> Manifest] /\ n \in Tables
  BY DEF Types, ProcessesOK, StorageOK
<1> HIDE DEF n
<1>2. Reads(s) \in Versions
  BY <1>1 DEF Reads, BackupRecord
<1>3. [part EXCEPT ![backup[s].folder][n] = Reads(s)] \in [Folders -> Contents]
  BY <1>1, <1>2 DEF Contents
<1>4. [backup EXCEPT ![s].sent[n] = Reads(s)] \in [Servers -> BackupRecord]
  BY <1>1, <1>2 DEF Contents, BackupRecord
<1>5. [manifest EXCEPT ![backup[s].folder] = [made |-> backup[s].made, parts |-> backup[s].sent]]
        \in [Folders -> Manifest]
  BY <1>1 DEF Manifest, BackupRecord
<1>6. QED
  BY <1>3, <1>4, <1>5 DEF n

LEMMA UploadTableTypes ==
  ASSUME Types, NEW s \in Servers, UploadTable(s)
  PROVE  Types'
<1>1. RestoreOK' /\ BudgetOK'
  BY DEF Types, RestoreOK, BudgetOK, UploadTable, restoring, budget
<1>2. StorageOK' /\ ProcessesOK'
  BY UploadType DEF Types, StorageOK, ProcessesOK, UploadTable
<1>3. QED
  BY <1>1, <1>2 DEF Types

LEMMA CommitTypes ==
  ASSUME Types, NEW s \in Servers, Commit(s)
  PROVE  Types'
<1>1. StorageOK' /\ RestoreOK' /\ BudgetOK'
  BY DEF Types, StorageOK, RestoreOK, BudgetOK, Commit, storage, restoring, budget
<1>2. ProcessesOK'
  BY DEF Types, ProcessesOK, Commit, BackupRecord, Writing
<1>3. QED
  BY <1>1, <1>2 DEF Types

LEMMA PutManifestTypes ==
  ASSUME Types, NEW s \in Servers, PutManifest(s)
  PROVE  Types'
<1>1. RestoreOK' /\ BudgetOK'
  BY DEF Types, RestoreOK, BudgetOK, PutManifest, restoring, budget
<1>2. StorageOK'
  BY DEF Types, StorageOK, ProcessesOK, PutManifest, BackupRecord, Manifest
<1>3. ProcessesOK'
  BY DEF Types, ProcessesOK, PutManifest, BackupRecord, Retaining
<1>4. QED
  BY <1>1, <1>2, <1>3 DEF Types

LEMMA ListFoldersTypes ==
  ASSUME Types, NEW s \in Servers, ListFolders(s)
  PROVE  Types'
<1>1. StorageOK' /\ RestoreOK' /\ BudgetOK'
  BY DEF Types, StorageOK, RestoreOK, BudgetOK, ListFolders, storage, restoring, budget
<1>3. ProcessesOK'
  <2> DEFINE there == {f \in Folders : Listed(f)}
  <2>1. there \in SUBSET Folders /\ backup[s] \in BackupRecord
    BY DEF Types, ProcessesOK
  <2>2. backup' = [backup EXCEPT ![s].step = "reading", ![s].unread = there]
    BY DEF ListFolders
  <2> HIDE DEF there
  <2>3. [backup[s] EXCEPT !.step = "reading", !.unread = there] \in BackupRecord
    BY <2>1 DEF BackupRecord, Retaining
  <2>4. [backup EXCEPT ![s].step = "reading", ![s].unread = there] \in [Servers -> BackupRecord]
    BY <2>3 DEF Types, ProcessesOK
  <2>5. QED
    BY <2>2, <2>4 DEF Types, ProcessesOK, ListFolders
<1>4. QED
  BY <1>1, <1>3 DEF Types

LEMMA ReadManifestTypes ==
  ASSUME Types, NEW s \in Servers, ReadManifest(s)
  PROVE  Types'
<1>1. StorageOK' /\ RestoreOK' /\ BudgetOK'
  BY DEF Types, StorageOK, RestoreOK, BudgetOK, ReadManifest, storage, restoring, budget
<1>2. PICK f \in backup[s].unread :
        backup' = [backup EXCEPT ![s].unread = @ \ {f},
                                 ![s].seen = @ \cup {[folder |-> f, made |-> manifest[f].made]}]
  BY DEF ReadManifest
<1>3. f \in Folders /\ backup[s] \in BackupRecord
  BY <1>2 DEF Types, ProcessesOK, BackupRecord
<1>4. [folder |-> f, made |-> manifest[f].made] \in Sighting
  BY <1>3 DEF Types, StorageOK, Manifest, Sighting
<1>5. ProcessesOK'
  BY <1>2, <1>3, <1>4 DEF Types, ProcessesOK, ReadManifest, BackupRecord
<1>6. QED
  BY <1>1, <1>5 DEF Types

LEMMA DecideTypes ==
  ASSUME Types, NEW s \in Servers, Decide(s)
  PROVE  Types'
<1>1. StorageOK' /\ RestoreOK' /\ BudgetOK'
  BY DEF Types, StorageOK, RestoreOK, BudgetOK, Decide, storage, restoring, budget
<1>2. backup[s] \in BackupRecord
  BY DEF Types, ProcessesOK
<1>3. PICK seconds \in 0..1 :
        backup' = [backup EXCEPT ![s].step = "deleting", ![s].seen = {},
                                 ![s].doomed = Surplus(s) \cup LeftBehind(s, seconds)]
  BY DEF Decide
<1>4. ProcessesOK'
  <2>1. Surplus(s) \cup LeftBehind(s, seconds) \in SUBSET Sighting
    BY <1>2 DEF BackupRecord, Surplus, LeftBehind
  <2>2. QED
    BY <1>2, <1>3, <2>1 DEF Types, ProcessesOK, Decide, BackupRecord, Retaining
<1>5. QED
  BY <1>1, <1>4 DEF Types

LEMMA EmptiedType ==
  ASSUME ProcessesOK, NEW s \in Servers, NEW r
  PROVE  Emptied(s, r) \in [Servers -> BackupRecord]
<1>1. backup[s] \in BackupRecord /\ backup[s].doomed \ {r} \in SUBSET Sighting
  BY DEF ProcessesOK, BackupRecord
<1>2. [backup[s] EXCEPT !.step = "deleting", !.doomed = @ \ {r}, !.left = {}] \in BackupRecord
  BY <1>1 DEF BackupRecord, Retaining
<1>3. QED
  BY <1>2 DEF ProcessesOK, Emptied

LEMMA DeletedType ==
  ASSUME ProcessesOK, NEW s \in Servers, NEW r, NEW object
  PROVE  Deleted(s, r, object) \in [Servers -> BackupRecord]
<1>1. [backup[s] EXCEPT !.left = @ \ {object}] \in BackupRecord
  BY DEF ProcessesOK, BackupRecord
<1>2. [backup EXCEPT ![s].left = @ \ {object}] \in [Servers -> BackupRecord]
  BY <1>1 DEF ProcessesOK
<1>3. QED
  BY <1>2, EmptiedType DEF Deleted

LEMMA ListObjectsTypes ==
  ASSUME Types, NEW s \in Servers, ListObjects(s)
  PROVE  Types'
<1>1. StorageOK' /\ RestoreOK' /\ BudgetOK'
  BY DEF Types, StorageOK, RestoreOK, BudgetOK, ListObjects, storage, restoring, budget
<1>2. PICK r \in backup[s].doomed :
        backup' = IF Objects(r.folder) = {} THEN Emptied(s, r)
                  ELSE [backup EXCEPT ![s].step = "emptying", ![s].left = Objects(r.folder)]
  BY DEF ListObjects
<1>3. [backup EXCEPT ![s].step = "emptying", ![s].left = Objects(r.folder)]
        \in [Servers -> BackupRecord]
  <2> DEFINE left == Objects(r.folder)
  <2>1. left \in SUBSET (Tables \cup {0}) /\ backup[s] \in BackupRecord
    BY DEF Objects, Holding, Types, ProcessesOK
  <2> HIDE DEF left
  <2>2. [backup[s] EXCEPT !.step = "emptying", !.left = left] \in BackupRecord
    BY <2>1 DEF BackupRecord, Retaining
  <2>3. [backup EXCEPT ![s].step = "emptying", ![s].left = left] \in [Servers -> BackupRecord]
    BY <2>2 DEF Types, ProcessesOK
  <2>4. QED
    BY <2>3 DEF left
<1>4. ProcessesOK'
  BY <1>2, <1>3, EmptiedType DEF Types, ProcessesOK, ListObjects
<1>5. QED
  BY <1>1, <1>4 DEF Types

LEMMA DeleteManifestTypes ==
  ASSUME Types, NEW s \in Servers, DeleteManifest(s)
  PROVE  Types'
<1>1. RestoreOK' /\ BudgetOK'
  BY DEF Types, RestoreOK, BudgetOK, DeleteManifest, restoring, budget
<1>2. PICK r \in backup[s].doomed :
        manifest' = ManifestFirst(r.folder) /\ backup' = Deleted(s, r, 0)
  BY DEF DeleteManifest
<1>3. StorageOK'
  BY <1>2, Values DEF Types, StorageOK, DeleteManifest, ManifestFirst
<1>4. ProcessesOK'
  BY <1>2, DeletedType DEF Types, ProcessesOK, DeleteManifest
<1>5. QED
  BY <1>1, <1>3, <1>4 DEF Types

LEMMA DeletePartTypes ==
  ASSUME Types, NEW s \in Servers, DeletePart(s)
  PROVE  Types'
<1>1. RestoreOK' /\ BudgetOK'
  BY DEF Types, RestoreOK, BudgetOK, DeletePart, restoring, budget
<1>2. PICK t \in backup[s].left, r \in backup[s].doomed :
        part' = [part EXCEPT ![r.folder][t] = 0] /\ backup' = Deleted(s, r, t)
  BY DEF DeletePart
<1>3. 0 \in Versions
  BY BackupAssumption DEF Versions
<1>4. StorageOK'
  BY <1>2, <1>3 DEF Types, StorageOK, DeletePart, Contents
<1>5. ProcessesOK'
  BY <1>2, DeletedType DEF Types, ProcessesOK, DeletePart
<1>6. QED
  BY <1>1, <1>4, <1>5 DEF Types

LEMMA AlertRecordedTypes ==
  ASSUME Types, NEW s \in Servers, AlertRecorded(s)
  PROVE  Types'
BY DEF Types, StorageOK, ProcessesOK, RestoreOK, BudgetOK, AlertRecorded, storage, restoring,
       budget

LEMMA FinishTypes ==
  ASSUME Types, NEW s \in Servers, Finish(s)
  PROVE  Types'
<1>1. StorageOK' /\ RestoreOK' /\ BudgetOK'
  BY DEF Types, StorageOK, RestoreOK, BudgetOK, Finish, storage, restoring, budget
<1>2. ProcessesOK'
  BY EndsType DEF Types, Finish
<1>3. QED
  BY <1>1, <1>2 DEF Types

(* A request that fails may still have put the part or the manifest.       *)
MayHavePut(s) ==
  \/ UNCHANGED storage
  \/ /\ backup[s].step = "uploading" /\ NextTable(s) \in Tables
     /\ part' = [part EXCEPT ![backup[s].folder][NextTable(s)] = Reads(s)]
     /\ UNCHANGED manifest
  \/ /\ backup[s].step = "committed"
     /\ manifest' = [manifest EXCEPT ![backup[s].folder] =
                       [made |-> backup[s].made, parts |-> backup[s].sent]]
     /\ UNCHANGED part

LEMMA FailureCases ==
  ASSUME NEW s \in Servers, StorageFails(s)
  PROVE  /\ up[s] /\ faults < limit.faults /\ faults' = faults + 1
         /\ \/ /\ backup[s].step \in Writing /\ MayHavePut(s)
               /\ lock' = lock \ {s} /\ Ends(s, "failed")
            \/ backup[s].step \in Retaining /\ Ends(s, "ok") /\ UNCHANGED <<lock, storage>>
         /\ UNCHANGED <<version, minute, up, restoring, shared, limit, begun, restores, crashes>>
BY DEF StorageFails, MayHavePut, At

LEMMA StorageFailsTypes ==
  ASSUME Types, NEW s \in Servers, StorageFails(s)
  PROVE  Types'
<1>1. RestoreOK'
  BY FailureCases DEF Types, RestoreOK, restoring
<1>2. BudgetOK'
  <2>1. limit.faults \in Nat
    BY Limited DEF Types, BudgetOK
  <2>2. QED
    BY <2>1, FailureCases DEF Types, BudgetOK
<1>3. ProcessesOK'
  BY FailureCases, EndsType DEF Types
<1>4. StorageOK'
  <2>1. CASE UNCHANGED storage
    BY <2>1, FailureCases DEF Types, StorageOK, storage
  <2>2. CASE MayHavePut(s)
    <3>1. [manifest EXCEPT ![backup[s].folder] =
             [made |-> backup[s].made, parts |-> backup[s].sent]] \in [Folders -> Manifest]
      BY DEF Types, StorageOK, ProcessesOK, BackupRecord, Manifest
    <3>2. part' \in [Folders -> Contents] /\ manifest' \in [Folders -> Manifest]
      <4>1. part \in [Folders -> Contents] /\ manifest \in [Folders -> Manifest]
        BY DEF Types, StorageOK
      <4>2. CASE UNCHANGED storage
        BY <4>1, <4>2 DEF storage
      <4>3. CASE /\ NextTable(s) \in Tables /\ UNCHANGED manifest
                 /\ part' = [part EXCEPT ![backup[s].folder][NextTable(s)] = Reads(s)]
        BY <4>1, <4>3, UploadType
      <4>4. CASE /\ UNCHANGED part
                 /\ manifest' = [manifest EXCEPT ![backup[s].folder] =
                                   [made |-> backup[s].made, parts |-> backup[s].sent]]
        BY <4>1, <4>4, <3>1
      <4>5. QED
        BY <2>2, <4>2, <4>3, <4>4 DEF MayHavePut
    <3>3. QED
      BY <3>2, FailureCases DEF Types, StorageOK
  <2>3. QED
    BY <2>1, <2>2, FailureCases DEF storage
<1>5. QED
  BY <1>1, <1>2, <1>3, <1>4 DEF Types

LEMMA CrashTypes ==
  ASSUME Types, NEW s \in Servers, Crash(s)
  PROVE  Types'
<1>1. StorageOK' /\ RestoreOK'
  BY DEF Types, StorageOK, RestoreOK, Crash, storage, restoring
<1>2. BudgetOK'
  <2>1. limit.crashes \in Nat
    BY Limited DEF Types, BudgetOK
  <2>2. QED
    BY <2>1 DEF Types, BudgetOK, Crash
<1>3. ProcessesOK'
  BY Values DEF Types, ProcessesOK, Crash
<1>4. QED
  BY <1>1, <1>2, <1>3 DEF Types

LEMMA RestartTypes ==
  ASSUME Types, NEW s \in Servers, Restart(s)
  PROVE  Types'
BY DEF Types, StorageOK, ProcessesOK, RestoreOK, BudgetOK, Restart, storage, restoring, budget

(* The steps of a restore, of the application and of the clock.            *)

Restores ==
  \/ \E f \in Folders, into \in {"empty", "existing"} : RestoreBegins(f, into)
  \/ CheckObject \/ AllChecked \/ InsertTable \/ RestoreSucceeds \/ RestoreFails

LEMMA RestoreBeginsTypes ==
  ASSUME Types, NEW f \in Folders, NEW into, RestoreBegins(f, into)
  PROVE  Types'
<1>1. StorageOK' /\ ProcessesOK'
  BY DEF Types, StorageOK, ProcessesOK, RestoreBegins, storage
<1>2. BudgetOK'
  <2>1. limit.restores \in Nat
    BY Limited DEF Types, BudgetOK
  <2>2. QED
    BY <2>1 DEF Types, BudgetOK, RestoreBegins
<1>3. RestoreOK'
  <2>1. manifest[f].parts \in Contents
    BY DEF Types, StorageOK, Manifest
  <2>2. QED
    BY <2>1 DEF Types, RestoreOK, RestoreRecord, RestoreBegins
<1>4. QED
  BY <1>1, <1>2, <1>3 DEF Types

LEMMA CheckObjectTypes ==
  ASSUME Types, CheckObject
  PROVE  Types'
BY DEF Types, StorageOK, ProcessesOK, RestoreOK, BudgetOK, CheckObject, RestoreRecord, storage,
       budget

LEMMA AllCheckedTypes ==
  ASSUME Types, AllChecked
  PROVE  Types'
<1>1. StorageOK' /\ ProcessesOK' /\ BudgetOK'
  BY DEF Types, StorageOK, ProcessesOK, BudgetOK, AllChecked, storage, budget
<1>2. RestoreOK'
  <2>1. restore \in RestoreRecord /\ target \in Contents
    BY DEF Types, RestoreOK
  <2>2. [restore EXCEPT !.step = "inserting", !.next = 1] \in RestoreRecord
    <3> DEFINE one == 1
    <3>1. one \in Nat \ {0}
      OBVIOUS
    <3> HIDE DEF one
    <3>2. [restore EXCEPT !.step = "inserting", !.next = one] \in RestoreRecord
      BY <2>1, <3>1 DEF RestoreRecord
    <3>3. QED
      BY <3>2 DEF one
  <2>3. QED
    BY <2>1, <2>2 DEF RestoreOK, AllChecked
<1>3. QED
  BY <1>1, <1>2 DEF Types

LEMMA InsertTableTypes ==
  ASSUME Types, InsertTable
  PROVE  Types'
<1>1. StorageOK' /\ ProcessesOK' /\ BudgetOK'
  BY DEF Types, StorageOK, ProcessesOK, BudgetOK, InsertTable, storage, budget
<1>2. target' \in Contents
  <2>1. part[restore.folder] \in Contents
    BY DEF Types, StorageOK, RestoreOK, RestoreRecord
  <2>2. QED
    BY <2>1 DEF Types, RestoreOK, InsertTable, Contents
<1>3. restore' \in RestoreRecord
  BY DEF Types, RestoreOK, RestoreRecord, InsertTable
<1>4. QED
  BY <1>1, <1>2, <1>3 DEF Types, RestoreOK

LEMMA RestoreSucceedsTypes ==
  ASSUME Types, RestoreSucceeds
  PROVE  Types'
BY DEF Types, StorageOK, ProcessesOK, RestoreOK, BudgetOK, RestoreSucceeds, RestoreRecord, storage,
       budget

LEMMA RestoreFailsTypes ==
  ASSUME Types, RestoreFails
  PROVE  Types'
<1>1. StorageOK' /\ ProcessesOK'
  BY DEF Types, StorageOK, ProcessesOK, RestoreFails, storage
<1>2. RestoreOK'
  BY DEF Types, RestoreOK, RestoreRecord, RestoreFails
<1>3. BudgetOK'
  <2>1. limit.faults \in Nat
    BY Limited DEF Types, BudgetOK
  <2>2. QED
    BY <2>1 DEF Types, BudgetOK, RestoreFails
<1>4. QED
  BY <1>1, <1>2, <1>3 DEF Types

LEMMA WriteTypes ==
  ASSUME Types, Write
  PROVE  Types'
<1>1. StorageOK' /\ ProcessesOK' /\ RestoreOK'
  BY DEF Types, StorageOK, ProcessesOK, RestoreOK, Write, storage, restoring
<1>2. BudgetOK'
  <2>1. limit.writes \in Nat
    BY Limited DEF Types, BudgetOK
  <2>2. QED
    BY <2>1 DEF Types, BudgetOK, Write, budget
<1>3. QED
  BY <1>1, <1>2 DEF Types

LEMMA TickTypes ==
  ASSUME Types, Tick
  PROVE  Types'
<1>1. StorageOK' /\ ProcessesOK' /\ RestoreOK'
  BY DEF Types, StorageOK, ProcessesOK, RestoreOK, Tick, storage, restoring
<1>2. BudgetOK'
  <2>1. limit.minutes \in Nat
    BY Limited DEF Types, BudgetOK
  <2>2. QED
    BY <2>1 DEF Types, BudgetOK, Tick, budget
<1>3. QED
  BY <1>1, <1>2 DEF Types

LEMMA InitTypes == Init => Types
<1> SUFFICES ASSUME Init PROVE Types
  OBVIOUS
<1>1. StorageOK /\ ProcessesOK /\ RestoreOK
  BY Values DEF Init, StorageOK, ProcessesOK, RestoreOK
<1>2. BudgetOK
  BY Limited DEF Init, BudgetOK
<1>3. QED
  BY <1>1, <1>2 DEF Types

(* Every action keeps the types.                                           *)
LEMMA StepTypes == Types /\ [Next]_vars => Types'
<1> SUFFICES ASSUME Types, [Next]_vars PROVE Types'
  OBVIOUS
<1>1. ASSUME NEW s \in Servers, Steps(s) PROVE Types'
  BY <1>1, TimerFindsBusyTypes, TakeLockTypes, BusyTypes, UploadTableTypes, CommitTypes,
     PutManifestTypes, ListFoldersTypes, ReadManifestTypes, DecideTypes, ListObjectsTypes,
     DeleteManifestTypes, DeletePartTypes, FinishTypes, AlertRecordedTypes DEF Steps
<1>2. ASSUME NEW s \in Servers, StorageFails(s) \/ Crash(s) \/ Restart(s) PROVE Types'
  BY <1>2, StorageFailsTypes, CrashTypes, RestartTypes
<1>3. ASSUME NEW s \in Servers, NEW kind \in {"nightly", "retry", "manual"}, Begin(s, kind)
      PROVE  Types'
  BY <1>3, BeginTypes DEF Kinds
<1>4. CASE Restores
  BY <1>4, RestoreBeginsTypes, CheckObjectTypes, AllCheckedTypes, InsertTableTypes,
     RestoreSucceedsTypes, RestoreFailsTypes DEF Restores
<1>5. CASE Write \/ Tick
  BY <1>5, WriteTypes, TickTypes
<1>6. CASE UNCHANGED vars
  BY <1>6 DEF vars, Types, StorageOK, ProcessesOK, RestoreOK, BudgetOK, storage, restoring, budget
<1>7. QED
  BY <1>1, <1>2, <1>3, <1>4, <1>5, <1>6 DEF Next, Restores

LEMMA TypesAlways == Spec => []Types
BY InitTypes, StepTypes, PTL DEF Spec

-----------------------------------------------------------------------------
(* What the steps do to the folders and to the backups.                    *)

(* The steps of deleteFolder.                                              *)
Deletes(s) == ListObjects(s) \/ DeleteManifest(s) \/ DeletePart(s)

(* The steps within a backup: what it keeps, and that it is the only one.  *)
Works(s) ==
  \/ TakeLock(s) \/ UploadTable(s) \/ Commit(s) \/ PutManifest(s)
  \/ ListFolders(s) \/ ReadManifest(s) \/ Decide(s) \/ Deletes(s)

LEMMA AtWork ==
  ASSUME Types, NEW s \in Servers, Works(s)
  PROVE  /\ UNCHANGED <<version, minute, timer, up, restoring, shared, budget>>
         /\ backup[s].step # "idle" /\ backup'[s].step # "idle"
         /\ backup'[s].kind = backup[s].kind /\ backup'[s].folder = backup[s].folder
         /\ backup'[s].made = backup[s].made
         /\ backup'[s].step \in Writing => backup[s].step \in Writing
         /\ \A r \in Servers \ {s} : backup'[r] = backup[r]
<1>1. backup \in [Servers -> BackupRecord] /\ backup[s] \in BackupRecord
  BY DEF Types, ProcessesOK
<1>3. CASE TakeLock(s)
  BY <1>1, <1>3 DEF TakeLock, At, BackupRecord, Writing
<1>4. CASE UploadTable(s)
  BY <1>1, <1>4 DEF UploadTable, At, BackupRecord, Writing
<1>5. CASE Commit(s)
  BY <1>1, <1>5 DEF Commit, At, BackupRecord, Writing
<1>6. CASE PutManifest(s)
  BY <1>1, <1>6 DEF PutManifest, At, BackupRecord, Writing
<1>7. CASE ListFolders(s)
  BY <1>1, <1>7 DEF ListFolders, At, BackupRecord, Writing
<1>8. CASE ReadManifest(s)
  BY <1>1, <1>8 DEF ReadManifest, At, BackupRecord, Writing
<1>9. CASE Decide(s)
  BY <1>1, <1>9 DEF Decide, At, BackupRecord, Writing
<1>10. CASE ListObjects(s)
  BY <1>1, <1>10 DEF ListObjects, Emptied, At, BackupRecord, Writing
<1>11. CASE DeleteManifest(s)
  BY <1>1, <1>11 DEF DeleteManifest, Deleted, Emptied, At, BackupRecord, Writing
<1>12. CASE DeletePart(s)
  BY <1>1, <1>12 DEF DeletePart, Deleted, Emptied, At, BackupRecord, Writing
<1>13. QED
  BY <1>3, <1>4, <1>5, <1>6, <1>7, <1>8, <1>9, <1>10, <1>11, <1>12 DEF Works, Deletes

(* A deletion leaves the other doomed folders doomed and forgets nothing.  *)
LEMMA AtDeletion ==
  ASSUME Types, NEW s \in Servers, Deletes(s)
  PROVE  /\ backup'[s].seen = backup[s].seen /\ backup'[s].unread = backup[s].unread
         /\ backup'[s].doomed \subseteq backup[s].doomed
         /\ backup[s].step \in {"deleting", "emptying"}
         /\ backup'[s].step = "deleting" \/ /\ backup'[s].step = "emptying"
                                            /\ backup'[s].doomed = backup[s].doomed
<1>1. backup \in [Servers -> BackupRecord] /\ backup[s] \in BackupRecord
  BY DEF Types, ProcessesOK
<1>2. ASSUME NEW r, backup' = Emptied(s, r)
      PROVE  /\ backup'[s].seen = backup[s].seen /\ backup'[s].unread = backup[s].unread
             /\ backup'[s].doomed \subseteq backup[s].doomed /\ backup'[s].step = "deleting"
  BY <1>1, <1>2 DEF Emptied, BackupRecord
<1>3. ASSUME NEW left, backup' = [backup EXCEPT ![s].step = "emptying", ![s].left = left]
      PROVE  /\ backup'[s].seen = backup[s].seen /\ backup'[s].unread = backup[s].unread
             /\ backup'[s].doomed = backup[s].doomed /\ backup'[s].step = "emptying"
  BY <1>1, <1>3 DEF BackupRecord
<1>4. ASSUME NEW left, backup' = [backup EXCEPT ![s].left = left], backup[s].step = "emptying"
      PROVE  /\ backup'[s].seen = backup[s].seen /\ backup'[s].unread = backup[s].unread
             /\ backup'[s].doomed = backup[s].doomed /\ backup'[s].step = "emptying"
  BY <1>1, <1>4 DEF BackupRecord
<1>5. CASE ListObjects(s)
  <2>1. PICK r \in backup[s].doomed :
          backup' = IF Objects(r.folder) = {} THEN Emptied(s, r)
                    ELSE [backup EXCEPT ![s].step = "emptying", ![s].left = Objects(r.folder)]
    BY <1>5 DEF ListObjects
  <2>2. backup[s].step = "deleting"
    BY <1>5 DEF ListObjects, At
  <2>3. QED
    BY <2>1, <2>2, <1>2, <1>3
<1>6. CASE DeleteManifest(s) \/ DeletePart(s)
  <2>1. PICK object, r : backup' = Deleted(s, r, object)
    BY <1>6 DEF DeleteManifest, DeletePart
  <2>2. backup[s].step = "emptying"
    BY <1>6 DEF DeleteManifest, DeletePart, At
  <2>3. CASE backup[s].left \subseteq {object}
    BY <2>1, <2>2, <2>3, <1>2 DEF Deleted
  <2>4. CASE ~(backup[s].left \subseteq {object})
    <3>1. backup' = [backup EXCEPT ![s].left = backup[s].left \ {object}]
      BY <1>1, <2>1, <2>4 DEF Deleted
    <3>2. QED
      BY <2>2, <3>1, <1>4
  <2>5. QED
    BY <2>3, <2>4
<1>7. QED
  BY <1>5, <1>6 DEF Deletes

(* The end of a backup, whatever the cause.                                *)
Stops(s) ==
  /\ backup' = [backup EXCEPT ![s] = Idle]
  /\ MayHavePut(s)
  /\ backup[s].step \notin Writing => UNCHANGED storage
  /\ UNCHANGED <<minute, shared, begun>>

Elsewhere == UNCHANGED <<minute, storage, backup, shared, begun>>

LEMMA StepCases ==
  ASSUME [Next]_vars
  PROVE  \/ Elsewhere \/ Tick
         \/ \E s \in Servers : Works(s) \/ Stops(s) \/ \E kind \in Kinds : Begin(s, kind)
<1>1. ASSUME NEW s \in Servers, Busy(s) \/ Finish(s) PROVE Stops(s)
  BY <1>1 DEF Busy, Finish, Ends, Stops, MayHavePut, storage, budget
<1>2. ASSUME NEW s \in Servers, Crash(s) PROVE Stops(s)
  BY <1>2 DEF Crash, Stops, MayHavePut, storage
<1>3. ASSUME NEW s \in Servers, StorageFails(s) PROVE Stops(s)
  <2>1. CASE backup[s].step \in Writing /\ MayHavePut(s) /\ Ends(s, "failed")
    BY <1>3, <2>1, FailureCases DEF Stops, Ends
  <2>2. CASE backup[s].step \in Retaining /\ Ends(s, "ok") /\ UNCHANGED storage
    BY <1>3, <2>2, FailureCases DEF Stops, Ends, MayHavePut
  <2>3. QED
    BY <1>3, <2>1, <2>2, FailureCases
<1>4. ASSUME NEW s \in Servers, TimerFindsBusy(s) \/ AlertRecorded(s) \/ Restart(s)
      PROVE  Elsewhere
  BY <1>4 DEF TimerFindsBusy, AlertRecorded, Restart, Elsewhere, storage, budget
<1>5. CASE Restores \/ Write \/ UNCHANGED vars
  BY <1>5 DEF Restores, RestoreBegins, CheckObject, AllChecked, InsertTable, RestoreSucceeds,
     RestoreFails, Write, vars, Elsewhere, storage, budget
<1>6. QED
  BY <1>1, <1>2, <1>3, <1>4, <1>5 DEF Next, Steps, Works, Deletes, Restores, Kinds

-----------------------------------------------------------------------------
(* The schedule.  A process is the only one to touch its timer and its     *)
(* backup, and it turns its timer off only to begin a backup of the timer. *)

Scheduled(s) == up[s] /\ timer[s] = "none" => backup[s].step # "idle" /\ backup[s].kind # "manual"

LEMMA EndsScheduled ==
  ASSUME Types, NEW s \in Servers, Scheduled(s), up[s], NEW outcome, Ends(s, outcome)
  PROVE  Scheduled(s)'
<1>1. backup[s].kind \in Kinds
  BY DEF Types, ProcessesOK, BackupRecord
<1>2. timer'[s] # "none"
  BY <1>1 DEF Ends, NextTimer, Scheduled, Types, ProcessesOK, Kinds
<1>3. QED
  BY <1>2 DEF Scheduled

LEMMA StepScheduled ==
  ASSUME Types, [Next]_vars, NEW s \in Servers, Scheduled(s)
  PROVE  Scheduled(s)'
<1>0. backup \in [Servers -> BackupRecord] /\ DOMAIN timer = Servers /\ DOMAIN up = Servers
  BY DEF Types, ProcessesOK
<1>1. CASE UNCHANGED <<backup, timer, up>>
  BY <1>1 DEF Scheduled
<1>2. ASSUME NEW r \in Servers, NEW kind \in Kinds, Begin(r, kind)
      PROVE  Scheduled(s)'
  <2>1. CASE r # s
    BY <1>0, <1>2, <2>1 DEF Begin, Scheduled
  <2>2. CASE r = s
    <3>1. backup'[s].step = "named" /\ backup'[s].kind = kind
      BY <1>0, <1>2, <2>2 DEF Begin, Idle
    <3>2. kind = "manual" => timer'[s] # "none"
      BY <1>0, <1>2, <2>2 DEF Begin, Scheduled
    <3>3. QED
      BY <3>1, <3>2 DEF Scheduled
  <2>3. QED
    BY <2>1, <2>2
<1>3. ASSUME NEW r \in Servers, NEW outcome, up[r], UNCHANGED up, Ends(r, outcome)
      PROVE  Scheduled(s)'
  <2>1. CASE r # s
    BY <1>0, <1>3, <2>1 DEF Ends, Scheduled
  <2>2. CASE r = s
    BY <1>3, <2>2, EndsScheduled
  <2>3. QED
    BY <2>1, <2>2
<1>4. ASSUME NEW r \in Servers, TimerFindsBusy(r) \/ AlertRecorded(r) \/ Crash(r) \/ Restart(r)
      PROVE  Scheduled(s)'
  <2>1. CASE r # s
    BY <1>0, <1>4, <2>1 DEF TimerFindsBusy, AlertRecorded, Crash, Restart, Scheduled
  <2>2. CASE r = s
    BY <1>0, <1>4, <2>2 DEF TimerFindsBusy, AlertRecorded, Crash, Restart, Scheduled
  <2>3. QED
    BY <2>1, <2>2
<1>5. ASSUME NEW r \in Servers, Works(r)
      PROVE  Scheduled(s)'
  BY <1>5, AtWork DEF Scheduled
<1>6. ASSUME NEW r \in Servers, Steps(r)
      PROVE  Scheduled(s)'
  <2>1. CASE TimerFindsBusy(r) \/ AlertRecorded(r)
    BY <2>1, <1>4
  <2>2. CASE Busy(r) \/ Finish(r)
    BY <2>2, <1>3 DEF Busy, Finish, At
  <2>3. QED
    BY <1>6, <2>1, <2>2, <1>5 DEF Steps, Works, Deletes
<1>7. ASSUME NEW r \in Servers, StorageFails(r)
      PROVE  Scheduled(s)'
  BY <1>7, <1>3, FailureCases
<1>8. CASE Restores \/ Write \/ Tick \/ UNCHANGED vars
  BY <1>8, <1>1 DEF Restores, RestoreBegins, CheckObject, AllChecked, InsertTable, RestoreSucceeds,
     RestoreFails, Write, Tick, vars
<1>9. QED
  BY <1>2, <1>4, <1>6, <1>7, <1>8 DEF Next, Restores, Kinds

(* No failed night, failed retry or busy lock ends the schedule of a       *)
(* process that is up, whatever the others and the administrators do       *)
(* (createBackupScheduler).                                                *)
THEOREM ScheduleNeverEnds == Spec => []ScheduleGoesOn
<1>1. Init => ScheduleGoesOn
  BY DEF Init, ScheduleGoesOn
<1>2. Types /\ ScheduleGoesOn /\ [Next]_vars => ScheduleGoesOn'
  BY StepScheduled DEF ScheduleGoesOn, Scheduled
<1>3. QED
  BY <1>1, <1>2, TypesAlways, PTL DEF Spec

-----------------------------------------------------------------------------
(* Restores.  While one content was asked for of an empty database, every  *)
(* row that is there came from it, and the tables behind the next one are  *)
(* complete.                                                               *)

Asked ==
  /\ restore.step # "idle" => restore.wanted \in restore.asked
  /\ \A t \in Tables : target[t] = 0 \/ \E w \in restore.asked : target[t] = w[t]

Inserted ==
  restore.asked = {restore.wanted} =>
    \A t \in Tables : \/ restore.step = "inserting" /\ t < restore.next
                      \/ restore.step = "done"
                      => target[t] = restore.wanted[t]

RestoreInv == Asked /\ Inserted

LEMMA RestoreBeginsInv ==
  ASSUME Types, RestoreInv, NEW f \in Folders, NEW into, RestoreBegins(f, into)
  PROVE  RestoreInv'
<1>1. target \in Contents /\ restore \in RestoreRecord
  BY DEF Types, RestoreOK
<1>2. UNCHANGED target /\ restore'.step = "checking" /\ restore'.wanted = manifest[f].parts
      /\ restore'.asked = IF target = Nothing THEN {manifest[f].parts}
                          ELSE restore.asked \cup {manifest[f].parts}
  BY DEF RestoreBegins
<1>3. target = Nothing => \A t \in Tables : target[t] = 0
  BY DEF Nothing
<1>4. Asked'
  BY <1>2, <1>3 DEF RestoreInv, Asked
<1>5. Inserted'
  BY <1>2 DEF Inserted
<1>6. QED
  BY <1>4, <1>5 DEF RestoreInv

LEMMA InsertTableInv ==
  ASSUME Types, RestoreInv, InsertTable
  PROVE  RestoreInv'
<1> DEFINE n == restore.next
           w == restore.wanted
<1>1. /\ target \in Contents /\ restore \in RestoreRecord /\ n \in Tables /\ n \in Nat
      /\ restore.step = "inserting" /\ part[restore.folder][n] = w[n]
  BY DEF Types, RestoreOK, RestoreRecord, InsertTable, Insertable, Sound
<1>2. target' = [target EXCEPT ![n] = IF @ = 0 THEN w[n] ELSE @]
  BY <1>1 DEF InsertTable
<1>3. /\ restore'.step = "inserting" /\ restore'.wanted = w /\ restore'.asked = restore.asked
      /\ restore'.next = n + 1
  BY <1>1 DEF InsertTable, RestoreRecord
<1>4. \A t \in Tables : target'[t] = IF t = n /\ target[t] = 0 THEN w[t] ELSE target[t]
  BY <1>1, <1>2 DEF Contents
<1>5. w \in restore.asked
  BY <1>1 DEF RestoreInv, Asked
<1> HIDE DEF n, w
<1>6. Asked'
  BY <1>3, <1>4, <1>5 DEF RestoreInv, Asked
<1>7. ASSUME restore'.asked = {restore'.wanted}, NEW t \in Tables, t < n + 1
      PROVE  target'[t] = w[t]
  <2>1. restore.asked = {w}
    BY <1>3, <1>7
  <2>2. t \in Nat
    BY Values DEF Tables
  <2>3. CASE t = n
    BY <1>4, <2>1, <2>3 DEF RestoreInv, Asked
  <2>4. CASE t # n
    <3>1. t < n
      BY <1>1, <1>7, <2>2, <2>4
    <3>2. QED
      BY <1>1, <1>4, <2>1, <2>4, <3>1 DEF RestoreInv, Inserted, n, w
  <2>5. QED
    BY <2>3, <2>4
<1>8. Inserted'
  BY <1>3, <1>7 DEF Inserted
<1>9. QED
  BY <1>6, <1>8 DEF RestoreInv

LEMMA RestoreSucceedsInv ==
  ASSUME Types, RestoreInv, RestoreSucceeds
  PROVE  RestoreInv'
<1>1. restore \in RestoreRecord /\ restore.next \in Nat \ {0} /\ TableCount \in Nat
  BY Values DEF Types, RestoreOK, RestoreRecord
<1>2. \A t \in Tables : t < restore.next
  BY <1>1 DEF RestoreSucceeds, Tables
<1>3. restore.step = "inserting" /\ restore' = [restore EXCEPT !.step = "done"]
      /\ UNCHANGED target
  BY DEF RestoreSucceeds
<1>4. restore'.wanted = restore.wanted /\ restore'.asked = restore.asked
  BY <1>1, <1>3 DEF RestoreRecord
<1>5. QED
  BY <1>2, <1>3, <1>4 DEF RestoreInv, Asked, Inserted

LEMMA RestoreKept ==
  ASSUME Types, RestoreInv, CheckObject \/ AllChecked \/ RestoreFails \/ UNCHANGED restoring
  PROVE  RestoreInv'
<1>1. restore \in RestoreRecord
  BY DEF Types, RestoreOK
<1>2. CASE UNCHANGED restoring
  BY <1>2 DEF restoring, RestoreInv, Asked, Inserted
<1>3. CASE CheckObject
  BY <1>1, <1>3 DEF CheckObject, RestoreRecord, RestoreInv, Asked, Inserted
<1>4. CASE AllChecked
  <2>1. /\ restore'.step = "inserting" /\ restore'.next = 1 /\ restore'.wanted = restore.wanted
        /\ restore'.asked = restore.asked /\ UNCHANGED target /\ restore.step = "checking"
    BY <1>1, <1>4 DEF AllChecked, RestoreRecord
  <2>2. \A t \in Tables : ~(t < 1)
    BY Values DEF Tables
  <2>3. QED
    BY <2>1, <2>2 DEF RestoreInv, Asked, Inserted
<1>5. CASE RestoreFails
  BY <1>1, <1>5 DEF RestoreFails, RestoreRecord, RestoreInv, Asked, Inserted
<1>6. QED
  BY <1>2, <1>3, <1>4, <1>5

(* The steps of the processes leave the restore alone.                     *)
LEMMA ProcessesLeaveRestore ==
  ASSUME NEW s \in Servers,
         \/ Steps(s) \/ StorageFails(s) \/ Crash(s) \/ Restart(s) \/ Write \/ Tick
         \/ \E kind \in Kinds : Begin(s, kind)
  PROVE  UNCHANGED restoring
BY DEF Steps, TimerFindsBusy, TakeLock, Busy, UploadTable, Commit, PutManifest, ListFolders,
       ReadManifest, Decide, ListObjects, DeleteManifest, DeletePart, Finish, AlertRecorded,
       StorageFails, Crash, Restart, Begin, Write, Tick

LEMMA StepRestore == Types /\ RestoreInv /\ [Next]_vars => RestoreInv'
<1> SUFFICES ASSUME Types, RestoreInv, [Next]_vars PROVE RestoreInv'
  OBVIOUS
<1>1. CASE Write \/ Tick \/ UNCHANGED vars
  <2>1. UNCHANGED restoring
    BY <1>1 DEF Write, Tick, vars, restoring
  <2>2. QED
    BY <2>1, RestoreKept
<1>2. CASE Restores
  BY <1>2, RestoreKept, RestoreBeginsInv, InsertTableInv, RestoreSucceedsInv DEF Restores
<1>3. QED
  BY <1>1, <1>2, ProcessesLeaveRestore, RestoreKept DEF Next, Restores, Kinds

(* A restore that reports success into a database where only this backup   *)
(* was restored left every table as the manifest says, whatever the        *)
(* retention and other backups did to its objects and however often an     *)
(* earlier try failed (restoreBackup).                                     *)
THEOREM RestoresAreWhole == Spec => []RestoredIsWhole
<1>1. Init => RestoreInv
  BY DEF Init, RestoreInv, Asked, Inserted, NoRestore, Nothing
<1>2. Types /\ RestoreInv => RestoredIsWhole
  <2> SUFFICES ASSUME Types, RestoreInv, restore.step = "done", restore.asked = {restore.wanted}
               PROVE  target = restore.wanted
    BY DEF RestoredIsWhole
  <2>1. target \in Contents /\ restore.wanted \in Contents
    BY DEF Types, RestoreOK, RestoreRecord
  <2>2. \A t \in Tables : target[t] = restore.wanted[t]
    BY DEF RestoreInv, Inserted
  <2>3. QED
    BY <2>1, <2>2 DEF Contents
<1>3. QED
  BY <1>1, <1>2, StepRestore, TypesAlways, PTL DEF Spec

-----------------------------------------------------------------------------
(* The numbers of the backups, and the lock.                               *)

LEMMA NumbersKept ==
  ASSUME Types, Numbered, [Next]_vars
  PROVE  Numbered'
<1>0. /\ backup \in [Servers -> BackupRecord] /\ manifest \in [Folders -> Manifest]
      /\ begun \in Nat
  BY DEF Types, ProcessesOK, StorageOK, BudgetOK
<1>1. CASE Elsewhere
  BY <1>1 DEF Elsewhere, Numbered, storage
<1>2. CASE Tick
  BY <1>2 DEF Tick, Numbered, storage, budget
<1>3. ASSUME NEW s \in Servers, NEW kind \in Kinds, Begin(s, kind) PROVE Numbered'
  <2>1. PICK f \in Folders : backup' = [backup EXCEPT ![s] =
          [Idle EXCEPT !.step = "named", !.kind = kind, !.folder = f, !.made = begun + 1]]
    BY <1>3 DEF Begin
  <2>2. backup'[s].made = begun + 1 /\ backup'[s].seen = {} /\ backup'[s].doomed = {}
        /\ \A r \in Servers \ {s} : backup'[r] = backup[r]
    BY <1>0, <2>1 DEF Idle
  <2>3. begun' = begun + 1 /\ UNCHANGED manifest
    BY <1>3 DEF Begin, storage
  <2>4. \A f1 \in Folders : manifest[f1].made \in Nat
    BY <1>0 DEF Manifest
  <2>5. \A r \in Servers : /\ backup[r].made \in Nat
                           /\ \A x \in backup[r].seen \cup backup[r].doomed : x.made \in Nat
    BY <1>0 DEF BackupRecord, Sighting
  <2>6. QED
    BY <1>0, <2>2, <2>3, <2>4, <2>5 DEF Numbered
<1>4. ASSUME NEW s \in Servers, Stops(s) PROVE Numbered'
  <2>1. backup'[s] = Idle /\ \A r \in Servers \ {s} : backup'[r] = backup[r]
    BY <1>0, <1>4 DEF Stops
  <2>2. \A f \in Folders : manifest'[f].made \in {manifest[f].made, backup[s].made}
    BY <1>0, <1>4 DEF Stops, MayHavePut, storage
  <2>3. QED
    BY <1>0, <1>4, <2>1, <2>2 DEF Stops, Numbered, Idle
<1>5. ASSUME NEW s \in Servers, Works(s) PROVE Numbered'
  <2>1. \A f \in Folders : manifest'[f].made \in {0, manifest[f].made, backup[s].made}
    <3>1. CASE PutManifest(s)
      BY <1>0, <3>1 DEF PutManifest
    <3>2. CASE DeleteManifest(s)
      BY <1>0, <3>2 DEF DeleteManifest, ManifestFirst, NoManifest
    <3>3. QED
      BY <1>5, <3>1, <3>2 DEF Works, Deletes, TakeLock, UploadTable, Commit, ListFolders,
         ReadManifest, Decide, ListObjects, DeletePart, storage
  <2>2. \A x \in backup'[s].seen \cup backup'[s].doomed :
          \/ x \in backup[s].seen \cup backup[s].doomed
          \/ \E f \in Folders : x.made = manifest[f].made
    <3>1. CASE ReadManifest(s)
      <4>1. PICK f \in backup[s].unread :
              backup' = [backup EXCEPT ![s].unread = @ \ {f},
                         ![s].seen = @ \cup {[folder |-> f, made |-> manifest[f].made]}]
        BY <3>1 DEF ReadManifest
      <4>2. f \in Folders
        BY <1>0 DEF BackupRecord
      <4>3. QED
        BY <1>0, <4>1, <4>2 DEF BackupRecord
    <3>2. CASE Decide(s)
      BY <1>0, <3>2 DEF Decide, Surplus, LeftBehind, BackupRecord
    <3>3. CASE Deletes(s)
      BY <3>3, AtDeletion
    <3>4. CASE TakeLock(s) \/ UploadTable(s) \/ Commit(s) \/ PutManifest(s) \/ ListFolders(s)
      BY <1>0, <3>4 DEF TakeLock, UploadTable, Commit, PutManifest, ListFolders, BackupRecord
    <3>5. QED
      BY <1>5, <3>1, <3>2, <3>3, <3>4 DEF Works
  <2>3. backup'[s].made = backup[s].made /\ (\A r \in Servers \ {s} : backup'[r] = backup[r])
        /\ UNCHANGED begun
    BY <1>5, AtWork DEF budget
  <2>4. QED
    BY <1>0, <2>1, <2>2, <2>3 DEF Numbered
<1>6. QED
  BY <1>1, <1>2, <1>3, <1>4, <1>5, StepCases

LEMMA LockKept ==
  ASSUME Types, LockHeld, [Next]_vars
  PROVE  LockHeld'
<1>0. backup \in [Servers -> BackupRecord]
  BY DEF Types, ProcessesOK
<1>1. CASE UNCHANGED <<lock, backup>>
  BY <1>1 DEF LockHeld
<1>2. ASSUME NEW s \in Servers, UNCHANGED lock, backup[s].step # "uploading",
             backup'[s].step # "uploading", \A r \in Servers \ {s} : backup'[r] = backup[r]
      PROVE  LockHeld'
  BY <1>2 DEF LockHeld
<1>3. ASSUME NEW s \in Servers, lock' = lock \ {s}, backup'[s].step # "uploading",
             \A r \in Servers \ {s} : backup'[r] = backup[r]
      PROVE  LockHeld'
  BY <1>3 DEF LockHeld
<1>4. ASSUME NEW s \in Servers, NEW kind \in Kinds, Begin(s, kind) PROVE LockHeld'
  <2>1. PICK f \in Folders : backup' = [backup EXCEPT ![s] =
          [Idle EXCEPT !.step = "named", !.kind = kind, !.folder = f, !.made = begun + 1]]
    BY <1>4 DEF Begin
  <2>2. QED
    BY <1>0, <1>2, <1>4, <2>1 DEF Begin, Idle
<1>5. ASSUME NEW s \in Servers, NEW outcome, Ends(s, outcome), lock' = lock \ {s} PROVE LockHeld'
  BY <1>0, <1>3, <1>5 DEF Ends, Idle
<1>6. ASSUME NEW s \in Servers, NEW outcome, Ends(s, outcome), UNCHANGED lock,
             backup[s].step # "uploading"
      PROVE  LockHeld'
  BY <1>0, <1>2, <1>6 DEF Ends, Idle
<1>7. ASSUME NEW s \in Servers, Works(s) PROVE LockHeld'
  <2>1. CASE TakeLock(s)
    BY <1>0, <2>1 DEF TakeLock, LockHeld, BackupRecord
  <2>2. CASE UploadTable(s)
    <3>1. backup'[s].step = backup[s].step /\ \A r \in Servers \ {s} : backup'[r] = backup[r]
      BY <1>0, <2>2 DEF UploadTable, BackupRecord
    <3>2. QED
      BY <2>2, <3>1 DEF LockHeld, UploadTable
  <2>3. CASE Commit(s)
    BY <1>0, <1>3, <2>3 DEF Commit, BackupRecord
  <2>4. CASE PutManifest(s) \/ ListFolders(s) \/ Decide(s)
    BY <1>0, <1>2, <2>4 DEF PutManifest, ListFolders, Decide, At, BackupRecord
  <2>5. CASE ReadManifest(s)
    BY <1>0, <1>2, <2>5 DEF ReadManifest, At, BackupRecord
  <2>6. CASE Deletes(s)
    <3>1. backup[s].step # "uploading" /\ backup'[s].step # "uploading"
      BY <2>6, AtDeletion
    <3>2. UNCHANGED lock /\ \A r \in Servers \ {s} : backup'[r] = backup[r]
      BY <1>7, <2>6, AtWork DEF Deletes, ListObjects, DeleteManifest, DeletePart
    <3>3. QED
      BY <1>2, <3>1, <3>2
  <2>7. QED
    BY <1>7, <2>1, <2>2, <2>3, <2>4, <2>5, <2>6 DEF Works
<1>8. ASSUME NEW s \in Servers, Busy(s) \/ Finish(s) PROVE LockHeld'
  BY <1>8, <1>6 DEF Busy, Finish, At
<1>9. ASSUME NEW s \in Servers, StorageFails(s) PROVE LockHeld'
  BY <1>9, <1>5, <1>6, FailureCases DEF Retaining
<1>10. ASSUME NEW s \in Servers, Crash(s) PROVE LockHeld'
  BY <1>0, <1>3, <1>10 DEF Crash, Idle
<1>11. ASSUME NEW s \in Servers, TimerFindsBusy(s) \/ AlertRecorded(s) \/ Restart(s)
       PROVE  LockHeld'
  BY <1>1, <1>11 DEF TimerFindsBusy, AlertRecorded, Restart
<1>12. CASE Restores \/ Write \/ Tick \/ UNCHANGED vars
  BY <1>12, <1>1 DEF Restores, RestoreBegins, CheckObject, AllChecked, InsertTable, RestoreSucceeds,
     RestoreFails, Write, Tick, vars
<1>13. QED
  BY <1>4, <1>7, <1>8, <1>9, <1>10, <1>11, <1>12
  DEF Next, Steps, Works, Deletes, Restores, Kinds

(* The folders are typed whatever the processes do.                        *)
THEOREM TypesHold == Spec => []TypeOK
<1>1. Init => LockHeld /\ Numbered
  <2> SUFFICES ASSUME Init PROVE LockHeld /\ Numbered
    OBVIOUS
  <2>1. LockHeld
    BY DEF Init, LockHeld, Idle
  <2>2. Numbered
    BY DEF Init, Numbered, Idle, NoManifest
  <2>3. QED
    BY <2>1, <2>2
<1>2. QED
  BY <1>1, TypesAlways, NumbersKept, LockKept, TypeParts, PTL DEF Spec

-----------------------------------------------------------------------------
(* What makes a complete folder whole.                                     *)

Writes(s) == backup[s].step \in Writing

(* A folder is written in less than a day from the minute in its name.     *)
Dated ==
  \A s \in Servers : /\ backup[s].folder[1] <= minute
                     /\ Writes(s) => minute - backup[s].folder[1] < Day

(* Two processes write the same folder only if it was counted as shared.   *)
Alone ==
  \A r, s \in Servers :
    r # s /\ Writes(r) /\ Writes(s) /\ backup[r].folder = backup[s].folder =>
      backup[s].folder \in shared

(* What was sent is the snapshot, table by table.                          *)
SentSound ==
  \A s \in Servers :
    /\ backup[s].step = "named" => backup[s].sent = Nothing
    /\ backup[s].step \in {"uploading", "committed"} =>
         backup[s].snapshot # 0 /\ \A t \in Tables : backup[s].sent[t] \in {0, backup[s].snapshot}
    /\ backup[s].step = "committed" => \A t \in Tables : backup[s].sent[t] = backup[s].snapshot

(* A folder that one process writes holds what it sent, and no manifest.   *)
Parts ==
  \A s \in Servers :
    Writes(s) /\ backup[s].folder \notin shared =>
      part[backup[s].folder] = backup[s].sent /\ ~Complete(backup[s].folder)

Unwritten(f) == \A r \in Servers : Writes(r) => backup[r].folder # f
Old(s, x) == backup[s].folder[1] - x.folder[1] >= Day

(* What a retention saw complete is the same backup until it is deleted,   *)
(* and what it saw incomplete and old is never completed: nobody writes it *)
(* any more.                                                               *)
SightSound(s, x) ==
  /\ x.made > 0 => manifest[x.folder].made \in {0, x.made}
  /\ x.made > 0 \/ Old(s, x) => Unwritten(x.folder)
  /\ x.made = 0 /\ Old(s, x) => ~Complete(x.folder)

Sights ==
  \A s \in Servers : \A x \in backup[s].seen \cup backup[s].doomed :
    x.folder \notin shared => SightSound(s, x)

(* Only surplus and old folders are doomed, and parts go once the manifest *)
(* is gone or was not listed.                                              *)
DoomedSound ==
  \A s \in Servers : \A x \in backup[s].doomed :
    /\ x.made > 0 \/ Old(s, x)
    /\ backup[s].step = "emptying" /\ 0 \notin backup[s].left /\ IsNextDoomed(s, x)
         /\ x.folder \notin shared => ~Complete(x.folder)

FolderInv == Dated /\ Alone /\ SentSound /\ Parts /\ Sights /\ DoomedSound /\ CompleteIsWhole

LEMMA Dates ==
  /\ \A f \in Folders : f[1] \in Nat /\ f[2] \in Nat
  /\ Day \in Nat \ {0} /\ NoFolder[1] = 0
BY Values DEF Folders, NoFolder

(* The first steps of the proofs below.                                    *)
LEMMA Shapes ==
  ASSUME Types
  PROVE  /\ backup \in [Servers -> BackupRecord] /\ manifest \in [Folders -> Manifest]
         /\ part \in [Folders -> Contents] /\ minute \in Nat /\ begun \in Nat
         /\ shared \subseteq Folders
         /\ \A s \in Servers : /\ backup[s] \in BackupRecord /\ backup[s].folder \in Folders
                               /\ backup[s].doomed \subseteq Sighting
                               /\ backup[s].seen \subseteq Sighting
BY DEF Types, StorageOK, ProcessesOK, BudgetOK, BackupRecord

LEMMA BeginEffect ==
  ASSUME Types, NEW s \in Servers, NEW kind, Begin(s, kind)
  PROVE  \E f \in Folders :
           /\ Free(f) /\ ~Deleting(f)
           /\ backup'[s].step = "named" /\ backup'[s].folder = f /\ backup'[s].sent = Nothing
           /\ backup'[s].seen = {} /\ backup'[s].doomed = {} /\ backup'[s].unread = {}
           /\ \A r \in Servers \ {s} : backup'[r] = backup[r]
           /\ shared \subseteq shared'
           /\ (\E r \in Servers : Writes(r) /\ backup[r].folder = f) => f \in shared'
           /\ backup[s].step = "idle"
           /\ UNCHANGED <<minute, part, manifest>>
<1>1. PICK f \in Folders :
        /\ Free(f) /\ ~Deleting(f)
        /\ backup' = [backup EXCEPT ![s] =
             [Idle EXCEPT !.step = "named", !.kind = kind, !.folder = f, !.made = begun + 1]]
        /\ shared' = IF \E r \in Servers : backup[r].step \in Writing /\ backup[r].folder = f
                     THEN shared \cup {f} ELSE shared
  BY DEF Begin
<1>2. /\ backup'[s].step = "named" /\ backup'[s].folder = f /\ backup'[s].sent = Nothing
      /\ backup'[s].seen = {} /\ backup'[s].doomed = {} /\ backup'[s].unread = {}
      /\ \A r \in Servers \ {s} : backup'[r] = backup[r]
  BY <1>1, Shapes DEF Idle
<1>3. backup[s].step = "idle" /\ UNCHANGED <<minute, part, manifest>>
  BY DEF Begin, storage
<1>4. QED
  BY <1>1, <1>2, <1>3 DEF Writes

LEMMA StopsEffect ==
  ASSUME Types, NEW s \in Servers, Stops(s)
  PROVE  /\ backup'[s] = Idle /\ ~Writes(s)' /\ \A r \in Servers \ {s} : backup'[r] = backup[r]
         /\ \A f \in Folders : f # backup[s].folder \/ ~Writes(s) =>
              manifest'[f] = manifest[f] /\ part'[f] = part[f]
         /\ \/ UNCHANGED storage
            \/ /\ backup[s].step = "uploading" /\ UNCHANGED manifest
            \/ /\ backup[s].step = "committed" /\ UNCHANGED part
               /\ manifest'[backup[s].folder] = [made |-> backup[s].made, parts |-> backup[s].sent]
         /\ UNCHANGED <<minute, shared>>
<1>1. backup'[s] = Idle /\ ~Writes(s)' /\ \A r \in Servers \ {s} : backup'[r] = backup[r]
  BY Shapes DEF Stops, Writes, Idle, Writing
<1>2. ASSUME NEW f \in Folders, f # backup[s].folder \/ ~Writes(s)
      PROVE  manifest'[f] = manifest[f] /\ part'[f] = part[f]
  BY <1>2, Shapes DEF Stops, MayHavePut, storage, Writes
<1>3. \/ UNCHANGED storage
      \/ /\ backup[s].step = "uploading" /\ UNCHANGED manifest
      \/ /\ backup[s].step = "committed" /\ UNCHANGED part
         /\ manifest'[backup[s].folder] = [made |-> backup[s].made, parts |-> backup[s].sent]
  BY Shapes DEF Stops, MayHavePut
<1>4. QED
  BY <1>1, <1>2, <1>3 DEF Stops

-----------------------------------------------------------------------------
(* Dates and writers.                                                      *)

LEMMA DatesKept ==
  ASSUME Types, Dated, [Next]_vars
  PROVE  Dated'
<1>1. CASE Elsewhere
  BY <1>1 DEF Elsewhere, Dated, Writes
<1>2. CASE Tick
  <2>1. UNCHANGED backup /\ minute' = minute + 1
        /\ \A s \in Servers : backup[s].step \in Writing => minute' - backup[s].folder[1] < Day
    BY <1>2 DEF Tick
  <2>2. QED
    BY <2>1, Shapes, Dates DEF Dated, Writes
<1>3. ASSUME NEW s \in Servers, NEW kind \in Kinds, Begin(s, kind) PROVE Dated'
  <2>1. PICK f \in Folders : /\ Free(f) /\ backup'[s].folder = f
                             /\ \A r \in Servers \ {s} : backup'[r] = backup[r]
                             /\ UNCHANGED minute
    BY <1>3, BeginEffect
  <2>2. f[1] = minute
    BY <2>1 DEF Free
  <2>3. QED
    BY <2>1, <2>2, Shapes, Dates DEF Dated, Writes
<1>4. ASSUME NEW s \in Servers, Stops(s) PROVE Dated'
  <2>1. backup'[s] = Idle /\ (\A r \in Servers \ {s} : backup'[r] = backup[r])
        /\ UNCHANGED minute
    BY <1>4, StopsEffect
  <2>2. backup'[s].folder = NoFolder /\ ~Writes(s)'
    BY <2>1 DEF Idle, Writes, Writing
  <2>3. QED
    BY <2>1, <2>2, Shapes, Dates DEF Dated, Writes
<1>5. ASSUME NEW s \in Servers, Works(s) PROVE Dated'
  BY <1>5, AtWork DEF Dated, Writes
<1>6. QED
  BY <1>1, <1>2, <1>3, <1>4, <1>5, StepCases

LEMMA AloneKept ==
  ASSUME Types, Alone, [Next]_vars
  PROVE  Alone'
<1>1. CASE Elsewhere \/ Tick
  BY <1>1 DEF Elsewhere, Tick, Alone, Writes
<1>2. ASSUME NEW s \in Servers, NEW kind \in Kinds, Begin(s, kind) PROVE Alone'
  <2>1. PICK f \in Folders :
          /\ backup'[s].folder = f /\ \A r \in Servers \ {s} : backup'[r] = backup[r]
          /\ shared \subseteq shared'
          /\ (\E r \in Servers : Writes(r) /\ backup[r].folder = f) => f \in shared'
          /\ backup[s].step = "idle"
    BY <1>2, BeginEffect
  <2>2. QED
    BY <2>1 DEF Alone, Writes
<1>3. ASSUME NEW s \in Servers, Stops(s) PROVE Alone'
  BY <1>3, StopsEffect DEF Alone, Writes
<1>4. ASSUME NEW s \in Servers, Works(s) PROVE Alone'
  BY <1>4, AtWork DEF Alone, Writes
<1>5. QED
  BY <1>1, <1>2, <1>3, <1>4, StepCases

(* No table is left when the transaction commits.                          *)
LEMMA AllSent ==
  ASSUME Types, NEW s \in Servers, NextTable(s) \notin Tables
  PROVE  \A t \in Tables : backup[s].sent[t] # 0
<1> DEFINE S == {t \in Tables : backup[s].sent[t] # 0}
<1>1. IsFiniteSet(Tables) /\ Cardinality(Tables) = TableCount
  <2>1. /\ IsFiniteSet(1..TableCount)
        /\ Cardinality(1..TableCount) = IF 1 > TableCount THEN 0 ELSE TableCount - 1 + 1
    BY Values, FS_Interval
  <2>2. QED
    BY <2>1, Values DEF Tables
<1>2. S \subseteq Tables
  OBVIOUS
<1>3. /\ IsFiniteSet(S) /\ Cardinality(S) <= Cardinality(Tables)
      /\ Cardinality(S) = Cardinality(Tables) => S = Tables
  BY <1>1, <1>2, FS_Subset
<1>4. Cardinality(S) \in Nat
  BY <1>3, FS_CardinalityType
<1>5. NextTable(s) = Cardinality(S) + 1
  BY DEF NextTable
<1> HIDE DEF S
<1>6. Cardinality(S) = TableCount
  BY <1>1, <1>3, <1>4, <1>5, Values DEF Tables
<1>7. S = Tables
  BY <1>1, <1>3, <1>6
<1>8. QED
  BY <1>7 DEF S

LEMMA SentKept ==
  ASSUME Types, SentSound, [Next]_vars
  PROVE  SentSound'
<1>1. CASE Elsewhere \/ Tick
  BY <1>1 DEF Elsewhere, Tick, SentSound
<1>2. ASSUME NEW s \in Servers, NEW kind \in Kinds, Begin(s, kind) PROVE SentSound'
  BY <1>2, BeginEffect DEF SentSound
<1>3. ASSUME NEW s \in Servers, Stops(s) PROVE SentSound'
  <2>1. backup'[s] = Idle /\ \A r \in Servers \ {s} : backup'[r] = backup[r]
    BY <1>3, StopsEffect
  <2>2. backup'[s].step = "idle"
    BY <2>1 DEF Idle
  <2>3. QED
    BY <2>1, <2>2 DEF SentSound
<1>4. ASSUME NEW s \in Servers, Works(s) PROVE SentSound'
  <2>0. backup \in [Servers -> BackupRecord] /\ backup[s] \in BackupRecord
        /\ \A r \in Servers \ {s} : backup'[r] = backup[r]
    BY <1>4, AtWork, Shapes
  <2>1. CASE TakeLock(s)
    <3>1. backup[s].sent = Nothing
      BY <2>1 DEF TakeLock, At, SentSound
    <3>2. /\ backup'[s].step = "uploading" /\ backup'[s].snapshot = version
          /\ backup'[s].sent = Nothing
      BY <2>0, <2>1, <3>1 DEF TakeLock, BackupRecord
    <3>3. version # 0
      BY DEF Types, BudgetOK
    <3>4. QED
      BY <2>0, <3>2, <3>3 DEF SentSound, Nothing
  <2>2. CASE UploadTable(s)
    <3> DEFINE n == NextTable(s)
    <3>1. backup[s].step = "uploading" /\ n \in Tables
          /\ backup' = [backup EXCEPT ![s].sent[n] = backup[s].snapshot]
      BY <2>2 DEF UploadTable, At, Reads
    <3> HIDE DEF n
    <3>2. backup[s].sent \in Contents
      BY <2>0 DEF BackupRecord
    <3>3. /\ backup'[s].step = "uploading" /\ backup'[s].snapshot = backup[s].snapshot
          /\ backup'[s].sent = [backup[s].sent EXCEPT ![n] = backup[s].snapshot]
      BY <2>0, <3>1 DEF BackupRecord
    <3>4. \A t \in Tables : backup'[s].sent[t] \in {backup[s].sent[t], backup[s].snapshot}
      BY <3>1, <3>2, <3>3 DEF Contents
    <3>5. QED
      BY <2>0, <3>1, <3>3, <3>4 DEF SentSound
  <2>3. CASE Commit(s)
    <3>1. \A t \in Tables : backup[s].sent[t] = backup[s].snapshot
      BY <2>3, AllSent DEF Commit, At, SentSound
    <3>2. /\ backup'[s].step = "committed" /\ backup'[s].snapshot = backup[s].snapshot
          /\ backup'[s].sent = backup[s].sent /\ backup[s].step = "uploading"
      BY <2>0, <2>3 DEF Commit, At, BackupRecord
    <3>3. QED
      BY <2>0, <3>1, <3>2 DEF SentSound
  <2>4. CASE PutManifest(s) \/ ListFolders(s) \/ ReadManifest(s) \/ Decide(s)
             \/ Deletes(s)
    <3>1. backup'[s].step \notin {"named", "uploading", "committed"}
      <4>1. CASE PutManifest(s) \/ ListFolders(s) \/ Decide(s)
        BY <2>0, <4>1 DEF PutManifest, ListFolders, Decide, BackupRecord
      <4>2. CASE ReadManifest(s)
        BY <2>0, <4>2 DEF ReadManifest, At, BackupRecord
      <4>3. CASE Deletes(s)
        BY <4>3, AtDeletion
      <4>4. QED
        BY <2>4, <4>1, <4>2, <4>3
    <3>2. QED
      BY <2>0, <3>1 DEF SentSound
  <2>5. QED
    BY <1>4, <2>1, <2>2, <2>3, <2>4 DEF Works
<1>5. QED
  BY <1>1, <1>2, <1>3, <1>4, StepCases

-----------------------------------------------------------------------------
(* Written folders.                                                        *)

(* What the steps of a backup do to the folders.                           *)
LEMMA UploadEffect ==
  ASSUME Types, NEW s \in Servers, UploadTable(s)
  PROVE  /\ part' = [part EXCEPT ![backup[s].folder] =
                       [part[backup[s].folder] EXCEPT ![NextTable(s)] = backup[s].snapshot]]
         /\ backup'[s].sent = [backup[s].sent EXCEPT ![NextTable(s)] = backup[s].snapshot]
         /\ Writes(s) /\ UNCHANGED manifest
<1>1. backup[s].step = "uploading" /\ UNCHANGED manifest
      /\ backup' = [backup EXCEPT ![s].sent[NextTable(s)] = backup[s].snapshot]
      /\ part' = [part EXCEPT ![backup[s].folder][NextTable(s)] = backup[s].snapshot]
  BY DEF UploadTable, At, Reads
<1>2. backup'[s].sent = [backup[s].sent EXCEPT ![NextTable(s)] = backup[s].snapshot]
  BY <1>1, Shapes DEF BackupRecord
<1>3. QED
  BY <1>1, <1>2, Shapes DEF Writes, Writing

LEMMA PutEffect ==
  ASSUME Types, NEW s \in Servers, PutManifest(s)
  PROVE  /\ \A f \in Folders \ {backup[s].folder} : manifest'[f] = manifest[f]
         /\ manifest'[backup[s].folder] = [made |-> backup[s].made, parts |-> backup[s].sent]
         /\ Writes(s) /\ backup[s].step = "committed" /\ backup'[s].step = "listing"
         /\ UNCHANGED part
         /\ backup'[s].seen = backup[s].seen /\ backup'[s].doomed = backup[s].doomed
         /\ backup'[s].unread = backup[s].unread
BY Shapes DEF PutManifest, At, Writes, Writing, BackupRecord

LEMMA ListObjectsEffect ==
  ASSUME Types, NEW s \in Servers, ListObjects(s)
  PROVE  /\ UNCHANGED storage
         /\ \E x \in backup[s].doomed :
              /\ IsNextDoomed(s, x)
              /\ backup'[s].step = "emptying" =>
                   backup'[s].left = Objects(x.folder) /\ backup'[s].doomed = backup[s].doomed
<1>1. PICK x \in backup[s].doomed :
        /\ IsNextDoomed(s, x)
        /\ backup' = IF Objects(x.folder) = {} THEN Emptied(s, x)
                     ELSE [backup EXCEPT ![s].step = "emptying", ![s].left = Objects(x.folder)]
  BY DEF ListObjects
<1>2. backup[s] \in BackupRecord /\ backup \in [Servers -> BackupRecord]
  BY Shapes
<1>3. CASE Objects(x.folder) = {}
  BY <1>1, <1>2, <1>3 DEF Emptied, ListObjects, BackupRecord
<1>4. CASE Objects(x.folder) # {}
  BY <1>1, <1>2, <1>4 DEF ListObjects, BackupRecord
<1>5. QED
  BY <1>3, <1>4

LEMMA DeleteManifestEffect ==
  ASSUME Types, NEW s \in Servers, DeleteManifest(s)
  PROVE  \E x \in backup[s].doomed :
           /\ IsNextDoomed(s, x) /\ x \in Sighting
           /\ manifest'[x.folder] = NoManifest
           /\ \A f \in Folders \ {x.folder} : manifest'[f] = manifest[f]
           /\ UNCHANGED part
           /\ backup'[s].step = "emptying" => backup'[s].doomed = backup[s].doomed
BY Shapes, AtDeletion DEF Deletes, DeleteManifest, ManifestFirst, Sighting

LEMMA DeletePartEffect ==
  ASSUME Types, NEW s \in Servers, DeletePart(s)
  PROVE  /\ backup[s].step = "emptying" /\ 0 \notin backup[s].left /\ UNCHANGED manifest
         /\ \E x \in backup[s].doomed :
              /\ IsNextDoomed(s, x) /\ x \in Sighting
              /\ \A f \in Folders \ {x.folder} : part'[f] = part[f]
<1>1. PICK t \in backup[s].left, x \in backup[s].doomed :
        IsNextDoomed(s, x) /\ part' = [part EXCEPT ![x.folder][t] = 0]
  BY DEF DeletePart
<1>2. \A f \in Folders \ {x.folder} : part'[f] = part[f]
  BY <1>1, Shapes
<1>3. QED
  BY <1>1, <1>2, Shapes DEF DeletePart, At

(* The other steps change no folder, and the sights of no process but the  *)
(* one that reads or decides.                                              *)
Quiet(s) == TakeLock(s) \/ Commit(s) \/ ListFolders(s) \/ ReadManifest(s) \/ Decide(s)

LEMMA QuietEffect ==
  ASSUME Types, NEW s \in Servers, Quiet(s)
  PROVE  /\ UNCHANGED storage
         /\ backup'[s].step # "emptying"
         /\ backup'[s].step \in Writing => backup'[s].sent = backup[s].sent
<1>0. backup \in [Servers -> BackupRecord] /\ backup[s] \in BackupRecord
  BY Shapes
<1>1. CASE TakeLock(s)
  BY <1>0, <1>1 DEF TakeLock, BackupRecord
<1>2. CASE Commit(s)
  BY <1>0, <1>2 DEF Commit, BackupRecord
<1>3. CASE ListFolders(s)
  BY <1>0, <1>3 DEF ListFolders, BackupRecord, Writing
<1>4. CASE ReadManifest(s)
  BY <1>0, <1>4 DEF ReadManifest, At, BackupRecord, Writing
<1>5. CASE Decide(s)
  BY <1>0, <1>5 DEF Decide, BackupRecord, Writing
<1>6. QED
  BY <1>1, <1>2, <1>3, <1>4, <1>5 DEF Quiet

(* A folder being written is not the next to be deleted.                   *)
LEMMA WrittenNotDoomed ==
  ASSUME Types, Sights, DoomedSound, NEW s \in Servers, NEW x \in backup[s].doomed,
         NEW r \in Servers, Writes(r), backup[r].folder \notin shared
  PROVE  x.folder # backup[r].folder
<1>1. ASSUME x.folder = backup[r].folder PROVE FALSE
  <2>1. x.made > 0 \/ Old(s, x)
    BY DEF DoomedSound
  <2>2. Unwritten(x.folder)
    BY <1>1, <2>1 DEF Sights, SightSound
  <2>3. QED
    BY <1>1, <2>2 DEF Unwritten
<1>2. QED
  BY <1>1

LEMMA PartsKept ==
  ASSUME Types, Alone, Parts, Sights, DoomedSound, [Next]_vars
  PROVE  Parts'
<1>0. SUFFICES ASSUME NEW r \in Servers, Writes(r)', backup'[r].folder \notin shared'
               PROVE  /\ part'[backup'[r].folder] = backup'[r].sent
                      /\ manifest'[backup'[r].folder].made = 0
  <2>1. \A r \in Servers : backup'[r].folder \in Folders
    <3>1. Types'
      BY StepTypes
    <3>2. QED
      BY <3>1 DEF Types, ProcessesOK, BackupRecord
  <2>2. \A f \in Folders : manifest'[f].made \in Nat
    <3>1. Types'
      BY StepTypes
    <3>2. QED
      BY <3>1 DEF Types, StorageOK, Manifest
  <2>3. QED
    BY <2>1, <2>2 DEF Parts, Complete
<1>1. \A f \in Folders : manifest[f].made \in Nat /\ (~Complete(f) => manifest[f].made = 0)
  BY Shapes DEF Manifest, Complete
<1>2. CASE Elsewhere \/ Tick
  <2>1. UNCHANGED <<backup, part, manifest, shared>>
    BY <1>2 DEF Elsewhere, Tick, storage
  <2>2. QED
    BY <1>0, <1>1, <2>1, Shapes DEF Parts, Writes
<1>3. ASSUME NEW s \in Servers, NEW kind \in Kinds, Begin(s, kind)
      PROVE  part'[backup'[r].folder] = backup'[r].sent /\ manifest'[backup'[r].folder].made = 0
  <2>1. PICK f \in Folders :
           /\ Free(f)
           /\ backup'[s].folder = f /\ backup'[s].sent = Nothing
           /\ \A q \in Servers \ {s} : backup'[q] = backup[q]
           /\ shared \subseteq shared' /\ UNCHANGED <<part, manifest>>
    BY <1>3, BeginEffect
  <2>2. CASE r = s
    <3>1. ~Complete(f) /\ \A t \in Tables : part[f][t] = 0
      BY <2>1 DEF Free, Listed, Holding
    <3>2. part[f] \in Contents /\ Nothing \in Contents
      BY Shapes, Values
    <3>3. part[f] = Nothing
      BY <3>1, <3>2 DEF Contents, Nothing
    <3>4. QED
      BY <1>1, <2>1, <2>2, <3>1, <3>3
  <2>3. CASE r # s
    BY <1>0, <1>1, <2>1, <2>3, Shapes DEF Parts, Writes
  <2>4. QED
    BY <2>2, <2>3
<1>4. ASSUME NEW s \in Servers, Stops(s)
      PROVE  part'[backup'[r].folder] = backup'[r].sent /\ manifest'[backup'[r].folder].made = 0
  <2>1. r # s /\ backup'[r] = backup[r] /\ UNCHANGED shared
    BY <1>0, <1>4, StopsEffect
  <2>2. Writes(r) /\ backup[r].folder \notin shared
    BY <1>0, <2>1 DEF Writes
  <2>3. backup[r].folder # backup[s].folder \/ ~Writes(s)
    BY <2>1, <2>2 DEF Alone
  <2>4. manifest'[backup[r].folder] = manifest[backup[r].folder]
        /\ part'[backup[r].folder] = part[backup[r].folder]
    BY <1>4, <2>3, StopsEffect, Shapes
  <2>5. QED
    BY <1>1, <2>1, <2>2, <2>4, Shapes DEF Parts
<1>5. ASSUME NEW s \in Servers, Works(s)
      PROVE  part'[backup'[r].folder] = backup'[r].sent /\ manifest'[backup'[r].folder].made = 0
  <2>0. /\ Writes(r) /\ backup'[r].folder = backup[r].folder /\ backup[r].folder \notin shared
        /\ r # s => backup'[r].sent = backup[r].sent
        /\ UNCHANGED shared
    BY <1>0, <1>5, AtWork DEF Writes
  <2>1. part[backup[r].folder] = backup[r].sent /\ manifest[backup[r].folder].made = 0
        /\ backup[r].folder \in Folders
    BY <1>1, <2>0, Shapes DEF Parts
  <2>2. CASE UploadTable(s)
    <3>1. CASE r = s
      <4> DEFINE sent == [backup[s].sent EXCEPT ![NextTable(s)] = backup[s].snapshot]
      <4>1. part' = [part EXCEPT ![backup[s].folder] = sent] /\ backup'[s].sent = sent
            /\ UNCHANGED manifest
        BY <2>1, <2>2, <3>1, UploadEffect
      <4> HIDE DEF sent
      <4>2. part'[backup[s].folder] = sent
        BY <2>1, <3>1, <4>1, Shapes
      <4>3. QED
        BY <2>0, <2>1, <3>1, <4>1, <4>2
    <3>2. CASE r # s
      <4>1. backup[r].folder # backup[s].folder
        BY <2>0, <2>2, <3>2, UploadEffect DEF Alone
      <4>2. part'[backup[r].folder] = part[backup[r].folder] /\ UNCHANGED manifest
        BY <2>1, <2>2, <4>1, UploadEffect, Shapes
      <4>3. QED
        BY <2>0, <2>1, <3>2, <4>2
    <3>3. QED
      BY <3>1, <3>2
  <2>3. CASE PutManifest(s)
    <3>1. r # s
      BY <1>0, <2>3, PutEffect DEF Writes, Writing
    <3>2. backup[r].folder # backup[s].folder
      BY <2>0, <2>3, <3>1, PutEffect DEF Alone
    <3>3. QED
      BY <2>0, <2>1, <2>3, <3>1, <3>2, PutEffect
  <2>4. CASE DeleteManifest(s)
    <3>1. r # s
      BY <1>0, <2>4, AtDeletion DEF Deletes, Writes, Writing
    <3>2. PICK x \in backup[s].doomed :
            /\ \A f \in Folders \ {x.folder} : manifest'[f] = manifest[f]
            /\ UNCHANGED part
      BY <2>4, DeleteManifestEffect
    <3>3. x.folder # backup[r].folder
      BY <2>0, WrittenNotDoomed
    <3>4. QED
      BY <2>0, <2>1, <3>1, <3>2, <3>3
  <2>5. CASE DeletePart(s)
    <3>1. r # s
      BY <1>0, <2>5, AtDeletion DEF Deletes, Writes, Writing
    <3>2. PICK x \in backup[s].doomed : \A f \in Folders \ {x.folder} : part'[f] = part[f]
      BY <2>5, DeletePartEffect
    <3>3. x.folder # backup[r].folder
      BY <2>0, WrittenNotDoomed
    <3>4. UNCHANGED manifest
      BY <2>5, DeletePartEffect
    <3>5. QED
      BY <2>0, <2>1, <3>1, <3>2, <3>3, <3>4
  <2>6. CASE ListObjects(s)
    <3>1. r # s
      BY <1>0, <2>6, AtDeletion DEF Deletes, Writes, Writing
    <3>2. UNCHANGED <<part, manifest>>
      BY <2>6, ListObjectsEffect DEF storage
    <3>3. QED
      BY <2>0, <2>1, <3>1, <3>2
  <2>7. CASE Quiet(s)
    <3>1. backup'[r].sent = backup[r].sent /\ UNCHANGED <<part, manifest>>
      <4>1. UNCHANGED <<part, manifest>>
        BY <2>7, QuietEffect DEF storage
      <4>2. r = s => backup'[r].sent = backup[r].sent
        BY <1>0, <2>7, QuietEffect DEF Writes
      <4>3. QED
        BY <2>0, <4>1, <4>2
    <3>2. QED
      BY <2>0, <2>1, <3>1
  <2>8. QED
    BY <1>5, <2>2, <2>3, <2>4, <2>5, <2>6, <2>7 DEF Works, Deletes, Quiet
<1>6. QED
  BY <1>2, <1>3, <1>4, <1>5, StepCases

-----------------------------------------------------------------------------
(* What retentions saw.                                                    *)

(* A folder is read as it is: whole and out of work, or old enough that    *)
(* nobody can be writing it.                                               *)
LEMMA ReadSight ==
  ASSUME Types, Dated, Parts, NEW s \in Servers, NEW f \in Folders, f \notin shared
  PROVE  SightSound(s, [folder |-> f, made |-> manifest[f].made])
<1> DEFINE x == [folder |-> f, made |-> manifest[f].made]
<1>1. manifest[f].made \in Nat
  BY Shapes DEF Manifest
<1>2. ASSUME manifest[f].made > 0 PROVE Unwritten(f)
  BY <1>2 DEF Unwritten, Parts, Complete
<1>3. ASSUME Old(s, x), NEW r \in Servers, Writes(r), backup[r].folder = f PROVE FALSE
  <2>1. minute - f[1] < Day /\ backup[s].folder[1] <= minute
    BY <1>3 DEF Dated
  <2>2. backup[s].folder[1] - f[1] >= Day
    BY <1>3 DEF Old
  <2>3. f[1] \in Nat /\ backup[s].folder[1] \in Nat /\ minute \in Nat /\ Day \in Nat
    BY Shapes, Dates
  <2>4. QED
    BY <2>1, <2>2, <2>3
<1>4. QED
  BY <1>1, <1>2, <1>3 DEF SightSound, Unwritten, Complete

(* A sight stays sound while no process that did not write begins to write *)
(* its folder and only folders being written get a manifest.               *)
LEMMA SightStays ==
  ASSUME Types, NEW s \in Servers, NEW x \in Sighting, SightSound(s, x),
         backup'[s].folder = backup[s].folder,
         Unwritten(x.folder) => Unwritten(x.folder)'
           /\ manifest'[x.folder].made \in {0, manifest[x.folder].made}
  PROVE  (x.made > 0 \/ Old(s, x)) => SightSound(s, x)'
<1>1. manifest[x.folder].made \in Nat
  BY Shapes DEF Manifest, Sighting
<1>2. Old(s, x)' <=> Old(s, x)
  BY DEF Old
<1>3. QED
  BY <1>1, <1>2 DEF SightSound, Complete

LEMMA SightsKept ==
  ASSUME Types, Dated, Parts, Sights, DoomedSound, [Next]_vars
  PROVE  Sights'
<1>0. SUFFICES ASSUME NEW s \in Servers, NEW x \in Sighting,
                      x \in backup'[s].seen \cup backup'[s].doomed, x.folder \notin shared'
               PROVE  SightSound(s, x)'
  <2>1. \A s \in Servers : backup'[s].seen \cup backup'[s].doomed \subseteq Sighting
    <3>1. Types'
      BY StepTypes
    <3>2. QED
      BY <3>1 DEF Types, ProcessesOK, BackupRecord
  <2>2. QED
    BY <2>1 DEF Sights
<1>1. x.folder \in Folders
  BY DEF Sighting
(* Writers only end, manifests only go: the sight was there before.        *)
<1>2. ASSUME backup'[s].folder = backup[s].folder, x.folder \notin shared,
             x \in backup[s].seen \cup backup[s].doomed,
             Unwritten(x.folder) => Unwritten(x.folder)'
               /\ manifest'[x.folder].made \in {0, manifest[x.folder].made}
      PROVE  SightSound(s, x)'
  <2>1. SightSound(s, x)
    BY <1>2 DEF Sights
  <2>2. CASE x.made > 0 \/ Old(s, x)
    BY <1>2, <2>1, <2>2, SightStays
  <2>3. CASE ~(x.made > 0 \/ Old(s, x))
    BY <1>2, <2>3 DEF SightSound, Old
  <2>4. QED
    BY <2>2, <2>3
<1>3. CASE Elsewhere \/ Tick
  <2>1. UNCHANGED <<backup, manifest, shared>>
    BY <1>3 DEF Elsewhere, Tick, storage
  <2>2. Unwritten(x.folder) => Unwritten(x.folder)'
    BY <2>1 DEF Unwritten, Writes
  <2>3. QED
    BY <1>0, <1>2, <2>1, <2>2
<1>4. ASSUME NEW w \in Servers, NEW kind \in Kinds, Begin(w, kind)
      PROVE  SightSound(s, x)'
  <2>1. PICK f \in Folders :
           /\ ~Deleting(f) /\ backup'[w].folder = f
           /\ backup'[w].seen = {} /\ backup'[w].doomed = {}
           /\ \A r \in Servers \ {w} : backup'[r] = backup[r]
           /\ shared \subseteq shared' /\ UNCHANGED manifest
    BY <1>4, BeginEffect
  <2>2. s # w /\ backup'[s] = backup[s] /\ x \in backup[s].seen \cup backup[s].doomed
    BY <1>0, <2>1
  <2>3. x.folder # f
    BY <2>1, <2>2 DEF Deleting
  <2>4. Unwritten(x.folder) => Unwritten(x.folder)'
    BY <2>1, <2>3 DEF Unwritten, Writes
  <2>5. x.folder \notin shared
    BY <1>0, <2>1
  <2>6. QED
    BY <1>2, <2>1, <2>2, <2>4, <2>5
<1>5. ASSUME NEW w \in Servers, Stops(w)
      PROVE  SightSound(s, x)'
  <2>1. backup'[w] = Idle /\ (\A r \in Servers \ {w} : backup'[r] = backup[r]) /\ UNCHANGED shared
        /\ ~Writes(w)'
    BY <1>5, StopsEffect
  <2>2. s # w
    BY <1>0, <2>1 DEF Idle
  <2>3. Unwritten(x.folder) => Unwritten(x.folder)'
    BY <2>1 DEF Unwritten, Writes
  <2>4. Unwritten(x.folder) => manifest'[x.folder] = manifest[x.folder]
    BY <1>1, <1>5, StopsEffect DEF Unwritten
  <2>5. QED
    BY <1>0, <1>2, <2>1, <2>2, <2>3, <2>4
<1>6. ASSUME NEW w \in Servers, Works(w)
      PROVE  SightSound(s, x)'
  <2>0. /\ \A r \in Servers : backup'[r].folder = backup[r].folder /\ (Writes(r)' => Writes(r))
        /\ \A r \in Servers \ {w} : backup'[r] = backup[r]
        /\ UNCHANGED shared
    BY <1>6, AtWork DEF Writes
  <2>1. Unwritten(x.folder) => Unwritten(x.folder)'
    BY <2>0 DEF Unwritten
  <2>2. ASSUME x \in backup[s].seen \cup backup[s].doomed,
               Unwritten(x.folder) => manifest'[x.folder].made \in {0, manifest[x.folder].made}
        PROVE  SightSound(s, x)'
    BY <1>0, <1>2, <2>0, <2>1, <2>2
  <2>3. CASE UploadTable(w)
    <3>1. backup'[w].seen = backup[w].seen /\ backup'[w].doomed = backup[w].doomed
      BY <2>3, Shapes DEF UploadTable, BackupRecord
    <3>2. UNCHANGED manifest
      BY <2>3, UploadEffect
    <3>3. QED
      BY <1>0, <2>0, <2>2, <3>1, <3>2
  <2>4. CASE PutManifest(w)
    <3>1. backup'[w].seen = backup[w].seen /\ backup'[w].doomed = backup[w].doomed
      BY <2>4, PutEffect
    <3>2. Unwritten(x.folder) => manifest'[x.folder] = manifest[x.folder]
      BY <1>1, <2>4, PutEffect DEF Unwritten
    <3>3. QED
      BY <1>0, <2>0, <2>2, <3>1, <3>2
  <2>5. CASE Deletes(w)
    <3>1. backup'[w].seen = backup[w].seen /\ backup'[w].doomed \subseteq backup[w].doomed
      BY <2>5, AtDeletion
    <3>2. manifest'[x.folder].made \in {0, manifest[x.folder].made}
      <4>1. CASE DeleteManifest(w)
        BY <1>1, <4>1, DeleteManifestEffect DEF NoManifest
      <4>2. CASE DeletePart(w)
        BY <4>2, DeletePartEffect
      <4>3. CASE ListObjects(w)
        BY <4>3, ListObjectsEffect DEF storage
      <4>4. QED
        BY <2>5, <4>1, <4>2, <4>3 DEF Deletes
    <3>3. QED
      BY <1>0, <2>0, <2>2, <3>1, <3>2
  <2>6. CASE Quiet(w)
    <3>0. UNCHANGED manifest
      BY <2>6, QuietEffect DEF storage
    <3>1. CASE x \in backup[s].seen \cup backup[s].doomed
      BY <2>2, <3>0, <3>1
    <3>2. CASE x \notin backup[s].seen \cup backup[s].doomed
      <4>1. s = w
        BY <1>0, <2>0, <3>2
      <4>2. ReadManifest(w)
        <5>1. CASE TakeLock(w) \/ Commit(w) \/ ListFolders(w)
          BY <1>0, <3>2, <4>1, <5>1, Shapes DEF TakeLock, Commit, ListFolders, BackupRecord
        <5>2. CASE Decide(w)
          BY <1>0, <3>2, <4>1, <5>2, Shapes DEF Decide, Surplus, LeftBehind, BackupRecord
        <5>3. QED
          BY <2>6, <5>1, <5>2 DEF Quiet
      <4>3. PICK f \in backup[w].unread :
              backup' = [backup EXCEPT ![w].unread = @ \ {f},
                         ![w].seen = @ \cup {[folder |-> f, made |-> manifest[f].made]}]
        BY <4>2 DEF ReadManifest
      <4>4. f \in Folders /\ x = [folder |-> f, made |-> manifest[f].made]
        BY <1>0, <3>2, <4>1, <4>3, Shapes DEF BackupRecord
      <4>5. SightSound(s, x)
        BY <1>0, <2>0, <4>4, ReadSight
      <4>6. QED
        <5>1. CASE x.made > 0 \/ Old(s, x)
          BY <2>0, <2>1, <3>0, <4>5, <5>1, SightStays
        <5>2. CASE ~(x.made > 0 \/ Old(s, x))
          BY <2>0, <5>2 DEF SightSound, Old
        <5>3. QED
          BY <5>1, <5>2
    <3>3. QED
      BY <3>1, <3>2
  <2>7. QED
    BY <1>6, <2>3, <2>4, <2>5, <2>6 DEF Works, Quiet
<1>7. QED
  BY <1>3, <1>4, <1>5, <1>6, StepCases

-----------------------------------------------------------------------------
(* What retentions delete.                                                 *)

(* Two folders are never next at once.                                     *)
LEMMA OneNext ==
  ASSUME Types, NEW s \in Servers, NEW x, NEW y, IsNextDoomed(s, x), IsNextDoomed(s, y)
  PROVE  x = y
<1>1. SUFFICES ASSUME x # y PROVE FALSE
  OBVIOUS
<1>2. x \in Sighting /\ y \in Sighting
  BY Shapes DEF IsNextDoomed
<1>3. GoesBefore(x, y) /\ GoesBefore(y, x)
  BY <1>1 DEF IsNextDoomed
<1> DEFINE xm == x.made
           ym == y.made
           xf == x.folder
           yf == y.folder
<1>4. /\ xm \in Nat /\ xf[1] \in Nat /\ xf[2] \in Nat
      /\ ym \in Nat /\ yf[1] \in Nat /\ yf[2] \in Nat
  BY <1>2, Dates DEF Sighting
<1>5. xm > ym \/ (xm = ym /\ (xf[1] < yf[1] \/ (xf[1] = yf[1] /\ xf[2] < yf[2])))
  BY <1>3 DEF GoesBefore, Before
<1>6. ym > xm \/ (ym = xm /\ (yf[1] < xf[1] \/ (yf[1] = xf[1] /\ yf[2] < xf[2])))
  BY <1>3 DEF GoesBefore, Before
<1> HIDE DEF xm, ym, xf, yf
<1>7. QED
  BY <1>4, <1>5, <1>6

LEMMA DoomedKept ==
  ASSUME Types, Sights, DoomedSound, [Next]_vars
  PROVE  DoomedSound'
<1>0. SUFFICES ASSUME NEW s \in Servers, NEW x \in Sighting, x \in backup'[s].doomed
               PROVE  /\ x.made > 0 \/ Old(s, x)'
                      /\ (/\ backup'[s].step = "emptying" /\ 0 \notin backup'[s].left
                          /\ IsNextDoomed(s, x)' /\ x.folder \notin shared'
                          => manifest'[x.folder].made = 0)
  <2>1. Types'
    BY StepTypes
  <2>2. \A s \in Servers : backup'[s].doomed \subseteq Sighting
    BY <2>1 DEF Types, ProcessesOK, BackupRecord
  <2>3. \A f \in Folders : manifest'[f].made \in Nat
    BY <2>1 DEF Types, StorageOK, Manifest
  <2>4. \A x \in Sighting : x.folder \in Folders
    BY DEF Sighting
  <2>5. QED
    BY <2>2, <2>3, <2>4 DEF DoomedSound, Complete
<1>1. x.folder \in Folders /\ \A f \in Folders : manifest[f].made \in Nat
  BY Shapes DEF Sighting, Manifest
(* The doomed folders of a process are as they were, except for those no   *)
(* longer doomed.                                                          *)
<1>2. ASSUME x \in backup[s].doomed, backup'[s].folder = backup[s].folder,
             shared \subseteq shared',
             backup'[s].step = "emptying" =>
               /\ backup[s].step = "emptying" /\ backup'[s].doomed = backup[s].doomed
               /\ 0 \notin backup'[s].left => 0 \notin backup[s].left,
             x.folder \notin shared /\ Unwritten(x.folder) =>
               manifest'[x.folder].made \in {0, manifest[x.folder].made}
      PROVE  /\ x.made > 0 \/ Old(s, x)'
             /\ (/\ backup'[s].step = "emptying" /\ 0 \notin backup'[s].left
                 /\ IsNextDoomed(s, x)' /\ x.folder \notin shared'
                 => manifest'[x.folder].made = 0)
  <2>1. x.made > 0 \/ Old(s, x)
    BY <1>2 DEF DoomedSound
  <2>2. x.folder \notin shared => Unwritten(x.folder)
    BY <1>2, <2>1 DEF Sights, SightSound
  <2>3. backup'[s].step = "emptying" /\ 0 \notin backup'[s].left
          /\ IsNextDoomed(s, x)' /\ x.folder \notin shared'
        => manifest[x.folder].made = 0
    BY <1>1, <1>2 DEF DoomedSound, Complete, IsNextDoomed
  <2>4. QED
    BY <1>2, <2>1, <2>2, <2>3 DEF Old
<1>3. CASE Elsewhere \/ Tick
  <2>1. UNCHANGED <<backup, manifest, shared>>
    BY <1>3 DEF Elsewhere, Tick, storage
  <2>2. QED
    BY <1>0, <1>2, <2>1
<1>4. ASSUME NEW w \in Servers, NEW kind \in Kinds, Begin(w, kind)
      PROVE  /\ x.made > 0 \/ Old(s, x)'
             /\ (/\ backup'[s].step = "emptying" /\ 0 \notin backup'[s].left
                 /\ IsNextDoomed(s, x)' /\ x.folder \notin shared'
                 => manifest'[x.folder].made = 0)
  <2>1. /\ backup'[w].doomed = {} /\ (\A r \in Servers \ {w} : backup'[r] = backup[r])
        /\ shared \subseteq shared' /\ UNCHANGED manifest
    BY <1>4, BeginEffect
  <2>2. QED
    BY <1>0, <1>2, <2>1
<1>5. ASSUME NEW w \in Servers, Stops(w)
      PROVE  /\ x.made > 0 \/ Old(s, x)'
             /\ (/\ backup'[s].step = "emptying" /\ 0 \notin backup'[s].left
                 /\ IsNextDoomed(s, x)' /\ x.folder \notin shared'
                 => manifest'[x.folder].made = 0)
  <2>1. backup'[w] = Idle /\ (\A r \in Servers \ {w} : backup'[r] = backup[r]) /\ UNCHANGED shared
    BY <1>5, StopsEffect
  <2>2. s # w
    BY <1>0, <2>1 DEF Idle
  <2>3. Unwritten(x.folder) => manifest'[x.folder] = manifest[x.folder]
    BY <1>1, <1>5, StopsEffect DEF Unwritten
  <2>4. QED
    BY <1>0, <1>2, <2>1, <2>2, <2>3
<1>6. ASSUME NEW w \in Servers, Works(w)
      PROVE  /\ x.made > 0 \/ Old(s, x)'
             /\ (/\ backup'[s].step = "emptying" /\ 0 \notin backup'[s].left
                 /\ IsNextDoomed(s, x)' /\ x.folder \notin shared'
                 => manifest'[x.folder].made = 0)
  <2>0. /\ \A r \in Servers : backup'[r].folder = backup[r].folder
        /\ \A r \in Servers \ {w} : backup'[r] = backup[r]
        /\ UNCHANGED shared
    BY <1>6, AtWork
  <2>1. CASE UploadTable(w)
    <3>1. /\ backup'[w].doomed = backup[w].doomed /\ backup'[w].step = backup[w].step
          /\ backup'[w].left = backup[w].left
      BY <2>1, Shapes DEF UploadTable, BackupRecord
    <3>2. UNCHANGED manifest
      BY <2>1, UploadEffect
    <3>3. QED
      BY <1>0, <1>2, <2>0, <3>1, <3>2
  <2>2. CASE PutManifest(w)
    <3>1. backup'[w].doomed = backup[w].doomed /\ backup'[w].step = "listing"
      BY <2>2, PutEffect
    <3>2. Unwritten(x.folder) => manifest'[x.folder] = manifest[x.folder]
      <4>1. Unwritten(x.folder) => x.folder # backup[w].folder
        BY <2>2, PutEffect DEF Unwritten
      <4>2. x.folder \in Folders
        BY <1>1
      <4>3. QED
        BY <2>2, <4>1, <4>2, PutEffect
    <3>3. QED
      BY <1>0, <1>2, <2>0, <3>1, <3>2
  <2>3. CASE DeleteManifest(w)
    <3>1. PICK y \in backup[w].doomed :
            /\ IsNextDoomed(w, y) /\ manifest'[y.folder] = NoManifest
            /\ \A f \in Folders \ {y.folder} : manifest'[f] = manifest[f]
            /\ backup'[w].step = "emptying" => backup'[w].doomed = backup[w].doomed
      BY <2>3, DeleteManifestEffect
    <3>2. manifest'[x.folder].made \in {0, manifest[x.folder].made}
      BY <1>1, <3>1 DEF NoManifest
    <3>3. backup'[w].doomed \subseteq backup[w].doomed
      BY <2>3, AtDeletion DEF Deletes
    <3>4. CASE s # w
      BY <1>0, <1>2, <2>0, <3>2, <3>4
    <3>5. CASE s = w
      <4>1. x \in backup[s].doomed /\ (x.made > 0 \/ Old(s, x)')
        BY <1>0, <2>0, <3>3, <3>5 DEF DoomedSound, Old
      <4>2. ASSUME backup'[s].step = "emptying", IsNextDoomed(s, x)'
            PROVE  manifest'[x.folder].made = 0
        <5>1. IsNextDoomed(w, x)
          BY <3>1, <3>5, <4>2 DEF IsNextDoomed
        <5>2. x = y
          BY <3>1, <5>1, OneNext
        <5>3. QED
          BY <3>1, <5>2 DEF NoManifest
      <4>3. QED
        BY <4>1, <4>2
    <3>6. QED
      BY <3>4, <3>5
  <2>4. CASE DeletePart(w)
    <3>1. /\ backup[w].step = "emptying" /\ 0 \notin backup[w].left /\ UNCHANGED manifest
          /\ backup'[w].doomed \subseteq backup[w].doomed
          /\ backup'[w].step = "emptying" => backup'[w].doomed = backup[w].doomed
      BY <2>4, AtDeletion, DeletePartEffect DEF Deletes
    <3>2. QED
      BY <1>0, <1>2, <2>0, <3>1
  <2>5. CASE Decide(w)
    <3>1. UNCHANGED manifest /\ backup'[w].step # "emptying"
      BY <2>5, QuietEffect DEF Quiet, storage
    <3>2. CASE s # w
      BY <1>0, <1>2, <2>0, <3>1, <3>2
    <3>3. CASE s = w
      <4>1. PICK seconds \in 0..1 : x \in Surplus(s) \cup LeftBehind(s, seconds)
        BY <1>0, <2>5, <3>3, Shapes DEF Decide, BackupRecord
      <4>2. x.made > 0 \/ Old(s, x)
        BY <4>1, Shapes, Dates DEF Surplus, LeftBehind, Old, Sighting
      <4>3. QED
        BY <2>0, <3>1, <3>3, <4>2 DEF Old
    <3>4. QED
      BY <3>2, <3>3
  <2>6. CASE TakeLock(w) \/ Commit(w) \/ ListFolders(w) \/ ReadManifest(w)
    <3>1. UNCHANGED manifest /\ backup'[w].step # "emptying"
      BY <2>6, QuietEffect DEF Quiet, storage
    <3>2. backup'[w].doomed = backup[w].doomed
      <4>1. CASE TakeLock(w) \/ Commit(w) \/ ListFolders(w)
        BY <4>1, Shapes DEF TakeLock, Commit, ListFolders, BackupRecord
      <4>2. CASE ReadManifest(w)
        BY <4>2, Shapes DEF ReadManifest, BackupRecord
      <4>3. QED
        BY <2>6, <4>1, <4>2
    <3>3. QED
      BY <1>0, <1>2, <2>0, <3>1, <3>2
  <2>7. CASE ListObjects(w)
    <3>1. PICK y \in backup[w].doomed :
            /\ IsNextDoomed(w, y)
            /\ backup'[w].step = "emptying" =>
                 backup'[w].left = Objects(y.folder) /\ backup'[w].doomed = backup[w].doomed
      BY <2>7, ListObjectsEffect
    <3>2. UNCHANGED manifest
      BY <2>7, ListObjectsEffect DEF storage
    <3>3. backup'[w].doomed \subseteq backup[w].doomed
      BY <2>7, AtDeletion DEF Deletes
    <3>4. CASE s # w
      BY <1>0, <1>2, <2>0, <3>2, <3>4
    <3>5. CASE s = w
      <4>1. x \in backup[s].doomed /\ (x.made > 0 \/ Old(s, x)')
        BY <1>0, <2>0, <3>3, <3>5 DEF DoomedSound, Old
      <4>2. ASSUME backup'[s].step = "emptying", 0 \notin backup'[s].left, IsNextDoomed(s, x)'
            PROVE  manifest'[x.folder].made = 0
        <5>1. IsNextDoomed(w, x)
          BY <3>1, <3>5, <4>2 DEF IsNextDoomed
        <5>2. x = y
          BY <3>1, <5>1, OneNext
        <5>3. ~Complete(x.folder)
          BY <3>1, <3>5, <4>2, <5>2 DEF Objects
        <5>4. QED
          BY <1>1, <3>2, <5>3 DEF Complete
      <4>3. QED
        BY <4>1, <4>2
    <3>6. QED
      BY <3>4, <3>5
  <2>8. QED
    BY <1>6, <2>1, <2>2, <2>3, <2>4, <2>5, <2>6, <2>7 DEF Works, Deletes
<1>7. QED
  BY <1>3, <1>4, <1>5, <1>6, StepCases

-----------------------------------------------------------------------------
(* Complete folders.                                                       *)

WholeFolder(f) ==
  /\ part[f] = manifest[f].parts
  /\ \E v \in Versions \ {0} : \A t \in Tables : part[f][t] = v

(* A manifest is put on a folder that holds what it lists.                 *)
LEMMA PutWhole ==
  ASSUME Types, SentSound, Parts, NEW s \in Servers, backup[s].step = "committed",
         NEW f \in Folders, f = backup[s].folder, f \notin shared, UNCHANGED part,
         manifest'[f] = [made |-> backup[s].made, parts |-> backup[s].sent]
  PROVE  WholeFolder(f)'
<1>1. part[f] = backup[s].sent
  BY DEF Parts, Writes, Writing
<1>2. /\ backup[s].snapshot \in Versions \ {0}
      /\ \A t \in Tables : backup[s].sent[t] = backup[s].snapshot
  BY Shapes DEF SentSound, BackupRecord
<1>3. part'[f] = backup[s].sent /\ manifest'[f].parts = backup[s].sent
  BY <1>1
<1>4. QED
  BY <1>2, <1>3 DEF WholeFolder

LEMMA WholeKept ==
  ASSUME Types, SentSound, Parts, Sights, DoomedSound, CompleteIsWhole, [Next]_vars
  PROVE  CompleteIsWhole'
<1>0. SUFFICES ASSUME NEW f \in Folders, f \notin shared', Complete(f)'
               PROVE  WholeFolder(f)'
  BY DEF CompleteIsWhole, WholeFolder
<1>1. \A g \in Folders : manifest[g].made \in Nat
  BY Shapes DEF Manifest
<1>2. ASSUME f \notin shared, part'[f] = part[f], manifest'[f] = manifest[f]
      PROVE  WholeFolder(f)'
  BY <1>0, <1>2 DEF CompleteIsWhole, Complete, WholeFolder
<1>3. CASE Elsewhere \/ Tick
  <2>1. UNCHANGED <<part, manifest, shared>>
    BY <1>3 DEF Elsewhere, Tick, storage
  <2>2. QED
    BY <1>0, <1>2, <2>1
<1>4. ASSUME NEW w \in Servers, NEW kind \in Kinds, Begin(w, kind)
      PROVE  WholeFolder(f)'
  <2>1. shared \subseteq shared' /\ UNCHANGED <<part, manifest>>
    BY <1>4, BeginEffect
  <2>2. QED
    BY <1>0, <1>2, <2>1
<1>5. ASSUME NEW w \in Servers, Writes(w), f = backup[w].folder, UNCHANGED <<manifest, shared>>
      PROVE  FALSE
  BY <1>0, <1>5 DEF Parts, Complete
<1>6. ASSUME NEW w \in Servers, Stops(w)
      PROVE  WholeFolder(f)'
  <2>1. UNCHANGED shared
    BY <1>6, StopsEffect
  <2>2. CASE UNCHANGED storage
    BY <1>0, <1>2, <2>1, <2>2 DEF storage
  <2>3. CASE f # backup[w].folder
    BY <1>0, <1>2, <1>6, <2>1, <2>3, StopsEffect
  <2>4. CASE f = backup[w].folder /\ backup[w].step = "uploading" /\ UNCHANGED manifest
    BY <1>5, <2>1, <2>4 DEF Writes, Writing
  <2>5. CASE /\ f = backup[w].folder /\ backup[w].step = "committed" /\ UNCHANGED part
             /\ manifest'[backup[w].folder] = [made |-> backup[w].made, parts |-> backup[w].sent]
    BY <1>0, <2>1, <2>5, PutWhole
  <2>6. QED
    BY <1>6, <2>2, <2>3, <2>4, <2>5, StopsEffect
<1>7. ASSUME NEW w \in Servers, Works(w)
      PROVE  WholeFolder(f)'
  <2>1. UNCHANGED shared
    BY <1>7, AtWork
  <2>2. CASE UploadTable(w)
    <3>1. f # backup[w].folder
      BY <1>5, <2>1, <2>2, UploadEffect
    <3>2. part'[f] = part[f] /\ UNCHANGED manifest
      BY <2>2, <3>1, UploadEffect, Shapes
    <3>3. QED
      BY <1>0, <1>2, <2>1, <3>2
  <2>3. CASE PutManifest(w)
    <3>1. CASE f = backup[w].folder
      BY <1>0, <2>1, <2>3, <3>1, PutEffect, PutWhole
    <3>2. CASE f # backup[w].folder
      BY <1>0, <1>2, <2>1, <2>3, <3>2, PutEffect
    <3>3. QED
      BY <3>1, <3>2
  <2>4. CASE DeleteManifest(w)
    <3>1. PICK y \in backup[w].doomed :
            /\ manifest'[y.folder] = NoManifest /\ UNCHANGED part
            /\ \A g \in Folders \ {y.folder} : manifest'[g] = manifest[g]
      BY <2>4, DeleteManifestEffect
    <3>2. f # y.folder
      BY <1>0, <3>1 DEF Complete, NoManifest
    <3>3. QED
      BY <1>0, <1>2, <2>1, <3>1, <3>2
  <2>5. CASE DeletePart(w)
    <3>1. PICK y \in backup[w].doomed :
            IsNextDoomed(w, y) /\ \A g \in Folders \ {y.folder} : part'[g] = part[g]
      BY <2>5, DeletePartEffect
    <3>2. backup[w].step = "emptying" /\ 0 \notin backup[w].left /\ UNCHANGED manifest
      BY <2>5, DeletePartEffect
    <3>3. f # y.folder
      BY <1>0, <2>1, <3>1, <3>2 DEF DoomedSound, Complete
    <3>4. QED
      BY <1>0, <1>2, <2>1, <3>1, <3>2, <3>3
  <2>6. CASE Quiet(w) \/ ListObjects(w)
    <3>1. UNCHANGED <<part, manifest>>
      BY <2>6, QuietEffect, ListObjectsEffect DEF storage
    <3>2. QED
      BY <1>0, <1>2, <2>1, <3>1
  <2>7. QED
    BY <1>7, <2>2, <2>3, <2>4, <2>5, <2>6 DEF Works, Deletes, Quiet
<1>8. QED
  BY <1>3, <1>4, <1>6, <1>7, StepCases

LEMMA InitFolders == Init => FolderInv
<1> SUFFICES ASSUME Init PROVE FolderInv
  OBVIOUS
<1>1. \A s \in Servers : /\ backup[s].step = "idle" /\ backup[s].folder = NoFolder
                         /\ backup[s].seen = {} /\ backup[s].doomed = {}
  BY DEF Init, Idle
<1>2. \A f \in Folders : ~Complete(f)
  BY DEF Init, NoManifest, Complete
<1>3. Dated
  BY <1>1, Dates DEF Init, Dated, Writes, Writing
<1>4. Alone /\ SentSound /\ Parts
  BY <1>1 DEF Alone, SentSound, Parts, Writes, Writing
<1>5. Sights /\ DoomedSound
  BY <1>1 DEF Sights, DoomedSound
<1>6. CompleteIsWhole
  BY <1>2 DEF CompleteIsWhole
<1>7. QED
  BY <1>3, <1>4, <1>5, <1>6 DEF FolderInv

LEMMA StepFolders == Types /\ FolderInv /\ [Next]_vars => FolderInv'
BY DatesKept, AloneKept, SentKept, PartsKept, SightsKept, DoomedKept, WholeKept DEF FolderInv

(* A folder that says complete is whole at every step of every backup and  *)
(* retention, with crashes and failed requests between any two of them:    *)
(* for the manifest is put last by the only writer and deleted first, and  *)
(* what a retention saw long ago is deleted only if nobody can be writing  *)
(* it (runBackup, applyRetention, deleteFolder).                           *)
THEOREM FoldersAreSound == Spec => []FoldersSound
<1>1. FolderInv => CompleteIsWhole
  BY DEF FolderInv
<1>2. QED
  BY <1>1, InitFolders, StepFolders, TypesAlways, TypesHold, PTL DEF Spec, FoldersSound

(* No retention takes a part from a folder a backup is still writing.      *)
THEOREM WritersKeepParts == Spec => WritersKeepTheirParts
<1>1. ASSUME Types, FolderInv, [Next]_vars, NEW s \in Servers, backup[s].folder \notin shared,
             Writes(s), Writes(s)', NEW t \in Tables, NEW f \in Folders, f = backup[s].folder,
             part'[f][t] = 0
      PROVE  part[f][t] = 0
  <2>0. FolderInv /\ Alone /\ Sights /\ DoomedSound /\ SentSound
    BY <1>1 DEF FolderInv
  <2>1. CASE part'[f] = part[f]
    BY <1>1, <2>1
  <2>2. CASE Elsewhere \/ Tick
    BY <2>1, <2>2 DEF Elsewhere, Tick, storage
  <2>3. ASSUME NEW w \in Servers, NEW kind \in Kinds, Begin(w, kind) PROVE part'[f] = part[f]
    BY <1>1, <2>3, BeginEffect
  <2>4. ASSUME NEW w \in Servers, Stops(w) PROVE part'[f] = part[f]
    <3>1. w # s
      BY <1>1, <2>4, StopsEffect
    <3>2. f # backup[w].folder \/ ~Writes(w)
      BY <1>1, <2>0, <3>1 DEF Alone
    <3>3. QED
      BY <1>1, <2>4, <3>2, StopsEffect
  <2>5. ASSUME NEW w \in Servers, UploadTable(w) PROVE part[f][t] = 0
    <3>1. CASE w = s
      <4>1. backup[s].step = "uploading" /\ NextTable(s) \in Tables
        BY <2>5, <3>1 DEF UploadTable, At
      <4>2. backup[s].snapshot # 0
        BY <2>0, <4>1 DEF SentSound
      <4>3. part[f] \in Contents /\ part' =
              [part EXCEPT ![f] = [part[f] EXCEPT ![NextTable(s)] = backup[s].snapshot]]
        BY <1>1, <2>5, <3>1, UploadEffect, Shapes
      <4> DEFINE n == NextTable(s)
                 v == backup[s].snapshot
                 p == [part[f] EXCEPT ![n] = v]
      <4>4. part' = [part EXCEPT ![f] = p]
        BY <4>3
      <4> HIDE DEF p
      <4>5. part'[f] = p
        BY <1>1, <4>4, Shapes
      <4>6. p = [part[f] EXCEPT ![n] = v]
        BY DEF p
      <4> HIDE DEF n, v
      <4>7. v # 0 /\ p[t] = 0
        BY <1>1, <4>2, <4>5 DEF v
      <4>8. QED
        BY <1>1, <4>3, <4>6, <4>7 DEF Contents
    <3>2. CASE w # s
      <4>1. backup[w].folder # f
        BY <1>1, <2>0, <2>5, <3>2, UploadEffect DEF Alone
      <4>2. part'[f] = part[f]
        BY <1>1, <2>5, <4>1, UploadEffect, Shapes
      <4>3. QED
        BY <4>2, <2>1
    <3>3. QED
      BY <3>1, <3>2
  <2>6. ASSUME NEW w \in Servers, DeletePart(w) PROVE part'[f] = part[f]
    <3>1. PICK y \in backup[w].doomed : \A g \in Folders \ {y.folder} : part'[g] = part[g]
      BY <1>1, <2>6, DeletePartEffect
    <3>2. y.folder # f
      BY <1>1, <2>0, WrittenNotDoomed
    <3>3. QED
      BY <1>1, <3>1, <3>2
  <2>7. ASSUME NEW w \in Servers, PutManifest(w) \/ ListObjects(w) \/ DeleteManifest(w) \/ Quiet(w)
        PROVE  part'[f] = part[f]
    BY <1>1, <2>7, PutEffect, ListObjectsEffect, DeleteManifestEffect, QuietEffect DEF storage
  <2>8. QED
    BY <1>1, <2>1, <2>2, <2>3, <2>4, <2>5, <2>6, <2>7, StepCases
    DEF Works, Deletes, Quiet
<1>2. Types /\ FolderInv /\ [Next]_vars =>
        \A s \in {r \in Servers : backup[r].folder \notin shared} :
          backup[s].step \in Writing /\ backup'[s].step \in Writing =>
            \A t \in Tables : part'[backup[s].folder][t] = 0 => part[backup[s].folder][t] = 0
  <2> SUFFICES ASSUME Types, FolderInv, [Next]_vars, NEW s \in Servers,
                      backup[s].folder \notin shared, backup[s].step \in Writing,
                      backup'[s].step \in Writing, NEW t \in Tables,
                      part'[backup[s].folder][t] = 0
               PROVE  part[backup[s].folder][t] = 0
    OBVIOUS
  <2>1. backup[s].folder \in Folders
    BY Shapes
  <2>2. QED
    BY <1>1, <2>1 DEF Writes
<1>3. QED
  BY <1>2, InitFolders, StepFolders, TypesAlways, PTL DEF Spec, WritersKeepTheirParts

-----------------------------------------------------------------------------
(* The retention.  A backup is surplus because Keep newer ones were seen;  *)
(* each of those is still there or was itself deleted as surplus, with     *)
(* Keep newer ones still.                                                  *)

NewerThan(m) == {f \in Folders : manifest[f].made > m}
Enough(m) == Cardinality(NewerThan(m)) >= Keep

(* A retention sees each folder once, and a new one has seen nothing.      *)
SeesOnce(s) ==
  /\ backup[s].step \in Writing \cup {"listing"} => backup[s].seen = {}
  /\ \A x \in backup[s].seen :
       x.folder \notin backup[s].unread /\ \A y \in backup[s].seen : x.folder = y.folder => x = y

OneRecord == \A s \in Servers : SeesOnce(s)

KeptInv ==
  shared = {} => \A s \in Servers :
    /\ \A x \in backup[s].doomed : x.made > 0 => Enough(x.made)
    /\ \A x \in backup[s].seen : x.made > 0 => manifest[x.folder].made = x.made \/ Enough(x.made)

LEMMA OneRecordKept == Types /\ OneRecord /\ [Next]_vars => OneRecord'
<1> SUFFICES ASSUME Types, OneRecord, [Next]_vars PROVE OneRecord'
  OBVIOUS
<1>0. ASSUME NEW w \in Servers, SeesOnce(w)', \A r \in Servers \ {w} : backup'[r] = backup[r]
      PROVE  OneRecord'
  BY <1>0 DEF OneRecord, SeesOnce
<1>1. CASE Elsewhere \/ Tick
  BY <1>1 DEF Elsewhere, Tick, OneRecord, SeesOnce
<1>2. ASSUME NEW w \in Servers, NEW kind \in Kinds, Begin(w, kind) PROVE OneRecord'
  BY <1>0, <1>2, BeginEffect DEF SeesOnce
<1>3. ASSUME NEW w \in Servers, Stops(w) PROVE OneRecord'
  <2>1. backup'[w] = Idle /\ \A r \in Servers \ {w} : backup'[r] = backup[r]
    BY <1>3, StopsEffect
  <2>2. backup'[w].seen = {} /\ backup'[w].unread = {}
    BY <2>1 DEF Idle
  <2>3. QED
    BY <1>0, <2>1, <2>2 DEF SeesOnce
<1>4. ASSUME NEW w \in Servers, Works(w) PROVE OneRecord'
  <2>0. (\A r \in Servers \ {w} : backup'[r] = backup[r]) /\ SeesOnce(w)
    BY <1>4, AtWork DEF OneRecord
  <2>1. CASE TakeLock(w) \/ UploadTable(w) \/ Commit(w)
    <3>1. backup'[w].seen = backup[w].seen /\ backup[w].step \in Writing
      BY <2>1, Shapes DEF TakeLock, UploadTable, Commit, At, BackupRecord, Writing
    <3>2. QED
      BY <1>0, <2>0, <3>1 DEF SeesOnce
  <2>2. CASE PutManifest(w)
    BY <1>0, <2>0, <2>2, PutEffect DEF SeesOnce, Writes
  <2>3. CASE Deletes(w)
    <3>1. backup'[w].step \notin Writing \cup {"listing"}
      BY <2>3, AtDeletion DEF Writing
    <3>2. QED
      BY <1>0, <2>0, <2>3, <3>1, AtDeletion DEF SeesOnce
  <2>4. CASE Decide(w)
    <3>1. backup'[w].seen = {}
      BY <2>4, Shapes DEF Decide, BackupRecord
    <3>2. QED
      BY <1>0, <2>0, <3>1 DEF SeesOnce
  <2>5. CASE ReadManifest(w)
    <3>1. PICK f \in backup[w].unread :
            backup' = [backup EXCEPT ![w].unread = @ \ {f},
                       ![w].seen = @ \cup {[folder |-> f, made |-> manifest[f].made]}]
      BY <2>5 DEF ReadManifest
    <3>2. /\ backup'[w].unread = backup[w].unread \ {f}
          /\ backup'[w].seen = backup[w].seen \cup {[folder |-> f, made |-> manifest[f].made]}
          /\ backup'[w].step = "reading"
      BY <2>5, <3>1, Shapes DEF ReadManifest, At, BackupRecord
    <3>3. backup'[w].step \notin Writing \cup {"listing"}
      BY <3>2 DEF Writing
    <3>4. QED
      BY <1>0, <2>0, <3>2, <3>3 DEF SeesOnce
  <2>6. CASE ListFolders(w)
    <3>1. backup'[w].seen = {}
      BY <2>0, <2>6, Shapes DEF ListFolders, At, BackupRecord, SeesOnce
    <3>2. QED
      BY <1>0, <2>0, <3>1 DEF SeesOnce
  <2>7. QED
    BY <1>4, <2>1, <2>2, <2>3, <2>4, <2>5, <2>6 DEF Works
<1>5. QED
  BY <1>1, <1>2, <1>3, <1>4, StepCases

-----------------------------------------------------------------------------
(* Counting the newer backups.                                             *)

LEMMA FoldersFinite == IsFiniteSet(Folders)
<1>1. MaxMinute \in Nat /\ MaxSuffix \in Nat
  BY BackupAssumption
<1>2. IsFiniteSet(0..MaxMinute) /\ IsFiniteSet(1..MaxSuffix)
  BY <1>1, FS_Interval
<1>3. QED
  BY <1>2, FS_Product DEF Folders

(* More newer backups are still enough.                                    *)
LEMMA MoreIsEnough ==
  ASSUME NEW S, NEW T \in SUBSET Folders, S \subseteq T, Cardinality(S) >= Keep
  PROVE  Cardinality(T) >= Keep
<1>1. IsFiniteSet(T)
  BY FoldersFinite, FS_Subset
<1>2. IsFiniteSet(S) /\ Cardinality(S) <= Cardinality(T)
  BY <1>1, FS_Subset
<1>3. Cardinality(S) \in Nat /\ Cardinality(T) \in Nat /\ Keep \in Nat
  BY <1>1, <1>2, FS_CardinalityType, Values
<1>4. QED
  BY <1>2, <1>3

LEMMA EnoughBelow ==
  ASSUME Types, NEW m \in Nat, NEW n \in Nat, n <= m, Enough(m)
  PROVE  Enough(n)
<1>1. \A f \in Folders : manifest[f].made \in Nat
  BY Shapes DEF Manifest
<1>2. NewerThan(m) \subseteq NewerThan(n) /\ NewerThan(n) \in SUBSET Folders
  BY <1>1 DEF NewerThan
<1>3. QED
  BY <1>2, MoreIsEnough DEF Enough

(* What a step does to the manifests, as the counts see it: none is lost   *)
(* but those of folders with enough newer ones.                            *)
ManifestStep ==
  /\ \A m \in Nat : Enough(m) => Cardinality({f \in Folders : manifest'[f].made > m}) >= Keep
  /\ \A f \in Folders :
       manifest[f].made > 0 =>
         \/ manifest'[f].made = manifest[f].made
         \/ Cardinality({g \in Folders : manifest'[g].made > manifest[f].made}) >= Keep

(* A manifest is put where there was none.                                 *)
LEMMA PutStep ==
  ASSUME Types, \A f \in Folders : manifest'[f].made = manifest[f].made \/ manifest[f].made = 0,
         \A f \in Folders : manifest'[f].made \in Nat
  PROVE  ManifestStep
<1>1. \A f \in Folders : manifest[f].made \in Nat
  BY Shapes DEF Manifest
<1>2. ASSUME NEW m \in Nat, Enough(m)
      PROVE  Cardinality({f \in Folders : manifest'[f].made > m}) >= Keep
  <2>1. NewerThan(m) \subseteq {f \in Folders : manifest'[f].made > m}
    BY <1>1 DEF NewerThan
  <2>2. {f \in Folders : manifest'[f].made > m} \in SUBSET Folders
    OBVIOUS
  <2>3. QED
    BY <1>2, <2>1, <2>2, MoreIsEnough DEF Enough
<1>3. QED
  BY <1>1, <1>2 DEF ManifestStep

(* A manifest is deleted that has enough newer ones.                       *)
LEMMA DeleteStep ==
  ASSUME Types, NEW d \in Folders, manifest'[d].made = 0,
         \A f \in Folders \ {d} : manifest'[f].made = manifest[f].made,
         manifest[d].made > 0 => Enough(manifest[d].made)
  PROVE  ManifestStep
<1>1. \A f \in Folders : manifest[f].made \in Nat
  BY Shapes DEF Manifest
<1>2. CASE manifest[d].made = 0
  BY <1>1, <1>2, PutStep
<1>3. CASE manifest[d].made > 0
  <2> DEFINE k == manifest[d].made
  <2>1. k \in Nat /\ k > 0 /\ Enough(k)
    BY <1>1, <1>3
  <2>2. ASSUME NEW m \in Nat, Enough(m)
        PROVE  Cardinality({f \in Folders : manifest'[f].made > m}) >= Keep
    <3> DEFINE T == {f \in Folders : manifest'[f].made > m}
    <3>1. CASE m < k
      <4>1. NewerThan(k) \subseteq T
        BY <1>1, <2>1, <3>1 DEF NewerThan
      <4>2. QED
        BY <2>1, <4>1, MoreIsEnough DEF Enough
    <3>2. CASE m >= k
      <4>1. NewerThan(m) \subseteq T
        BY <1>1, <2>1, <3>2 DEF NewerThan
      <4>2. QED
        BY <2>2, <4>1, MoreIsEnough DEF Enough
    <3>3. QED
      BY <2>1, <3>1, <3>2
  <2>3. QED
    BY <1>1, <2>1, <2>2 DEF ManifestStep
<1>4. QED
  BY <1>1, <1>2, <1>3

LEMMA EveryManifestStep ==
  ASSUME Types, FolderInv, KeptInv, shared = {}, [Next]_vars
  PROVE  ManifestStep
<1>0. /\ \A f \in Folders : manifest[f].made \in Nat
      /\ \A f \in Folders : manifest'[f].made \in Nat
  <2>1. Types'
    BY StepTypes
  <2>2. QED
    BY <2>1 DEF Types, StorageOK, Manifest
<1>1. CASE UNCHANGED manifest
  BY <1>0, <1>1, PutStep
<1>2. ASSUME NEW w \in Servers, Writes(w),
             \A f \in Folders \ {backup[w].folder} : manifest'[f] = manifest[f]
      PROVE  ManifestStep
  <2>1. manifest[backup[w].folder].made = 0
    BY <1>0, <1>2, Shapes DEF FolderInv, Parts, Complete
  <2>2. QED
    BY <1>0, <1>2, <2>1, PutStep
<1>3. CASE Elsewhere \/ Tick
  BY <1>1, <1>3 DEF Elsewhere, Tick, storage
<1>4. ASSUME NEW w \in Servers, NEW kind \in Kinds, Begin(w, kind) PROVE ManifestStep
  BY <1>1, <1>4, BeginEffect
<1>5. ASSUME NEW w \in Servers, Stops(w) PROVE ManifestStep
  <2>1. CASE Writes(w)
    BY <1>2, <1>5, <2>1, StopsEffect
  <2>2. CASE ~Writes(w)
    <3>1. UNCHANGED manifest
      BY <1>5, <2>2 DEF Stops, storage, Writes
    <3>2. QED
      BY <1>1, <3>1
  <2>3. QED
    BY <2>1, <2>2
<1>6. ASSUME NEW w \in Servers, PutManifest(w) PROVE ManifestStep
  BY <1>2, <1>6, PutEffect
<1>7. ASSUME NEW w \in Servers, DeleteManifest(w) PROVE ManifestStep
  <2>1. PICK y \in backup[w].doomed :
          /\ y \in Sighting /\ manifest'[y.folder] = NoManifest
          /\ \A f \in Folders \ {y.folder} : manifest'[f] = manifest[f]
    BY <1>7, DeleteManifestEffect
  <2>2. y.folder \in Folders /\ y.made \in Nat
    BY <2>1 DEF Sighting
  <2>3. SightSound(w, y) /\ (y.made > 0 \/ Old(w, y))
    BY DEF FolderInv, Sights, DoomedSound
  <2>4. ASSUME manifest[y.folder].made > 0 PROVE Enough(manifest[y.folder].made)
    <3>1. y.made > 0
      BY <2>2, <2>3, <2>4 DEF SightSound, Complete
    <3>2. manifest[y.folder].made = y.made
      BY <2>3, <2>4, <3>1 DEF SightSound
    <3>3. Enough(y.made)
      BY <3>1 DEF KeptInv
    <3>4. QED
      BY <3>2, <3>3
  <2>5. manifest'[y.folder].made = 0
    BY <2>1 DEF NoManifest
  <2>6. QED
    BY <2>1, <2>2, <2>4, <2>5, DeleteStep
<1>8. ASSUME NEW w \in Servers, UploadTable(w) \/ ListObjects(w) \/ DeletePart(w) \/ Quiet(w)
      PROVE  ManifestStep
  <2>1. UNCHANGED manifest
    BY <1>8, UploadEffect, ListObjectsEffect, DeletePartEffect, QuietEffect DEF storage
  <2>2. QED
    BY <1>1, <2>1
<1>9. QED
  BY <1>3, <1>4, <1>5, <1>6, <1>7, <1>8, StepCases DEF Works, Deletes, Quiet

(* Seen surplus has enough newer backups now.                              *)
LEMMA SurplusEnough ==
  ASSUME Types, OneRecord, KeptInv, shared = {}, NEW s \in Servers, NEW x \in Surplus(s)
  PROVE  Enough(x.made)
<1> DEFINE complete == {r \in backup[s].seen : r.made > 0}
           Q == {q \in complete : q.made > x.made}
           h == [q \in Q |-> q.folder]
<1>1. x \in complete /\ Cardinality(Q) >= Keep
  BY DEF Surplus
<1>2. complete \subseteq Sighting /\ \A q \in Sighting : q.made \in Nat /\ q.folder \in Folders
  BY Shapes DEF Sighting
<1>3. x.made \in Nat
  BY <1>1, <1>2
<1>4. CASE \A q \in Q : manifest[q.folder].made = q.made
  <2>1. h \in [Q -> NewerThan(x.made)]
    BY <1>2, <1>4 DEF NewerThan
  <2>2. \A a, b \in Q : h[a] = h[b] => a = b
    BY DEF OneRecord, SeesOnce
  <2> HIDE DEF h, Q
  <2>3. h \in Injection(Q, NewerThan(x.made))
    BY <2>1, <2>2 DEF Injection, IsInjective
  <2>4. IsFiniteSet(NewerThan(x.made))
    BY FoldersFinite, FS_Subset DEF NewerThan
  <2>5. IsFiniteSet(Q) /\ Cardinality(Q) <= Cardinality(NewerThan(x.made))
    BY <2>3, <2>4, FS_Injection
  <2>6. Cardinality(Q) \in Nat /\ Cardinality(NewerThan(x.made)) \in Nat /\ Keep \in Nat
    BY <2>4, <2>5, FS_CardinalityType, Values
  <2>7. QED
    BY <1>1, <2>5, <2>6 DEF Enough
<1>5. ASSUME NEW q \in Q, manifest[q.folder].made # q.made
      PROVE  Enough(x.made)
  <2>1. Enough(q.made)
    BY <1>5 DEF KeptInv
  <2>2. q.made \in Nat /\ x.made <= q.made
    BY <1>2, <1>3, <1>5
  <2>3. QED
    BY <1>3, <2>1, <2>2, EnoughBelow
<1>6. QED
  BY <1>4, <1>5

LEMMA KeptKept ==
  ASSUME Types, FolderInv, OneRecord, KeptInv, [Next]_vars
  PROVE  KeptInv'
<1>0. SUFFICES ASSUME shared' = {}, NEW s \in Servers, NEW x \in Sighting, x.made > 0
               PROVE  /\ x \in backup'[s].doomed => Enough(x.made)'
                      /\ x \in backup'[s].seen =>
                           manifest'[x.folder].made = x.made \/ Enough(x.made)'
  <2>1. Types'
    BY StepTypes
  <2>2. \A s \in Servers : /\ backup'[s].seen \subseteq Sighting
                           /\ backup'[s].doomed \subseteq Sighting
    BY <2>1 DEF Types, ProcessesOK, BackupRecord
  <2>3. QED
    BY <2>2 DEF KeptInv
<1>1. shared = {}
  <2>1. CASE Elsewhere \/ Tick
    BY <1>0, <2>1 DEF Elsewhere, Tick
  <2>2. ASSUME NEW w \in Servers, NEW kind \in Kinds, Begin(w, kind) PROVE shared \subseteq shared'
    BY <2>2, BeginEffect
  <2>3. ASSUME NEW w \in Servers, Stops(w) \/ Works(w) PROVE UNCHANGED shared
    BY <2>3, StopsEffect, AtWork
  <2>4. QED
    BY <1>0, <2>1, <2>2, <2>3, StepCases
<1>2. x.made \in Nat /\ x.folder \in Folders
  BY DEF Sighting
<1>3. ManifestStep
  BY <1>1, EveryManifestStep
<1>4. Enough(x.made) => Enough(x.made)'
  BY <1>2, <1>3 DEF ManifestStep, Enough, NewerThan
<1>5. ASSUME x \in backup[s].doomed PROVE Enough(x.made)'
  BY <1>0, <1>1, <1>4, <1>5 DEF KeptInv
<1>6. ASSUME manifest[x.folder].made = x.made
      PROVE  manifest'[x.folder].made = x.made \/ Enough(x.made)'
  BY <1>0, <1>2, <1>3, <1>6 DEF ManifestStep, Enough, NewerThan
<1>7. ASSUME x \in backup[s].seen PROVE manifest'[x.folder].made = x.made \/ Enough(x.made)'
  BY <1>0, <1>1, <1>4, <1>6, <1>7 DEF KeptInv
<1>8. CASE Elsewhere \/ Tick
  BY <1>5, <1>7, <1>8 DEF Elsewhere, Tick
<1>9. ASSUME NEW w \in Servers, NEW kind \in Kinds, Begin(w, kind)
      PROVE  /\ x \in backup'[s].doomed => x \in backup[s].doomed
             /\ x \in backup'[s].seen => x \in backup[s].seen
  BY <1>9, BeginEffect
<1>10. ASSUME NEW w \in Servers, Stops(w)
      PROVE  /\ x \in backup'[s].doomed => x \in backup[s].doomed
             /\ x \in backup'[s].seen => x \in backup[s].seen
  <2>1. backup'[w] = Idle /\ \A r \in Servers \ {w} : backup'[r] = backup[r]
    BY <1>10, StopsEffect
  <2>2. QED
    BY <2>1 DEF Idle
<1>11. ASSUME NEW w \in Servers, Works(w)
       PROVE  /\ x \in backup'[s].doomed => Enough(x.made)'
              /\ x \in backup'[s].seen => manifest'[x.folder].made = x.made \/ Enough(x.made)'
  <2>0. \A r \in Servers \ {w} : backup'[r] = backup[r]
    BY <1>11, AtWork
  <2>1. CASE s # w
    BY <1>5, <1>7, <2>0, <2>1
  <2>2. CASE s = w
    <3>1. CASE TakeLock(w) \/ UploadTable(w) \/ Commit(w) \/ ListFolders(w)
      <4>1. backup'[w].seen = backup[w].seen /\ backup'[w].doomed = backup[w].doomed
        BY <3>1, Shapes DEF TakeLock, UploadTable, Commit, ListFolders, BackupRecord
      <4>2. QED
        BY <1>5, <1>7, <2>2, <4>1
    <3>2. CASE PutManifest(w)
      BY <1>5, <1>7, <2>2, <3>2, PutEffect
    <3>3. CASE Deletes(w)
      <4>1. backup'[w].seen = backup[w].seen /\ backup'[w].doomed \subseteq backup[w].doomed
        BY <3>3, AtDeletion
      <4>2. QED
        BY <1>5, <1>7, <2>2, <4>1
    <3>4. CASE ReadManifest(w)
      <4>1. PICK f \in backup[w].unread :
              backup' = [backup EXCEPT ![w].unread = @ \ {f},
                         ![w].seen = @ \cup {[folder |-> f, made |-> manifest[f].made]}]
        BY <3>4 DEF ReadManifest
      <4>2. /\ backup'[w].doomed = backup[w].doomed
            /\ backup'[w].seen = backup[w].seen \cup {[folder |-> f, made |-> manifest[f].made]}
        BY <4>1, Shapes DEF BackupRecord
      <4>3. QED
        BY <1>5, <1>6, <1>7, <2>2, <4>2
    <3>5. CASE Decide(w)
      <4>1. PICK seconds \in 0..1 :
              backup'[w].seen = {} /\ backup'[w].doomed = Surplus(w) \cup LeftBehind(w, seconds)
        BY <3>5, Shapes DEF Decide, BackupRecord
      <4>2. x \notin LeftBehind(w, seconds)
        BY <1>0 DEF LeftBehind
      <4>3. x \in Surplus(w) => Enough(x.made)
        BY <1>1, SurplusEnough
      <4>4. QED
        BY <1>4, <2>2, <4>1, <4>2, <4>3
    <3>6. QED
      BY <1>11, <3>1, <3>2, <3>3, <3>4, <3>5 DEF Works
  <2>3. QED
    BY <2>1, <2>2
<1>12. QED
  BY <1>5, <1>7, <1>8, <1>9, <1>10, <1>11, StepCases

(* A complete backup is deleted only while Keep newer ones are complete,   *)
(* however many processes apply the retention at once and however old what *)
(* they saw, as long as no folder was given to two backups                 *)
(* (applyRetention).                                                       *)
THEOREM NewestAreKept == Spec => NewestKept
<1>1. Init => OneRecord /\ KeptInv
  BY DEF Init, OneRecord, SeesOnce, KeptInv, Idle
<1>2. Types /\ FolderInv /\ OneRecord /\ KeptInv /\ [Next]_vars => KeptInv'
  BY KeptKept
<1>3. Types /\ FolderInv /\ KeptInv /\ [Next]_vars =>
        (shared = {} =>
           \A f \in Folders : Complete(f) /\ manifest'[f].made = 0 =>
             Cardinality({g \in Folders : manifest'[g].made > manifest[f].made}) >= Keep)
  <2> SUFFICES ASSUME Types, FolderInv, KeptInv, [Next]_vars, shared = {},
                      NEW f \in Folders, Complete(f), manifest'[f].made = 0
               PROVE  Cardinality({g \in Folders : manifest'[g].made > manifest[f].made}) >= Keep
    OBVIOUS
  <2>1. manifest[f].made > 0 /\ manifest[f].made # 0
    BY Shapes DEF Complete, Manifest
  <2>2. QED
    BY <2>1, EveryManifestStep DEF ManifestStep
<1>4. QED
  BY <1>1, <1>2, <1>3, InitFolders, StepFolders, OneRecordKept, TypesAlways, PTL
  DEF Spec, NewestKept
=============================================================================
