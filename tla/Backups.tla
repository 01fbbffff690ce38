------------------------------ MODULE Backups ------------------------------
(***************************************************************************)
(* Backups of the database into Storage (backup.ts): every server process  *)
(* has a nightly timer and an administrator may start a backup by hand.  A *)
(* backup takes a free folder, then the advisory lock, uploads each table  *)
(* as one snapshot shows it, commits, puts the manifest and applies the    *)
(* retention; meanwhile a backup may be restored.  Each query of the       *)
(* database and each request to Storage is a step.                         *)
(*                                                                         *)
(* Data abstraction.  The content of the database, hence of each part of a *)
(* backup, is the number of transactions committed so far; a table is one  *)
(* part, and a sha-256 is the part itself.  A folder is the minute in its  *)
(* name and its suffix.  The processes read one clock; a backup puts its   *)
(* manifest in less than a day from the minute in the name of its folder.  *)
(***************************************************************************)
EXTENDS Naturals, FiniteSets

CONSTANTS Servers,
          TableCount,  \* tables of the schema, in the order of BACKUP_TABLES
          Keep,        \* complete backups the retention keeps
          Day,         \* minutes after which an incomplete folder is deleted
          MaxMinute, MaxSuffix, MaxVersion,
          Limits       \* bounds: what may happen at most, one record per behaviour

ASSUME BackupAssumption ==
  /\ {TableCount, Keep, Day, MaxSuffix} \subseteq Nat \ {0}
  /\ {MaxMinute, MaxVersion} \subseteq Nat
  /\ Limits \subseteq [backups : Nat, writes : 0..(MaxVersion - 1), minutes : 0..MaxMinute,
                         restores : Nat, faults : Nat, crashes : Nat]

VARIABLES
  version,   \* transactions committed to the database
  minute,
  lock,      \* who holds the advisory lock of a snapshot transaction: a set
  part,      \* the objects of each folder; 0: no object
  manifest,  \* the manifest of each folder, or NoManifest
  backup,    \* the backup of each process
  timer,     \* what the scheduler of each process waits for, or "none"
  up,
  target,    \* the database restored into
  restore,
  shared,    \* history: the folders two backups wrote at once
  limit,     \* the bounds of this behaviour
  begun, restores, faults, crashes

budget == <<limit, begun, restores, faults, crashes>>
storage == <<part, manifest>>
restoring == <<target, restore>>
vars == <<version, minute, lock, storage, backup, timer, up, target, restore, shared, budget>>

Tables == 1..TableCount
Versions == 0..MaxVersion
Folders == (0..MaxMinute) \X (1..MaxSuffix)
Contents == [Tables -> Versions]
Nothing == [t \in Tables |-> 0]

NoManifest == [made |-> 0, parts |-> Nothing]
NoFolder == <<0, 1>>
Idle == [step |-> "idle", kind |-> "manual", folder |-> NoFolder, made |-> 0, snapshot |-> 0,
         sent |-> Nothing, unread |-> {}, seen |-> {}, doomed |-> {}, left |-> {}]
NoRestore == [step |-> "idle", folder |-> NoFolder, wanted |-> Nothing, asked |-> {}, next |-> 1]

Writing == {"named", "uploading", "committed"}
Retaining == {"listing", "reading", "deleting", "emptying"}

TypeOK ==
  /\ version \in Versions /\ minute \in 0..MaxMinute
  /\ lock \subseteq Servers /\ Cardinality(lock) <= 1
  /\ part \in [Folders -> Contents]
  /\ \A f \in Folders : manifest[f].made \in 0..begun /\ manifest[f].parts \in Contents
  /\ \A s \in Servers :
       /\ backup[s].step \in {"idle"} \cup Writing \cup Retaining
       /\ backup[s].kind \in {"nightly", "retry", "manual"}
       /\ backup[s].folder \in Folders /\ backup[s].made \in 0..begun
       /\ backup[s].snapshot \in Versions /\ backup[s].sent \in Contents
       /\ backup[s].unread \subseteq Folders
       /\ backup[s].seen \cup backup[s].doomed \subseteq [folder : Folders, made : 0..begun]
       /\ s \in lock <=> backup[s].step = "uploading"
  /\ timer \in [Servers -> {"none", "nightly", "retry", "alerting"}]
  /\ up \in [Servers -> BOOLEAN]
  /\ target \in Contents
  /\ restore.step \in {"idle", "checking", "inserting", "done"}
  /\ shared \subseteq Folders
  /\ limit \in Limits /\ begun \in 0..limit.backups /\ restores \in 0..limit.restores
  /\ faults \in 0..limit.faults /\ crashes \in 0..limit.crashes

Init ==
  /\ version = 1 /\ minute = 0 /\ lock = {}
  /\ part = [f \in Folders |-> Nothing] /\ manifest = [f \in Folders |-> NoManifest]
  /\ backup = [s \in Servers |-> Idle]
  /\ timer = [s \in Servers |-> "nightly"] /\ up = [s \in Servers |-> TRUE]
  /\ target = Nothing /\ restore = NoRestore /\ shared = {}
  /\ limit \in Limits /\ begun = 0 /\ restores = 0 /\ faults = 0 /\ crashes = 0

-----------------------------------------------------------------------------
(* What Storage shows.                                                     *)

Complete(f) == manifest[f].made > 0
Holding(f) == {t \in Tables : part[f][t] # 0}
Listed(f) == Complete(f) \/ Holding(f) # {}
Objects(f) == Holding(f) \cup {n \in {0} : Complete(f)}  \* 0 is the manifest
At(s, step) == up[s] /\ backup[s].step = step

-----------------------------------------------------------------------------
(* Begin a backup, by the timer or by hand (runBackupNow, freeFolder).     *)

Free(f) == f[1] = minute /\ ~Listed(f)
           /\ \A n \in 1..(f[2] - 1) : Listed(<<minute, n>>)

(* Bound: no name is free because a retention that is still at work has    *)
(* deleted its folder, which takes more than Keep backups in one minute.   *)
Deleting(f) == \E r \in Servers :
  f \in backup[r].unread \cup {x.folder : x \in backup[r].seen \cup backup[r].doomed}

Begin(s, kind) ==
  /\ up[s] /\ begun < limit.backups
  /\ kind # "manual" => timer[s] = kind
  /\ timer' = [timer EXCEPT ![s] = IF kind = "manual" THEN @ ELSE "none"]
  /\ backup[s].step = "idle"
  /\ begun' = begun + 1
  /\ \E f \in {g \in Folders : Free(g) /\ ~Deleting(g)} :
       /\ backup' = [backup EXCEPT ![s] = [Idle EXCEPT !.step = "named", !.kind = kind,
                                                      !.folder = f, !.made = begun + 1]]
       /\ shared' = IF \E r \in Servers : backup[r].step \in Writing /\ backup[r].folder = f
                    THEN shared \cup {f} ELSE shared
  /\ UNCHANGED <<version, minute, lock, storage, up, restoring, limit, restores, faults, crashes>>

(* The timer fires while a backup of this process runs: it is "busy".      *)
TimerFindsBusy(s) ==
  /\ up[s] /\ timer[s] \in {"nightly", "retry"} /\ backup[s].step # "idle"
  /\ timer' = [timer EXCEPT ![s] = "nightly"]
  /\ UNCHANGED <<version, minute, lock, storage, backup, up, restoring, shared, budget>>

(* Fault: a retry that fails arms no timer.                                *)
NextTimerOnce(kind, outcome) ==
  IF outcome # "failed" THEN "nightly" ELSE IF kind = "nightly" THEN "retry" ELSE "none"

(* createBackupScheduler: what fire arms, by the outcome of the run; it    *)
(* records the failure of a retry before it arms the next.                 *)
NextTimer(kind, outcome) ==
  IF outcome # "failed" THEN "nightly" ELSE IF kind = "nightly" THEN "retry" ELSE "alerting"

Ends(s, outcome) ==
  /\ backup' = [backup EXCEPT ![s] = Idle]
  /\ timer' = [timer EXCEPT ![s] =
       IF backup[s].kind = "manual" THEN @ ELSE NextTimer(backup[s].kind, outcome)]

(* The alert is recorded, or its failure is logged.                        *)
AlertRecorded(s) ==
  /\ up[s] /\ timer[s] = "alerting"
  /\ timer' = [timer EXCEPT ![s] = "nightly"]
  /\ UNCHANGED <<version, minute, lock, storage, backup, up, restoring, shared, budget>>

(* The first statement of the snapshot transaction takes the lock and the  *)
(* snapshot; without the lock the backup is "busy".                        *)
TakeLock(s) ==
  /\ At(s, "named") /\ lock = {}
  /\ lock' = {s}
  /\ backup' = [backup EXCEPT ![s].step = "uploading", ![s].snapshot = version]
  /\ UNCHANGED <<version, minute, storage, timer, up, restoring, shared, budget>>

Busy(s) ==
  /\ At(s, "named") /\ lock # {}
  /\ Ends(s, "busy")
  /\ UNCHANGED <<version, minute, lock, storage, up, restoring, shared, budget>>

(* What a table reads as inside the transaction.                           *)
Reads(s) == backup[s].snapshot

NextTable(s) == Cardinality({t \in Tables : backup[s].sent[t] # 0}) + 1

UploadTable(s) ==
  /\ At(s, "uploading") /\ NextTable(s) \in Tables
  /\ part' = [part EXCEPT ![backup[s].folder][NextTable(s)] = Reads(s)]
  /\ backup' = [backup EXCEPT ![s].sent[NextTable(s)] = Reads(s)]
  /\ UNCHANGED <<version, minute, lock, manifest, timer, up, restoring, shared, budget>>

Commit(s) ==
  /\ At(s, "uploading") /\ NextTable(s) \notin Tables
  /\ lock' = lock \ {s}
  /\ backup' = [backup EXCEPT ![s].step = "committed"]
  /\ UNCHANGED <<version, minute, storage, timer, up, restoring, shared, budget>>

PutManifest(s) ==
  /\ At(s, "committed")
  /\ manifest' = [manifest EXCEPT ![backup[s].folder] =
                    [made |-> backup[s].made, parts |-> backup[s].sent]]
  /\ backup' = [backup EXCEPT ![s].step = "listing"]
  /\ UNCHANGED <<version, minute, lock, part, timer, up, restoring, shared, budget>>

-----------------------------------------------------------------------------
(* Retention (applyRetention, scanFolders, deleteFolder).                  *)

ListFolders(s) ==
  /\ At(s, "listing")
  /\ backup' = [backup EXCEPT ![s].step = "reading", ![s].unread = {f \in Folders : Listed(f)}]
  /\ UNCHANGED <<version, minute, lock, storage, timer, up, restoring, shared, budget>>

Before(f, g) == f[1] < g[1] \/ (f[1] = g[1] /\ f[2] < g[2])

ReadManifest(s) ==
  /\ At(s, "reading")
  /\ \E f \in backup[s].unread :
       /\ \A g \in backup[s].unread \ {f} : Before(f, g)
       /\ backup' = [backup EXCEPT ![s].unread = @ \ {f},
                                   ![s].seen = @ \cup {[folder |-> f, made |-> manifest[f].made]}]
  /\ UNCHANGED <<version, minute, lock, storage, timer, up, restoring, shared, budget>>

(* Fault: the oldest backups are kept.                                     *)
SurplusNewest(s) ==
  LET complete == {r \in backup[s].seen : r.made > 0}
  IN  {r \in complete : Cardinality({q \in complete : q.made < r.made}) >= Keep}

(* All but the newest Keep complete backups.                               *)
Surplus(s) ==
  LET complete == {r \in backup[s].seen : r.made > 0}
  IN  {r \in complete : Cardinality({q \in complete : q.made > r.made}) >= Keep}

(* Fault: an incomplete folder goes whatever its age.                      *)
LeftBehindAnyAge(s, seconds) == {r \in backup[s].seen : r.made = 0}

(* The incomplete folders over a day old when this backup began, "seconds" *)
(* (1: some, 0: none) after the minute in its own folder's name.           *)
LeftBehind(s, seconds) ==
  {r \in backup[s].seen : r.made = 0 /\ backup[s].folder[1] - r.folder[1] + seconds > Day}

Decide(s) ==
  /\ At(s, "reading") /\ backup[s].unread = {}
  /\ \E seconds \in 0..1 :
       backup' = [backup EXCEPT ![s].step = "deleting", ![s].seen = {},
                                ![s].doomed = Surplus(s) \cup LeftBehind(s, seconds)]
  /\ UNCHANGED <<version, minute, lock, storage, timer, up, restoring, shared, budget>>

(* Fault: the manifest is deleted with the other objects, in any order.    *)
ManifestLast(f) == IF Holding(f) # {} THEN manifest ELSE [manifest EXCEPT ![f] = NoManifest]

(* What the first deletion of a folder leaves.                             *)
ManifestFirst(f) == [manifest EXCEPT ![f] = NoManifest]

(* The surplus goes first, the newest before the others, then what was     *)
(* left behind, the oldest first.                                          *)
GoesBefore(q, r) == q.made > r.made \/ (q.made = r.made /\ Before(q.folder, r.folder))

IsNextDoomed(s, r) ==
  r \in backup[s].doomed /\ \A q \in backup[s].doomed \ {r} : GoesBefore(r, q)

(* deleteFolder lists the folder, then deletes what it listed, the         *)
(* manifest before the parts.                                              *)
Emptied(s, r) == [backup EXCEPT ![s].step = "deleting", ![s].doomed = @ \ {r}, ![s].left = {}]

Deleted(s, r, object) ==
  IF backup[s].left \subseteq {object} THEN Emptied(s, r)
  ELSE [backup EXCEPT ![s].left = @ \ {object}]

ListObjects(s) ==
  /\ At(s, "deleting")
  /\ \E r \in backup[s].doomed :
       /\ IsNextDoomed(s, r)
       /\ backup' = IF Objects(r.folder) = {} THEN Emptied(s, r)
                    ELSE [backup EXCEPT ![s].step = "emptying", ![s].left = Objects(r.folder)]
  /\ UNCHANGED <<version, minute, lock, storage, timer, up, restoring, shared, budget>>

DeleteManifest(s) ==
  /\ At(s, "emptying") /\ 0 \in backup[s].left
  /\ \E r \in backup[s].doomed :
       /\ IsNextDoomed(s, r)
       /\ manifest' = ManifestFirst(r.folder)
       /\ backup' = Deleted(s, r, 0)
  /\ UNCHANGED <<version, minute, lock, part, timer, up, restoring, shared, budget>>

DeletePart(s) ==
  /\ At(s, "emptying") /\ 0 \notin backup[s].left
  /\ \E t \in backup[s].left, r \in backup[s].doomed :
       /\ IsNextDoomed(s, r) /\ \A u \in backup[s].left : t <= u
       /\ part' = [part EXCEPT ![r.folder][t] = 0]
       /\ backup' = Deleted(s, r, t)
  /\ UNCHANGED <<version, minute, lock, manifest, timer, up, restoring, shared, budget>>

Finish(s) ==
  /\ At(s, "deleting") /\ backup[s].doomed = {}
  /\ Ends(s, "ok")
  /\ UNCHANGED <<version, minute, lock, storage, up, restoring, shared, budget>>

-----------------------------------------------------------------------------
(* Failures.  A request that fails may have been carried out; a failed     *)
(* retention leaves a complete backup, and the run is "ok" (runBackup).    *)

StorageFails(s) ==
  /\ up[s] /\ faults < limit.faults /\ faults' = faults + 1
  /\ \/ /\ backup[s].step \in Writing
        /\ \/ UNCHANGED storage
           \/ /\ At(s, "uploading") /\ NextTable(s) \in Tables
              /\ part' = [part EXCEPT ![backup[s].folder][NextTable(s)] = Reads(s)]
              /\ UNCHANGED manifest
           \/ /\ At(s, "committed")
              /\ manifest' = [manifest EXCEPT ![backup[s].folder] =
                                [made |-> backup[s].made, parts |-> backup[s].sent]]
              /\ UNCHANGED part
        /\ lock' = lock \ {s}
        /\ Ends(s, "failed")
     \/ /\ backup[s].step \in Retaining
        /\ Ends(s, "ok")
        /\ UNCHANGED <<lock, storage>>
  /\ UNCHANGED <<version, minute, up, restoring, shared, limit, begun, restores, crashes>>

Crash(s) ==
  /\ up[s] /\ crashes < limit.crashes /\ crashes' = crashes + 1
  /\ up' = [up EXCEPT ![s] = FALSE]
  /\ lock' = lock \ {s}
  /\ backup' = [backup EXCEPT ![s] = Idle]
  /\ timer' = [timer EXCEPT ![s] = "none"]
  /\ UNCHANGED <<version, minute, storage, restoring, shared, limit, begun, restores, faults>>

(* startBackupScheduler.                                                   *)
Restart(s) ==
  /\ ~up[s]
  /\ up' = [up EXCEPT ![s] = TRUE]
  /\ timer' = [timer EXCEPT ![s] = "nightly"]
  /\ UNCHANGED <<version, minute, lock, storage, backup, restoring, shared, budget>>

-----------------------------------------------------------------------------
(* Restore of a folder into a database (restoreBackup): "empty" refuses a  *)
(* target with rows; --allow-existing adds the rows that are missing.      *)

RestoreBegins(f, into) ==
  /\ restore.step \in {"idle", "done"} /\ restores < limit.restores
  /\ Complete(f)
  /\ into = "empty" => target = Nothing
  /\ restores' = restores + 1
  /\ restore' = [step |-> "checking", folder |-> f, wanted |-> manifest[f].parts, next |-> 1,
                 asked |-> IF target = Nothing THEN {manifest[f].parts}
                           ELSE restore.asked \cup {manifest[f].parts}]
  /\ UNCHANGED <<version, minute, lock, storage, backup, timer, up, target, shared, limit, begun,
                 faults, crashes>>

Sound(t) == part[restore.folder][t] = restore.wanted[t]

CheckObject ==
  /\ restore.step = "checking" /\ restore.next \in Tables /\ Sound(restore.next)
  /\ restore' = [restore EXCEPT !.next = @ + 1]
  /\ UNCHANGED <<version, minute, lock, storage, backup, timer, up, target, shared, budget>>

AllChecked ==
  /\ restore.step = "checking" /\ restore.next \notin Tables
  /\ restore' = [restore EXCEPT !.step = "inserting", !.next = 1]
  /\ UNCHANGED <<version, minute, lock, storage, backup, timer, up, target, shared, budget>>

(* Fault: the object was verified before the first insert.                 *)
InsertableIfThere(t) == part[restore.folder][t] # 0

(* verifiedObject, again, before its rows are inserted.                    *)
Insertable(t) == Sound(t)

InsertTable ==
  /\ restore.step = "inserting" /\ restore.next \in Tables
  /\ Insertable(restore.next)
  /\ target' = [target EXCEPT ![restore.next] =
                  IF @ = 0 THEN part[restore.folder][restore.next] ELSE @]
  /\ restore' = [restore EXCEPT !.next = @ + 1]
  /\ UNCHANGED <<version, minute, lock, storage, backup, timer, up, shared, budget>>

RestoreSucceeds ==
  /\ restore.step = "inserting" /\ restore.next \notin Tables
  /\ restore' = [restore EXCEPT !.step = "done"]
  /\ UNCHANGED <<version, minute, lock, storage, backup, timer, up, target, shared, budget>>

(* An object is missing or damaged, a request fails, or the script dies.   *)
RestoreFails ==
  /\ restore.step \in {"checking", "inserting"} /\ restore.next \in Tables
  /\ \/ ~Sound(restore.next) /\ UNCHANGED faults
     \/ faults < limit.faults /\ faults' = faults + 1
  /\ restore' = [restore EXCEPT !.step = "idle"]
  /\ UNCHANGED <<version, minute, lock, storage, backup, timer, up, target, restores, shared,
                 limit, begun, crashes>>

-----------------------------------------------------------------------------
(* The rest of the application, and time.                                  *)

Write ==
  /\ version <= limit.writes /\ version' = version + 1
  /\ UNCHANGED <<minute, lock, storage, backup, timer, up, restoring, shared, budget>>

Tick ==
  /\ minute < limit.minutes /\ minute' = minute + 1
  /\ \A s \in Servers : backup[s].step \in Writing => minute' - backup[s].folder[1] < Day
  /\ UNCHANGED <<version, lock, storage, backup, timer, up, restoring, shared, budget>>

Steps(s) ==
  \/ TimerFindsBusy(s) \/ TakeLock(s) \/ Busy(s) \/ UploadTable(s) \/ Commit(s) \/ PutManifest(s)
  \/ ListFolders(s) \/ ReadManifest(s) \/ Decide(s) \/ ListObjects(s) \/ DeleteManifest(s)
  \/ DeletePart(s) \/ Finish(s) \/ AlertRecorded(s)

Next ==
  \/ \E s \in Servers : Steps(s) \/ StorageFails(s) \/ Crash(s) \/ Restart(s)
  \/ \E s \in Servers, kind \in {"nightly", "retry", "manual"} : Begin(s, kind)
  \/ \E f \in Folders, into \in {"empty", "existing"} : RestoreBegins(f, into)
  \/ CheckObject \/ AllChecked \/ InsertTable \/ RestoreSucceeds \/ RestoreFails
  \/ Write \/ Tick

Spec == Init /\ [][Next]_vars

-----------------------------------------------------------------------------
(* A folder with a manifest holds every part the manifest lists, and the   *)
(* parts show one moment of the database: the manifest is put last and     *)
(* deleted first, and the parts are read in one transaction.  A folder two *)
(* backups were given at once is left out (README).                        *)
CompleteIsWhole ==
  \A f \in Folders \ shared :
    Complete(f) => /\ part[f] = manifest[f].parts
                   /\ \E v \in Versions \ {0} : \A t \in Tables : part[f][t] = v

(* Every step of every process, a crash between any two of them included,  *)
(* leaves the folders sound: typed, and whole where they say complete.     *)
FoldersSound == TypeOK /\ CompleteIsWhole

(* A complete backup is deleted only while Keep newer ones are complete,   *)
(* whichever process applies the retention to whatever it saw earlier, as  *)
(* long as no folder was given to two backups (README).                    *)
NewestKept ==
  [][shared = {} =>
       \A f \in Folders : Complete(f) /\ manifest'[f].made = 0 =>
         Cardinality({g \in Folders : manifest'[g].made > manifest[f].made}) >= Keep]_vars

(* No retention takes a part from the folder a backup is still writing,    *)
(* if that backup alone was given the folder and puts its manifest in less *)
(* than a day (Tick), the age from which a retention deletes (README).     *)
WritersKeepTheirParts ==
  [][\A s \in {r \in Servers : backup[r].folder \notin shared} :
       backup[s].step \in Writing /\ backup'[s].step \in Writing =>
         \A t \in Tables : part'[backup[s].folder][t] = 0 => part[backup[s].folder][t] = 0]_vars

(* A restore that reports success into a database where only this backup   *)
(* was restored leaves every table as the manifest says, though the        *)
(* objects may change or go while it runs and an earlier try failed.       *)
RestoredIsWhole ==
  restore.step = "done" /\ restore.asked = {restore.wanted} => target = restore.wanted

(* A running process whose timer is off is in the backup that will set it  *)
(* again, or records the alert after which it is set: no failure, failed   *)
(* retry or busy lock ends the nightly schedule.                           *)
ScheduleGoesOn ==
  \A s \in Servers :
    up[s] /\ timer[s] = "none" => backup[s].step # "idle" /\ backup[s].kind # "manual"
=============================================================================
