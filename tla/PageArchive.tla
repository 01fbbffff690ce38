---------------------------- MODULE PageArchive ----------------------------
(***************************************************************************)
(* The content of one recreated page: in its row of recreated_pages, or    *)
(* archived to a Storage object at a fixed path (archive.ts,               *)
(* recreatedPages.ts).  Archivers move it out under a claim with a lease;  *)
(* writers, an import of history and the deletion of the run change it     *)
(* meanwhile; a reader and an updater fetch the archived copy.  Each query *)
(* of the database and each request to Storage is a step.                  *)
(*                                                                         *)
(* Data abstraction.  A content is a version number; its hash and the      *)
(* row's updated_at are that number, and so is archived_at, since a        *)
(* version is archived at most once.  window = "days": a page turns old    *)
(* only when nothing that saw it younger is still under way; window =      *)
(* "zero" (olderThanDays 0): every page is old at once.                    *)
(***************************************************************************)
EXTENDS Naturals, FiniteSets

CONSTANTS Archivers,   \* passes that may run at once (two processes, tick and route)
          Windows,     \* the archive windows considered: a subset of {"days", "zero"}
          MaxVersion,  \* bound: contents ever written
          MaxImports, MaxFaults,
          MaxCrashes   \* bound: dead processes, and swaps that outlast their lease

ASSUME ArchiveAssumption ==
  /\ "none" \notin Archivers
  /\ Windows # {} /\ Windows \subseteq {"days", "zero"}
  /\ MaxVersion \in Nat \ {0}
  /\ {MaxImports, MaxFaults, MaxCrashes} \subseteq Nat

VARIABLES
  page,      \* the row of recreated_pages
  alive,     \* is the competitor row there?
  object,    \* the version in the Storage object; 0: no object
  newest,    \* the last version written
  archiver,  \* how far each pass is with this page
  reader,    \* a getRecreatedPage, and the versions current since it began
  updater,   \* an updateCompetitorWith with its content
  importing, \* an import that names this page
  cleaning,  \* deleteArchivedFor calls to make, after a commit
  window,    \* which window is configured
  crossed,   \* history: an import committed during an archive attempt, or owing a deletion
  imports, faults, crashes

budget == <<imports, faults, crashes>>
vars == <<page, alive, object, newest, archiver, reader, updater, importing, cleaning, window,
          crossed, budget>>

Versions == 0..MaxVersion
NoPage == [at |-> "none", version |-> 0, old |-> FALSE, claim |-> "none", live |-> FALSE]
Idle == [at |-> "idle", version |-> 0]
NoRead == [at |-> "idle", during |-> {}]
NoUpdate == [at |-> "idle", stamp |-> 0, copy |-> 0]

(* With the one_location constraint and the cascade of recreated_pages.    *)
TypeOK ==
  /\ page \in [at : {"none", "content", "archived"}, version : Versions, old : BOOLEAN,
               claim : Archivers \cup {"none"}, live : BOOLEAN]
  /\ page.live => page.claim # "none"
  /\ page.at = "none" => page.version = 0 /\ ~page.old /\ page.claim = "none"
  /\ ~alive => page.at = "none"
  /\ alive \in BOOLEAN /\ object \in Versions /\ newest \in Versions
  /\ archiver \in [Archivers -> [at : {"idle", "claimed", "put", "back", "gone", "releasing"},
                                 version : Versions]]
  /\ reader \in [at : {"idle", "fetching"}, during : SUBSET Versions]
  /\ updater \in [at : {"idle", "stamped", "ready"}, stamp : Versions, copy : Versions]
  /\ importing \in [at : {"idle", "read"}, archived : BOOLEAN]
  /\ cleaning \subseteq {"import", "delete"}
  /\ window \in Windows /\ crossed \in BOOLEAN
  /\ imports \in 0..MaxImports /\ faults \in 0..MaxFaults /\ crashes \in 0..MaxCrashes

Init ==
  /\ page = [NoPage EXCEPT !.at = "content", !.version = 1, !.old = TRUE]
  /\ alive = TRUE /\ object = 0 /\ newest = 1
  /\ archiver = [a \in Archivers |-> Idle]
  /\ reader = NoRead /\ updater = NoUpdate
  /\ importing = [at |-> "idle", archived |-> FALSE] /\ cleaning = {}
  /\ window \in Windows /\ crossed = FALSE
  /\ imports = 0 /\ faults = 0 /\ crashes = 0

-----------------------------------------------------------------------------
(* An archive pass (archiveOne).                                           *)

Holds(a, at) == archiver[a].at = at
Turns(a, at) ==
  archiver' = [archiver EXCEPT ![a] =
    IF at = "idle" THEN Idle ELSE [at |-> at, version |-> archiver[a].version]]

(* Fault: a claim whose pass died is never free again.                     *)
NeverExpires(p) == p.claim = "none"

(* CLAIM_FREE.                                                             *)
ClaimFree(p) == p.claim = "none" \/ ~p.live

Claim(a) ==
  /\ Holds(a, "idle")
  /\ page.at = "content" /\ page.old /\ ClaimFree(page)
  /\ page' = [page EXCEPT !.claim = a, !.live = TRUE]
  /\ archiver' = [archiver EXCEPT ![a] = [at |-> "claimed", version |-> page.version]]
  /\ UNCHANGED <<alive, object, newest, reader, updater, importing, cleaning, window, crossed, budget>>

Put(a) ==
  /\ Holds(a, "claimed")
  /\ object' = archiver[a].version
  /\ Turns(a, "put")
  /\ UNCHANGED <<page, alive, newest, reader, updater, importing, cleaning, window, crossed, budget>>

(* The upload or the read-back fails, the bytes stored or not.             *)
StorageFails(a) ==
  /\ Holds(a, "claimed") \/ Holds(a, "put")
  /\ faults < MaxFaults /\ faults' = faults + 1
  /\ object' \in {object, archiver[a].version}
  /\ Turns(a, "releasing")
  /\ UNCHANGED <<page, alive, newest, reader, updater, importing, cleaning, window, crossed,
                 imports, crashes>>

ReadBack(a) ==
  /\ Holds(a, "put")
  /\ Turns(a, IF object = archiver[a].version THEN "back" ELSE "releasing")
  /\ UNCHANGED <<page, alive, object, newest, reader, updater, importing, cleaning, window, crossed, budget>>

(* Fault: the swap does not compare the content again.                     *)
ClaimStands(p, a) == p.claim = a /\ p.live

(* The row still holds what the pass read, under its claim.                *)
Unchanged(p, a) ==
  p.at = "content" /\ p.version = archiver[a].version /\ p.claim = a /\ p.live

Unclaimed(p) == [p EXCEPT !.claim = "none", !.live = FALSE]

Swap(a) ==
  /\ Holds(a, "back")
  /\ page' = IF Unchanged(page, a) THEN [Unclaimed(page) EXCEPT !.at = "archived"] ELSE page
  /\ Turns(a, IF page.at = "none" THEN "gone" ELSE IF Unchanged(page, a) THEN "idle" ELSE "releasing")
  /\ UNCHANGED <<alive, object, newest, reader, updater, importing, cleaning, window, crossed, budget>>

(* The swap's transaction throws.                                          *)
SwapFails(a) ==
  /\ Holds(a, "back")
  /\ faults < MaxFaults /\ faults' = faults + 1
  /\ Turns(a, "releasing")
  /\ UNCHANGED <<page, alive, object, newest, reader, updater, importing, cleaning, window, crossed,
                 imports, crashes>>

(* release, best effort, of the pass's own claim.                          *)
Release(a) ==
  /\ Holds(a, "releasing")
  /\ \/ page' = (IF page.claim = a THEN Unclaimed(page) ELSE page) /\ UNCHANGED faults
     \/ faults < MaxFaults /\ faults' = faults + 1 /\ UNCHANGED page
  /\ Turns(a, "idle")
  /\ UNCHANGED <<alive, object, newest, reader, updater, importing, cleaning, window, crossed,
                 imports, crashes>>

(* deleteArchivedFor deletes the object or only logs why not.              *)
DeleteObject ==
  \/ object' = 0 /\ UNCHANGED faults
  \/ faults < MaxFaults /\ faults' = faults + 1 /\ UNCHANGED object

(* The page was deleted during the upload: the object goes with it.        *)
Gone(a) ==
  /\ Holds(a, "gone")
  /\ DeleteObject
  /\ Turns(a, "idle")
  /\ UNCHANGED <<page, alive, newest, reader, updater, importing, cleaning, window, crossed,
                 imports, crashes>>

(* The pass's process dies; its claim stays in the row.                    *)
Crash(a) ==
  /\ ~Holds(a, "idle")
  /\ crashes < MaxCrashes /\ crashes' = crashes + 1
  /\ Turns(a, "idle")
  /\ UNCHANGED <<page, alive, object, newest, reader, updater, importing, cleaning, window, crossed,
                 imports, faults>>

(* CLAIM_MINUTES pass: longer than an upload and its read-back, while the  *)
(* wait for the swap's transaction may outlast them.                       *)
LeaseRunsOut ==
  /\ page.live
  /\ \A a \in Archivers : page.claim = a => archiver[a].at \notin {"claimed", "put", "back"}
  /\ page' = [page EXCEPT !.live = FALSE]
  /\ UNCHANGED <<alive, object, newest, archiver, reader, updater, importing, cleaning, window,
                 crossed, budget>>

SwapOverdue(a) ==
  /\ Holds(a, "back") /\ page.claim = a /\ page.live
  /\ crashes < MaxCrashes /\ crashes' = crashes + 1
  /\ page' = [page EXCEPT !.live = FALSE]
  /\ UNCHANGED <<alive, object, newest, archiver, reader, updater, importing, cleaning, window,
                 crossed, imports, faults>>

AtRest ==
  /\ \A a \in Archivers : Holds(a, "idle")
  /\ reader.at = "idle" /\ updater.at = "idle" /\ importing.at = "idle" /\ cleaning = {}

Ages ==
  /\ page.at = "content" /\ ~page.old /\ AtRest
  /\ page' = [page EXCEPT !.old = TRUE]
  /\ UNCHANGED <<alive, object, newest, archiver, reader, updater, importing, cleaning, window,
                 crossed, budget>>

-----------------------------------------------------------------------------
(* What changes the page meanwhile.                                        *)

(* A read under way has now seen this version current.                     *)
Witnessed(version) ==
  reader' = IF reader.at = "idle" THEN reader ELSE [reader EXCEPT !.during = @ \cup {version}]

(* applyHeavy of a content: the row keeps the claim it carries.            *)
Written(p) == [p EXCEPT !.at = "content", !.version = newest + 1, !.old = (window = "zero")]

ApplyWrite ==
  /\ newest < MaxVersion
  /\ newest' = newest + 1
  /\ page' = Written(page)
  /\ Witnessed(newest + 1)

ApplyDelete ==
  /\ page' = NoPage
  /\ Witnessed(0)
  /\ UNCHANGED newest

(* setRecreatedPage, saveCompetitor and updateCompetitor with a content.   *)
Write ==
  /\ alive
  /\ ApplyWrite
  /\ UNCHANGED <<alive, object, archiver, updater, importing, cleaning, window, crossed, budget>>

(* importCompetitors and deleteOthers: which pages were archived is read   *)
(* first; their objects are deleted after the commit.                      *)
ImportReads ==
  /\ importing.at = "idle" /\ alive
  /\ imports < MaxImports /\ imports' = imports + 1
  /\ importing' = [at |-> "read", archived |-> page.at = "archived"]
  /\ UNCHANGED <<page, alive, object, newest, archiver, reader, updater, cleaning, window, crossed,
                 faults, crashes>>

ImportCommits ==
  /\ importing.at = "read"
  /\ importing' = [at |-> "idle", archived |-> FALSE]
  /\ \/ alive /\ ApplyWrite /\ UNCHANGED alive
     \/ alive /\ ApplyDelete /\ alive' \in BOOLEAN
     \/ ~alive /\ UNCHANGED <<page, newest, reader, alive>>
  /\ cleaning' = IF importing.archived THEN cleaning \cup {"import"} ELSE cleaning
  /\ crossed' = (crossed \/ importing.archived \/ \E a \in Archivers : ~Holds(a, "idle"))
  /\ UNCHANGED <<object, archiver, updater, window, budget>>

(* Fault: only the pages archived by now are cleaned up after.             *)
ArchivedOnly(p) == p.at = "archived"

(* pageRowIds: every page of the run, archived or being archived.          *)
OwesCleaning(p) == p.at # "none"

(* deleteHistoryRun and clearAllHistory.                                   *)
DeleteRun ==
  /\ alive
  /\ alive' = FALSE
  /\ ApplyDelete
  /\ cleaning' = IF OwesCleaning(page) THEN cleaning \cup {"delete"} ELSE cleaning
  /\ UNCHANGED <<object, archiver, updater, importing, window, crossed, budget>>

Clean ==
  /\ \E call \in cleaning : cleaning' = cleaning \ {call}
  /\ DeleteObject
  /\ UNCHANGED <<page, alive, newest, archiver, reader, updater, importing, window, crossed,
                 imports, crashes>>

-----------------------------------------------------------------------------
(* getRecreatedPage of an archived page: the row, then the object; a       *)
(* missing object is ArchivedPageUnavailableError.                         *)

ReadRow ==
  /\ reader.at = "idle" /\ page.at = "archived"
  /\ reader' = [at |-> "fetching", during |-> {page.version}]
  /\ UNCHANGED <<page, alive, object, newest, archiver, updater, importing, cleaning, window,
                 crossed, budget>>

FetchObject ==
  /\ reader.at = "fetching"
  /\ reader' = NoRead
  /\ UNCHANGED <<page, alive, object, newest, archiver, updater, importing, cleaning, window,
                 crossed, budget>>

-----------------------------------------------------------------------------
(* updateCompetitorWith: an archived copy is read ahead of the transaction *)
(* (prefetchArchivedPage), which uses it for the very version it names.    *)

Prefetch ==
  /\ updater.at = "idle" /\ alive
  /\ updater' = [NoUpdate EXCEPT !.at = IF page.at = "archived" THEN "stamped" ELSE "ready",
                                 !.stamp = IF page.at = "archived" THEN page.version ELSE 0]
  /\ UNCHANGED <<page, alive, object, newest, archiver, reader, importing, cleaning, window,
                 crossed, budget>>

PrefetchObject ==
  /\ updater.at = "stamped"
  /\ updater' = [updater EXCEPT !.at = "ready", !.copy = object]
  /\ UNCHANGED <<page, alive, object, newest, archiver, reader, importing, cleaning, window,
                 crossed, budget>>

(* Fault: the copy is used for any archived version.                       *)
StampIgnored(p) == updater.stamp # 0

StampMatches(p) == updater.stamp = p.version

(* readRecreatedPage under the row's lock; 0: none, or unavailable.        *)
ContentRead ==
  IF page.at # "archived" THEN page.version
  ELSE IF StampMatches(page) THEN updater.copy ELSE object

Update ==
  /\ updater.at = "ready"
  /\ updater' = NoUpdate
  /\ IF alive /\ ContentRead # 0 /\ newest < MaxVersion THEN ApplyWrite
     ELSE UNCHANGED <<page, newest, reader>>
  /\ UNCHANGED <<alive, object, archiver, importing, cleaning, window, crossed, budget>>

-----------------------------------------------------------------------------
Archive ==
  \E a \in Archivers : Claim(a) \/ Put(a) \/ ReadBack(a) \/ Swap(a) \/ Release(a) \/ Gone(a)

Failures == \E a \in Archivers : StorageFails(a) \/ SwapFails(a) \/ Crash(a) \/ SwapOverdue(a)

Next ==
  \/ Archive \/ Failures \/ LeaseRunsOut \/ Ages
  \/ Write \/ ImportReads \/ ImportCommits \/ DeleteRun \/ Clean
  \/ ReadRow \/ FetchObject \/ Prefetch \/ PrefetchObject \/ Update

Spec == Init /\ [][Next]_vars

(* The hourly tick takes up every page it may claim and carries it through; *)
(* time passes.                                                            *)
Fairness == WF_vars(Archive) /\ WF_vars(LeaseRunsOut)

FairSpec == Spec /\ Fairness
-----------------------------------------------------------------------------
(* Properties.                                                             *)

(* A row without content names an object that holds its very version: no   *)
(* interleaving of passes, writers and deletions loses a page.  With a     *)
(* window of zero an import must not have crossed an archive attempt.      *)
ArchivedReadable ==
  page.at = "archived" => object = page.version \/ (window = "zero" /\ crossed)

(* A read returns a content that was the page's at some moment of the read *)
(* (or fails): the object at the fixed path is not an older one.           *)
ReadsCurrent ==
  [][reader.at = "fetching" /\ reader'.at = "idle" =>
       object \in reader.during \cup {0} \/ (window = "zero" /\ crossed)]_vars

(* An update starts from the content the row has under its lock, although  *)
(* the archived copy was fetched before the lock was taken.                *)
UpdatesCurrent ==
  [][updater.at = "ready" /\ updater'.at = "idle" /\ newest' # newest =>
       ContentRead = page.version \/ (window = "zero" /\ crossed)]_vars

(* Once the run of the page is deleted and all calls have ended no object  *)
(* is left, not even one that was being uploaded at the deletion; only a   *)
(* failure, a crash or an import may leave one.                            *)
NothingLeftBehind ==
  ~alive /\ AtRest => object = 0 \/ imports + faults + crashes > 0

(* A page that has turned old is archived in the end, also when a pass     *)
(* died with its claim, unless it is changed or deleted.                   *)
OldPagesMove == page.at = "content" /\ page.old ~> page.at # "content" \/ ~page.old
=============================================================================
