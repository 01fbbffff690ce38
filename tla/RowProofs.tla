------------------------------ MODULE RowProofs ------------------------------
(***************************************************************************)
(* Proofs about the two components whose requests read a row, wait, and    *)
(* write what they decided on it: the archive of recreated pages, for any  *)
(* number of passes, contents, imports, failures and crashes and for both  *)
(* windows; and the accounts, for any number of users, organisations and   *)
(* requests and any bodies a PATCH may have.  They share no state and no   *)
(* lemma.                                                                  *)
(***************************************************************************)
EXTENDS PageArchive, Accounts, FiniteSetTheorems, TLAPS

-----------------------------------------------------------------------------
(* The archive.                                                            *)

PageType ==
  [at : {"none", "content", "archived"}, version : Versions, old : BOOLEAN,
   claim : Archivers \cup {"none"}, live : BOOLEAN]
PassType ==
  [at : {"idle", "claimed", "put", "back", "gone", "releasing"}, version : Versions]

(* The window of zero was crossed by an import: nothing is claimed.        *)
Exempt == window = "zero" /\ crossed

(* A pass whose bytes may still reach the object.                          *)
Uploads(a) == archiver[a].at \in {"claimed", "put"}

(* A content has a version, and versions only grow.                        *)
VersionsGrow ==
  /\ page.version <= newest /\ updater.stamp <= newest /\ newest # 0
  /\ page.at # "none" => page.version # 0
  /\ \A a \in Archivers : Uploads(a) \/ Holds(a, "back") => archiver[a].version <= newest

(* Window of days: a page turned old when no pass was under way, so every  *)
(* pass on it holds its version, and no deletion of its object is owed.    *)
OldPage ==
  /\ \A a \in Archivers : Uploads(a) \/ Holds(a, "back") => archiver[a].version = page.version
  /\ \A a \in Archivers : ~Holds(a, "gone")
  /\ cleaning = {}
  /\ \A a \in Archivers : Holds(a, "back") => object = page.version

DaysInv ==
  /\ page.old => OldPage
  /\ \A a \in Archivers : Uploads(a) \/ Holds(a, "back") =>
       (page.at = "content" /\ archiver[a].version = page.version => page.old)
  /\ page.at = "archived" => page.old /\ object = page.version

(* Window of zero: only the holder of the live claim uploads, and the page *)
(* stays in its row meanwhile, unless the run was deleted.                 *)
ZeroInv ==
  /\ \A a \in Archivers : Uploads(a) =>
       \/ ~alive
       \/ page.claim = a /\ page.live /\ page.at = "content"
  /\ \A a \in Archivers : Holds(a, "back") /\ page.claim = a /\ page.live => object = archiver[a].version
  /\ \A a \in Archivers : Holds(a, "back") => ~alive \/ page.at # "none"
  /\ \A a \in Archivers : Holds(a, "gone") => ~alive
  /\ cleaning # {} => ~alive
  /\ page.at = "archived" => object = page.version

(* What a read may still get was current since it began.                   *)
ReadInv ==
  reader.at = "fetching" /\ ~Exempt =>
    /\ page.version \in reader.during
    /\ object \in reader.during \cup {0}
    /\ \A a \in Archivers : Uploads(a) => archiver[a].version \in reader.during

(* The archived copy an update took ahead is the version it names, as long *)
(* as that version is the row's.                                           *)
UpdateInv ==
  updater.at # "idle" /\ updater.stamp # 0 /\ updater.stamp = page.version /\ ~Exempt =>
    page.at = "archived" /\ (updater.at = "ready" => updater.copy = updater.stamp)

Safe ==
  /\ VersionsGrow
  /\ window = "days" => DaysInv
  /\ window = "zero" /\ ~crossed => ZeroInv
  /\ ReadInv /\ UpdateInv

-----------------------------------------------------------------------------
(* What the operators on the row and on a pass leave.                      *)

Passes == [Archivers -> PassType]

LEMMA TurnsEffect ==
  ASSUME archiver \in Passes, NEW a \in Archivers,
         NEW at \in {"idle", "claimed", "put", "back", "gone", "releasing"}, Turns(a, at)
  PROVE  /\ archiver' \in Passes
         /\ archiver'[a].at = at
         /\ at # "idle" => archiver'[a].version = archiver[a].version
         /\ \A b \in Archivers : b # a => archiver'[b] = archiver[b]
<1>1. 0 \in Versions
  BY ArchiveAssumption DEF Versions
<1>2. archiver[a].version \in Versions
  BY DEF Passes, PassType
<1>3. (IF at = "idle" THEN Idle ELSE [at |-> at, version |-> archiver[a].version]) \in PassType
  BY <1>1, <1>2 DEF Idle, PassType
<1>4. QED
  BY <1>3 DEF Turns, Idle, Passes

LEMMA ClaimedRow ==
  ASSUME page \in PageType, NEW a \in Archivers
  PROVE  /\ [page EXCEPT !.claim = a, !.live = TRUE] \in PageType /\ [page EXCEPT !.claim = a, !.live = TRUE].at = page.at
         /\ [page EXCEPT !.claim = a, !.live = TRUE].version = page.version /\ [page EXCEPT !.claim = a, !.live = TRUE].old = page.old
         /\ [page EXCEPT !.claim = a, !.live = TRUE].claim = a /\ [page EXCEPT !.claim = a, !.live = TRUE].live = TRUE
BY DEF PageType, Unclaimed

LEMMA OverdueRow ==
  ASSUME page \in PageType
  PROVE  /\ [page EXCEPT !.live = FALSE] \in PageType /\ [page EXCEPT !.live = FALSE].at = page.at
         /\ [page EXCEPT !.live = FALSE].version = page.version /\ [page EXCEPT !.live = FALSE].old = page.old
         /\ [page EXCEPT !.live = FALSE].claim = page.claim /\ [page EXCEPT !.live = FALSE].live = FALSE
BY DEF PageType, Unclaimed

LEMMA UnclaimedRow ==
  ASSUME page \in PageType
  PROVE  /\ Unclaimed(page) \in PageType /\ Unclaimed(page).at = page.at
         /\ Unclaimed(page).version = page.version /\ Unclaimed(page).old = page.old
         /\ Unclaimed(page).claim = "none" /\ Unclaimed(page).live = FALSE
BY DEF PageType, Unclaimed

LEMMA ArchivedRow ==
  ASSUME page \in PageType
  PROVE  /\ [Unclaimed(page) EXCEPT !.at = "archived"] \in PageType /\ [Unclaimed(page) EXCEPT !.at = "archived"].at = "archived"
         /\ [Unclaimed(page) EXCEPT !.at = "archived"].version = page.version /\ [Unclaimed(page) EXCEPT !.at = "archived"].old = page.old
         /\ [Unclaimed(page) EXCEPT !.at = "archived"].claim = "none" /\ [Unclaimed(page) EXCEPT !.at = "archived"].live = FALSE
BY DEF PageType, Unclaimed

LEMMA WriteEffect ==
  ASSUME page \in PageType, newest \in Versions, newest < MaxVersion
  PROVE  /\ Written(page) \in PageType /\ Written(page).at = "content"
         /\ Written(page).version = newest + 1 /\ Written(page).old = (window = "zero")
         /\ Written(page).claim = page.claim /\ Written(page).live = page.live
<1>1. newest + 1 \in Versions
  BY ArchiveAssumption DEF Versions
<1>2. QED
  BY <1>1 DEF PageType, Written

(* What the actions that rewrite the row leave, field by field.            *)

RowIs(at, version, old, claim, live) ==
  /\ page' \in PageType /\ page'.at = at /\ page'.version = version
  /\ page'.old = old /\ page'.claim = claim /\ page'.live = live

Frame ==
  /\ alive' = alive /\ object' = object /\ newest' = newest /\ reader' = reader
  /\ updater' = updater /\ cleaning' = cleaning /\ window' = window /\ crossed' = crossed

Others(a) == \A b \in Archivers : b # a => archiver'[b] = archiver[b]

Claimed(a) ==
  /\ RowIs("content", page.version, TRUE, a, TRUE)
  /\ archiver' \in Passes /\ archiver'[a].at = "claimed"
  /\ archiver'[a].version = page.version /\ Others(a)
  /\ page.at = "content" /\ page.old /\ ClaimFree(page) /\ Frame

LEMMA ClaimEffect ==
  ASSUME TypeOK, NEW a \in Archivers, Claim(a)
  PROVE  Claimed(a)
<1>1. page \in PageType /\ archiver \in Passes
  BY DEF TypeOK, PageType, PassType, Passes
<1>2. page.at = "content" /\ page.old = TRUE
  BY <1>1 DEF Claim, PageType
<1>3. RowIs("content", page.version, TRUE, a, TRUE)
  BY <1>1, <1>2, ClaimedRow DEF Claim, RowIs
<1>4. [at |-> "claimed", version |-> page.version] \in PassType
  BY <1>1 DEF PageType, PassType
<1>5. QED
  BY <1>1, <1>2, <1>3, <1>4 DEF Claim, Claimed, Passes, Others, Frame

Swapped(a) ==
  /\ Unchanged(page, a)
  /\ RowIs("archived", page.version, page.old, "none", FALSE)
  /\ archiver' \in Passes /\ archiver'[a].at = "idle" /\ Others(a)

Skipped(a) ==
  /\ page' = page /\ archiver' \in Passes /\ Others(a)
  /\ (archiver'[a].at = "gone" /\ page.at = "none") \/ archiver'[a].at = "releasing"

LEMMA SwapEffect ==
  ASSUME TypeOK, NEW a \in Archivers, Swap(a)
  PROVE  Frame /\ Holds(a, "back") /\ (Swapped(a) \/ Skipped(a))
<1>1. page \in PageType /\ archiver \in Passes
  BY DEF TypeOK, PageType, PassType, Passes
<1>2. CASE Unchanged(page, a)
  <2>1. Turns(a, "idle") /\ page' = [Unclaimed(page) EXCEPT !.at = "archived"]
    BY <1>2 DEF Swap, Unchanged
  <2>2. RowIs("archived", page.version, page.old, "none", FALSE)
    BY <1>1, <2>1, ArchivedRow DEF RowIs
  <2>3. archiver' \in Passes /\ archiver'[a].at = "idle" /\ Others(a)
    BY <1>1, <2>1, TurnsEffect DEF Others
  <2>4. Swapped(a)
    BY <1>2, <2>2, <2>3 DEF Swapped
  <2>5. QED
    BY <2>4 DEF Swap, Frame
<1>3. CASE ~Unchanged(page, a)
  <2>1. PICK at \in {"gone", "releasing"} : Turns(a, at) /\ (at = "gone" => page.at = "none")
    BY <1>3 DEF Swap
  <2>2. archiver' \in Passes /\ archiver'[a].at = at /\ Others(a)
    BY <1>1, <2>1, TurnsEffect DEF Others
  <2>3. Skipped(a)
    BY <1>3, <2>1, <2>2 DEF Swap, Skipped
  <2>4. QED
    BY <2>3 DEF Swap, Frame
<1>4. QED
  BY <1>2, <1>3

Released(a) ==
  /\ \/ page.claim = a /\ RowIs(page.at, page.version, page.old, "none", FALSE)
     \/ page' = page
  /\ archiver' \in Passes /\ archiver'[a].at = "idle" /\ Others(a)
  /\ faults' \in 0..MaxFaults /\ Frame

LEMMA ReleaseEffect ==
  ASSUME TypeOK, NEW a \in Archivers, Release(a)
  PROVE  Released(a)
<1>1. page \in PageType /\ archiver \in Passes
  BY DEF TypeOK, PageType, PassType, Passes
<1>2. (page.claim = a /\ page' = Unclaimed(page)) \/ page' = page
  BY DEF Release
<1>3. page' = Unclaimed(page) => RowIs(page.at, page.version, page.old, "none", FALSE)
  BY <1>1, UnclaimedRow DEF RowIs
<1>4. faults' \in 0..MaxFaults
  BY ArchiveAssumption DEF Release, TypeOK
<1>5. QED
  BY <1>1, <1>2, <1>3, <1>4, TurnsEffect DEF Release, Released, Others, Frame

LEMMA OverdueEffect ==
  ASSUME TypeOK, NEW a \in Archivers, SwapOverdue(a)
  PROVE  /\ RowIs(page.at, page.version, page.old, page.claim, FALSE)
         /\ page.claim = a /\ crashes' \in 0..MaxCrashes /\ Frame /\ archiver' = archiver
         /\ UNCHANGED <<imports, faults, importing>>
<1>1. page \in PageType
  BY DEF TypeOK, PageType
<1>2. QED
  BY <1>1, OverdueRow, ArchiveAssumption DEF SwapOverdue, RowIs, Frame, TypeOK

LEMMA ApplyWriteEffect ==
  ASSUME TypeOK, ApplyWrite
  PROVE  /\ newest' = newest + 1 /\ newest' \in Versions
         /\ RowIs("content", newest', window = "zero", page.claim, page.live)
         /\ reader' \in [at : {"idle", "fetching"}, during : SUBSET Versions]
         /\ reader'.at = reader.at
         /\ reader.at = "fetching" => reader'.during = reader.during \cup {newest'}
<1>1. page \in PageType /\ newest \in Versions /\ newest < MaxVersion
  BY DEF TypeOK, PageType, ApplyWrite
<1>2. newest' = newest + 1 /\ newest' \in Versions
  BY <1>1, ArchiveAssumption DEF ApplyWrite, Versions
<1>3. RowIs("content", newest', window = "zero", page.claim, page.live)
  BY <1>1, <1>2, WriteEffect DEF ApplyWrite, RowIs
<1>4. QED
  BY <1>2, <1>3 DEF ApplyWrite, Witnessed, TypeOK

LEMMA ApplyDeleteEffect ==
  ASSUME TypeOK, ApplyDelete
  PROVE  /\ newest' = newest
         /\ RowIs("none", 0, FALSE, "none", FALSE)
         /\ reader' \in [at : {"idle", "fetching"}, during : SUBSET Versions]
         /\ reader'.at = reader.at
         /\ reader.at = "fetching" => reader'.during = reader.during \cup {0}
<1>1. 0 \in Versions
  BY ArchiveAssumption DEF Versions
<1>2. NoPage \in PageType /\ NoPage.at = "none" /\ NoPage.version = 0
      /\ NoPage.old = FALSE /\ NoPage.claim = "none" /\ NoPage.live = FALSE
  BY <1>1 DEF NoPage, PageType
<1>3. RowIs("none", 0, FALSE, "none", FALSE)
  BY <1>2 DEF ApplyDelete, RowIs
<1>4. QED
  BY <1>1, <1>3 DEF ApplyDelete, Witnessed, TypeOK

LEMMA PrefetchEffect ==
  ASSUME TypeOK, Prefetch
  PROVE  /\ updater' \in [at : {"idle", "stamped", "ready"}, stamp : Versions, copy : Versions]
         /\ page.at = "archived" => updater'.at = "stamped" /\ updater'.stamp = page.version
         /\ page.at # "archived" => updater'.at = "ready" /\ updater'.stamp = 0
<1>1. 0 \in Versions /\ page.version \in Versions
  BY ArchiveAssumption DEF Versions, TypeOK
<1>2. NoUpdate \in [at : {"idle", "stamped", "ready"}, stamp : Versions, copy : Versions]
  BY <1>1 DEF NoUpdate
<1>3. QED
  BY <1>1, <1>2 DEF Prefetch

LEMMA TypeStep == TypeOK /\ [Next]_vars => TypeOK'
<1> SUFFICES ASSUME TypeOK, [Next]_vars PROVE TypeOK'
  OBVIOUS
<1> USE ArchiveAssumption DEF TypeOK, Versions
<1>1. CASE \E a \in Archivers : Claim(a)
  <2>1. PICK a \in Archivers : Claim(a)
    BY <1>1
  <2>2. Claimed(a)
    BY <2>1, ClaimEffect
  <2>3. UNCHANGED <<importing, imports, faults, crashes>>
    BY <2>1 DEF Claim, budget
  <2>4. QED
    BY <2>2, <2>3 DEF Claimed, ClaimFree, Frame, RowIs, PageType, Passes, PassType
<1>2. CASE \E a \in Archivers : Put(a)
  BY <1>2 DEF Put, Turns, Holds, Idle, budget
<1>3. CASE \E a \in Archivers : StorageFails(a)
  BY <1>3 DEF StorageFails, Turns, Holds, Idle, budget
<1>4. CASE \E a \in Archivers : ReadBack(a)
  BY <1>4 DEF ReadBack, Turns, Holds, Idle, budget
<1>5. CASE \E a \in Archivers : Swap(a)
  <2>1. PICK a \in Archivers : Swap(a)
    BY <1>5
  <2>2. Frame /\ Holds(a, "back") /\ (Swapped(a) \/ Skipped(a))
    BY <2>1, SwapEffect
  <2>3. UNCHANGED <<importing, imports, faults, crashes>>
    BY <2>1 DEF Swap, budget
  <2>4. QED
    BY <2>2, <2>3 DEF Swapped, Skipped, Unchanged, Frame, RowIs, PageType, Passes, PassType
<1>6. CASE \E a \in Archivers : SwapFails(a)
  BY <1>6 DEF SwapFails, Turns, Holds, Idle, budget
<1>7. CASE \E a \in Archivers : Release(a)
  <2>1. PICK a \in Archivers : Release(a)
    BY <1>7
  <2>2. Released(a)
    BY <2>1, ReleaseEffect
  <2>3. UNCHANGED <<importing, imports, crashes>>
    BY <2>1 DEF Release, budget
  <2>4. QED
    BY <2>2, <2>3 DEF Released, Frame, RowIs, PageType, Passes, PassType
<1>8. CASE \E a \in Archivers : Gone(a)
  BY <1>8 DEF Gone, Turns, Holds, Idle, budget, DeleteObject
<1>9. CASE \E a \in Archivers : Crash(a)
  BY <1>9 DEF Crash, Turns, Holds, Idle, budget
<1>10. CASE \E a \in Archivers : SwapOverdue(a)
  <2>1. PICK a \in Archivers : SwapOverdue(a)
    BY <1>10
  <2>2. QED
    BY <2>1, OverdueEffect DEF Frame, RowIs, PageType
<1>11. CASE LeaseRunsOut
  BY <1>11 DEF LeaseRunsOut, Turns, Holds, Idle, budget
<1>12. CASE Ages
  BY <1>12 DEF Ages, Turns, Holds, Idle, budget, AtRest
<1>13. CASE Write
  BY <1>13, ApplyWriteEffect DEF Write, budget, RowIs, PageType
<1>14. CASE ImportReads
  BY <1>14 DEF ImportReads, Turns, Holds, Idle, budget
<1>15. CASE ImportCommits
  BY <1>15, ApplyWriteEffect, ApplyDeleteEffect DEF ImportCommits, budget, RowIs, PageType
<1>16. CASE DeleteRun
  BY <1>16, ApplyDeleteEffect DEF DeleteRun, OwesCleaning, budget, RowIs, PageType
<1>17. CASE Clean
  BY <1>17 DEF Clean, Turns, Holds, Idle, budget, DeleteObject
<1>18. CASE ReadRow
  BY <1>18 DEF ReadRow, Turns, Holds, Idle, budget
<1>19. CASE FetchObject
  BY <1>19 DEF FetchObject, Turns, Holds, Idle, budget, NoRead
<1>20. CASE Prefetch
  BY <1>20, PrefetchEffect DEF Prefetch, budget
<1>21. CASE PrefetchObject
  BY <1>21 DEF PrefetchObject, Turns, Holds, Idle, budget
<1>22. CASE Update
  BY <1>22, ApplyWriteEffect DEF Update, NoUpdate, budget, RowIs, PageType
<1>23. CASE UNCHANGED vars
  BY <1>23 DEF vars, budget
<1>24. QED
  BY <1>1, <1>2, <1>3, <1>4, <1>5, <1>6, <1>7, <1>8, <1>9, <1>10, <1>11, <1>12, <1>13, <1>14,
     <1>15, <1>16, <1>17, <1>18, <1>19, <1>20, <1>21, <1>22, <1>23
     DEF Next, Archive, Failures

(* A new content is young, and no pass holds its version yet.              *)
LEMMA DaysWrite ==
  ASSUME TypeOK, VersionsGrow, ApplyWrite, archiver' = archiver, window = "days"
  PROVE  DaysInv'
<1>1. page'.at = "content" /\ page'.version = newest + 1 /\ page'.old = (window = "zero")
  BY ApplyWriteEffect DEF RowIs
<1>2. page'.old = FALSE
  BY <1>1
<1>3. ASSUME NEW a \in Archivers, (Uploads(a) \/ Holds(a, "back"))'
      PROVE  archiver'[a].version # page'.version
  <2>1. archiver[a].version \in Nat /\ newest \in Nat
    BY ArchiveAssumption DEF TypeOK, Versions
  <2>2. archiver[a].version <= newest
    BY <1>3 DEF VersionsGrow, Uploads, Holds
  <2>3. QED
    BY <1>1, <2>1, <2>2
<1>4. QED
  BY <1>1, <1>2, <1>3 DEF DaysInv

LEMMA SafeStep == TypeOK /\ Safe /\ [Next]_vars => Safe'
<1> SUFFICES ASSUME TypeOK, Safe, [Next]_vars PROVE Safe'
  OBVIOUS
<1> USE ArchiveAssumption DEF Versions
<1>1. CASE \E a \in Archivers : Claim(a)
  <2>1. PICK a \in Archivers : Claim(a)
    BY <1>1
  <2>2. Claimed(a)
    BY <2>1, ClaimEffect
  <2>3. VersionsGrow'
    BY <2>2 DEF Safe, Claimed, ClaimFree, Frame, Holds, RowIs, Others, TypeOK, VersionsGrow, Uploads
  <2>4. (window = "days" => DaysInv)'
    BY <2>2 DEF Safe, Claimed, ClaimFree, Frame, Holds, RowIs, Others, TypeOK, DaysInv, OldPage, Uploads,
      VersionsGrow
  <2>5. (window = "zero" /\ ~crossed => ZeroInv)'
    BY <2>2 DEF Safe, Claimed, ClaimFree, Frame, Holds, RowIs, Others, TypeOK, ZeroInv, Uploads
  <2>6. ReadInv'
    BY <2>2 DEF Safe, Claimed, ClaimFree, Frame, Holds, RowIs, Others, TypeOK, ReadInv, Exempt, Uploads, DaysInv, OldPage, ZeroInv
  <2>7. UpdateInv'
    BY <2>2 DEF Safe, Claimed, ClaimFree, Frame, Holds, RowIs, Others, TypeOK, UpdateInv, Exempt, VersionsGrow
  <2>8. QED
    BY <2>3, <2>4, <2>5, <2>6, <2>7 DEF Safe
<1>2. CASE \E a \in Archivers : Put(a)
  BY <1>2 DEF Put, Turns, Holds, Idle, budget, TypeOK, Safe, Versions, Exempt, Uploads, VersionsGrow, OldPage,
             DaysInv, ZeroInv, ReadInv, UpdateInv
<1>3. CASE \E a \in Archivers : StorageFails(a)
  BY <1>3 DEF StorageFails, Turns, Holds, Idle, budget, TypeOK, Safe, Versions, Exempt, Uploads, VersionsGrow, OldPage,
             DaysInv, ZeroInv, ReadInv, UpdateInv
<1>4. CASE \E a \in Archivers : ReadBack(a)
  BY <1>4 DEF ReadBack, Turns, Holds, Idle, budget, TypeOK, Safe, Versions, Exempt, Uploads, VersionsGrow, OldPage,
             DaysInv, ZeroInv, ReadInv, UpdateInv
<1>5. CASE \E a \in Archivers : Swap(a)
  <2>1. PICK a \in Archivers : Swap(a)
    BY <1>5
  <2>2. Frame /\ Holds(a, "back") /\ (Swapped(a) \/ Skipped(a))
    BY <2>1, SwapEffect
  <2>3. VersionsGrow'
    BY <2>2 DEF Safe, Swapped, Skipped, Unchanged, Frame, Holds, RowIs, Others, TypeOK, VersionsGrow, Uploads
  <2>4. (window = "days" => DaysInv)'
    <3>1. CASE Swapped(a)
      BY <2>2, <3>1 DEF Safe, Swapped, Unchanged, Frame, Holds, RowIs, Others, TypeOK, DaysInv,
                        OldPage, Uploads
    <3>2. CASE Skipped(a)
      BY <2>2, <3>2 DEF Safe, Skipped, Frame, Holds, Others, TypeOK, DaysInv, OldPage, Uploads,
                        VersionsGrow
    <3>3. QED
      BY <2>2, <3>1, <3>2
  <2>5. (window = "zero" /\ ~crossed => ZeroInv)'
    <3>1. CASE Swapped(a)
      BY <2>2, <3>1 DEF Safe, Swapped, Unchanged, Frame, Holds, RowIs, Others, TypeOK, ZeroInv,
                        Uploads
    <3>2. CASE Skipped(a)
      BY <2>2, <3>2 DEF Safe, Skipped, Frame, Holds, Others, TypeOK, ZeroInv, Uploads
    <3>3. QED
      BY <2>2, <3>1, <3>2
  <2>6. ReadInv'
    BY <2>2 DEF Safe, Swapped, Skipped, Unchanged, Frame, Holds, RowIs, Others, TypeOK, ReadInv, Exempt, Uploads, DaysInv, OldPage, ZeroInv
  <2>7. UpdateInv'
    BY <2>2 DEF Safe, Swapped, Skipped, Unchanged, Frame, Holds, RowIs, Others, TypeOK, UpdateInv, Exempt, VersionsGrow
  <2>8. QED
    BY <2>3, <2>4, <2>5, <2>6, <2>7 DEF Safe
<1>6. CASE \E a \in Archivers : SwapFails(a)
  BY <1>6 DEF SwapFails, Turns, Holds, Idle, budget, TypeOK, Safe, Versions, Exempt, Uploads, VersionsGrow, OldPage,
             DaysInv, ZeroInv, ReadInv, UpdateInv
<1>7. CASE \E a \in Archivers : Release(a)
  <2>1. PICK a \in Archivers : Release(a)
    BY <1>7
  <2>2. Released(a)
    BY <2>1, ReleaseEffect
  <2>3. VersionsGrow'
    BY <2>2 DEF Safe, Released, Frame, Holds, RowIs, Others, TypeOK, VersionsGrow, Uploads
  <2>4. (window = "days" => DaysInv)'
    BY <2>2 DEF Safe, Released, Frame, Holds, RowIs, Others, TypeOK, DaysInv, OldPage, Uploads,
      VersionsGrow
  <2>5. (window = "zero" /\ ~crossed => ZeroInv)'
    BY <2>2 DEF Safe, Released, Frame, Holds, RowIs, Others, TypeOK, ZeroInv, Uploads
  <2>6. ReadInv'
    BY <2>2 DEF Safe, Released, Frame, Holds, RowIs, Others, TypeOK, ReadInv, Exempt, Uploads, DaysInv, OldPage, ZeroInv
  <2>7. UpdateInv'
    BY <2>2 DEF Safe, Released, Frame, Holds, RowIs, Others, TypeOK, UpdateInv, Exempt, VersionsGrow
  <2>8. QED
    BY <2>3, <2>4, <2>5, <2>6, <2>7 DEF Safe
<1>8. CASE \E a \in Archivers : Gone(a)
  BY <1>8 DEF Gone, Turns, Holds, Idle, budget, DeleteObject, TypeOK, Safe, Versions, Exempt, Uploads, VersionsGrow, OldPage,
             DaysInv, ZeroInv, ReadInv, UpdateInv
<1>9. CASE \E a \in Archivers : Crash(a)
  BY <1>9 DEF Crash, Turns, Holds, Idle, budget, TypeOK, Safe, Versions, Exempt, Uploads, VersionsGrow, OldPage,
             DaysInv, ZeroInv, ReadInv, UpdateInv
<1>10. CASE \E a \in Archivers : SwapOverdue(a)
  BY <1>10 DEF SwapOverdue, Turns, Holds, Idle, budget, TypeOK, Safe, Versions, Exempt, Uploads, VersionsGrow, OldPage,
             DaysInv, ZeroInv, ReadInv, UpdateInv
<1>11. CASE LeaseRunsOut
  BY <1>11 DEF LeaseRunsOut, Turns, Holds, Idle, budget, TypeOK, Safe, Versions, Exempt, Uploads, VersionsGrow, OldPage,
             DaysInv, ZeroInv, ReadInv, UpdateInv
<1>12. CASE Ages
  BY <1>12 DEF Ages, Turns, Holds, Idle, budget, AtRest, TypeOK, Safe, Versions, Exempt, Uploads, VersionsGrow, OldPage,
             DaysInv, ZeroInv, ReadInv, UpdateInv
<1>13. CASE Write
  <2>2. VersionsGrow'
    BY <1>13, ApplyWriteEffect DEF Safe, Write, Holds, RowIs, Others, TypeOK, VersionsGrow, Uploads
  <2>3. (window = "days" => DaysInv)'
    BY <1>13, DaysWrite DEF Safe, Write
  <2>4. (window = "zero" /\ ~crossed => ZeroInv)'
    BY <1>13, ApplyWriteEffect DEF Safe, Write, Holds, RowIs, Others, TypeOK, ZeroInv, Uploads
  <2>5. ReadInv'
    BY <1>13, ApplyWriteEffect DEF Safe, Write, Holds, RowIs, Others, TypeOK, ReadInv, Exempt, Uploads, DaysInv, OldPage, ZeroInv
  <2>6. UpdateInv'
    BY <1>13, ApplyWriteEffect DEF Safe, Write, Holds, RowIs, Others, TypeOK, UpdateInv, Exempt, VersionsGrow
  <2>7. QED
    BY <2>2, <2>3, <2>4, <2>5, <2>6 DEF Safe
<1>14. CASE ImportReads
  BY <1>14 DEF ImportReads, Turns, Holds, Idle, budget, TypeOK, Safe, Versions, Exempt, Uploads, VersionsGrow, OldPage,
             DaysInv, ZeroInv, ReadInv, UpdateInv
<1>15. CASE ImportCommits
  <2>1. \/ alive /\ ApplyWrite /\ alive' = alive
        \/ alive /\ ApplyDelete
        \/ ~alive /\ UNCHANGED <<page, newest, reader, alive>>
    BY <1>15 DEF ImportCommits
  <2>2. /\ crossed' = (crossed \/ importing.archived \/ \E a \in Archivers : ~Holds(a, "idle"))
        /\ cleaning' = (IF importing.archived THEN cleaning \cup {"import"} ELSE cleaning)
        /\ UNCHANGED <<object, archiver, updater, window>>
    BY <1>15 DEF ImportCommits
  <2>3. VersionsGrow'
    <3>1. CASE ApplyWrite
      BY <2>2, <3>1, ApplyWriteEffect DEF Safe, RowIs, TypeOK, VersionsGrow, Uploads, Holds
    <3>2. CASE ApplyDelete
      <4>1. page'.version = 0 /\ page'.at = "none" /\ newest' = newest
        BY <3>2, ApplyDeleteEffect DEF RowIs
      <4>2. newest \in Nat
        BY DEF TypeOK
      <4>3. QED
        BY <2>2, <4>1, <4>2 DEF Safe, VersionsGrow, Uploads, Holds
    <3>3. CASE UNCHANGED <<page, newest, reader, alive>>
      BY <2>2, <3>3 DEF Safe, TypeOK, VersionsGrow, Uploads, Holds
    <3>4. QED
      BY <2>1, <3>1, <3>2, <3>3
  <2>4. (window = "days" => DaysInv)'
    <3>1. CASE ApplyWrite
      BY <2>2, <3>1, DaysWrite DEF Safe
    <3>2. CASE ApplyDelete
      BY <2>2, <3>2, ApplyDeleteEffect DEF RowIs, DaysInv
    <3>3. CASE UNCHANGED page /\ ~alive
      BY <2>2, <3>3 DEF Safe, TypeOK, Holds, DaysInv
    <3>4. QED
      BY <2>1, <3>1, <3>2, <3>3
  <2>5. (window = "zero" /\ ~crossed => ZeroInv)'
    BY <2>1, <2>2, ApplyWriteEffect, ApplyDeleteEffect DEF Safe, Holds, RowIs, Others, TypeOK, ZeroInv, Uploads
  <2>6. ReadInv'
    BY <2>1, <2>2, ApplyWriteEffect, ApplyDeleteEffect DEF Safe, Holds, RowIs, Others, TypeOK, ReadInv, Exempt, Uploads, DaysInv, OldPage, ZeroInv
  <2>7. UpdateInv'
    <3>1. CASE ApplyWrite
      BY <2>2, <3>1, ApplyWriteEffect DEF Safe, RowIs, TypeOK, UpdateInv, Exempt, VersionsGrow
    <3>2. CASE ApplyDelete
      BY <2>2, <3>2, ApplyDeleteEffect DEF Safe, RowIs, TypeOK, UpdateInv, Exempt, VersionsGrow
    <3>3. CASE UNCHANGED <<page, newest, reader, alive>>
      BY <2>2, <3>3 DEF Safe, TypeOK, UpdateInv, Exempt, VersionsGrow
    <3>4. QED
      BY <2>1, <3>1, <3>2, <3>3
  <2>8. QED
    BY <2>3, <2>4, <2>5, <2>6, <2>7 DEF Safe
<1>16. CASE DeleteRun
  BY <1>16 DEF DeleteRun, Turns, Holds, Idle, budget, ApplyDelete, Witnessed, NoPage, OwesCleaning, TypeOK, Safe, Versions, Exempt, Uploads, VersionsGrow, OldPage,
             DaysInv, ZeroInv, ReadInv, UpdateInv
<1>17. CASE Clean
  BY <1>17 DEF Clean, Turns, Holds, Idle, budget, DeleteObject, TypeOK, Safe, Versions, Exempt, Uploads, VersionsGrow, OldPage,
             DaysInv, ZeroInv, ReadInv, UpdateInv
<1>18. CASE ReadRow
  BY <1>18 DEF ReadRow, Turns, Holds, Idle, budget, TypeOK, Safe, Versions, Exempt, Uploads, VersionsGrow, OldPage,
             DaysInv, ZeroInv, ReadInv, UpdateInv
<1>19. CASE FetchObject
  BY <1>19 DEF FetchObject, Turns, Holds, Idle, budget, NoRead, TypeOK, Safe, Versions, Exempt, Uploads, VersionsGrow, OldPage,
             DaysInv, ZeroInv, ReadInv, UpdateInv
<1>20. CASE Prefetch
  BY <1>20 DEF Prefetch, Turns, Holds, Idle, budget, NoUpdate, TypeOK, Safe, Versions, Exempt, Uploads, VersionsGrow, OldPage,
             DaysInv, ZeroInv, ReadInv, UpdateInv
<1>21. CASE PrefetchObject
  BY <1>21 DEF PrefetchObject, Turns, Holds, Idle, budget, TypeOK, Safe, Versions, Exempt, Uploads, VersionsGrow, OldPage,
             DaysInv, ZeroInv, ReadInv, UpdateInv
<1>22. CASE Update
  <2>2. VersionsGrow'
    BY <1>22, ApplyWriteEffect DEF Safe, Update, NoUpdate, Holds, RowIs, Others, TypeOK, VersionsGrow, Uploads
  <2>3. (window = "days" => DaysInv)'
    <3>1. CASE ApplyWrite
      BY <1>22, <3>1, DaysWrite DEF Safe, Update
    <3>2. CASE UNCHANGED page
      BY <1>22, <3>2 DEF Safe, Update, Holds, DaysInv, OldPage, Uploads
    <3>3. QED
      BY <1>22, <3>1, <3>2 DEF Update
  <2>4. (window = "zero" /\ ~crossed => ZeroInv)'
    BY <1>22, ApplyWriteEffect DEF Safe, Update, NoUpdate, Holds, RowIs, Others, TypeOK, ZeroInv, Uploads
  <2>5. ReadInv'
    BY <1>22, ApplyWriteEffect DEF Safe, Update, NoUpdate, Holds, RowIs, Others, TypeOK, ReadInv, Exempt, Uploads, DaysInv, OldPage, ZeroInv
  <2>6. UpdateInv'
    BY <1>22, ApplyWriteEffect DEF Safe, Update, NoUpdate, Holds, RowIs, Others, TypeOK, UpdateInv, Exempt, VersionsGrow
  <2>7. QED
    BY <2>2, <2>3, <2>4, <2>5, <2>6 DEF Safe
<1>23. CASE UNCHANGED vars
  BY <1>23 DEF vars, budget, Holds, TypeOK, Safe, Exempt, Uploads, VersionsGrow,
             OldPage, DaysInv, ZeroInv, ReadInv, UpdateInv
<1>24. QED
  BY <1>1, <1>2, <1>3, <1>4, <1>5, <1>6, <1>7, <1>8, <1>9, <1>10, <1>11, <1>12, <1>13, <1>14,
     <1>15, <1>16, <1>17, <1>18, <1>19, <1>20, <1>21, <1>22, <1>23
     DEF Next, Archive, Failures
-----------------------------------------------------------------------------
(* The results.                                                            *)

LEMMA InitSafe == Init => TypeOK /\ Safe
<1> SUFFICES ASSUME Init PROVE TypeOK /\ Safe
  OBVIOUS
<1> USE ArchiveAssumption DEF Versions
<1>0. 0 \in Versions /\ 1 \in Versions /\ 0 \in 0..MaxImports /\ 0 \in 0..MaxFaults
      /\ 0 \in 0..MaxCrashes /\ NoPage \in PageType
  BY DEF NoPage, PageType
<1>1. /\ page \in PageType /\ page.at = "content" /\ page.version = 1 /\ page.old = TRUE
      /\ page.claim = "none" /\ page.live = FALSE
  BY <1>0 DEF Init, NoPage, PageType
<1>2. Idle \in PassType /\ \A a \in Archivers : archiver[a].at = "idle"
  BY DEF Init, Idle, PassType
<1>3. TypeOK
  BY <1>0, <1>1, <1>2 DEF Init, TypeOK, PageType, PassType, NoRead, NoUpdate
<1>4. VersionsGrow
  BY <1>1, <1>2 DEF Init, VersionsGrow, NoUpdate, Uploads, Holds
<1>5. DaysInv /\ ZeroInv
  BY <1>1, <1>2 DEF Init, DaysInv, OldPage, ZeroInv, Uploads, Holds
<1>6. ReadInv /\ UpdateInv
  BY DEF Init, ReadInv, UpdateInv, NoRead, NoUpdate
<1>7. QED
  BY <1>3, <1>4, <1>5, <1>6 DEF Safe

LEMMA SafeAlways == Spec => [](TypeOK /\ Safe)
<1>1. TypeOK /\ Safe /\ [Next]_vars => (TypeOK /\ Safe)'
  BY TypeStep, SafeStep
<1>2. QED
  BY <1>1, InitSafe, PTL DEF Spec

(* Every variable has its type, and the row keeps its constraints.         *)
THEOREM TypeCorrect == Spec => []TypeOK
BY SafeAlways, PTL

(* archiveOne, applyHeavy, deleteArchivedFor: whatever passes, writers,    *)
(* imports and deletions do, an archived row's object is its content.      *)
THEOREM ArchivedAlwaysReadable == Spec => []ArchivedReadable
<1>1. TypeOK /\ Safe => ArchivedReadable
  BY ArchiveAssumption DEF TypeOK, Safe, DaysInv, ZeroInv, ArchivedReadable
<1>2. QED
  BY <1>1, SafeAlways, PTL

(* getRecreatedPage: what the object yields was current during the read.   *)
THEOREM ReadsStayCurrent == Spec => ReadsCurrent
<1>1. TypeOK /\ Safe =>
        (reader.at = "fetching" /\ reader'.at = "idle" =>
           object \in reader.during \cup {0} \/ (window = "zero" /\ crossed))
  BY DEF Safe, ReadInv, Exempt
<1>2. QED
  BY <1>1, SafeAlways, PTL DEF ReadsCurrent

(* updateCompetitorWith: the copy prefetched before the lock is used only  *)
(* where it is the content of the locked row.                              *)
THEOREM UpdatesStayCurrent == Spec => UpdatesCurrent
<1>1. TypeOK /\ Safe /\ updater.at = "ready" =>
        ContentRead = page.version \/ (window = "zero" /\ crossed)
  <2> SUFFICES ASSUME TypeOK, Safe, updater.at = "ready", ~Exempt
               PROVE  ContentRead = page.version
    BY DEF Exempt
  <2>1. CASE page.at # "archived"
    BY <2>1 DEF ContentRead
  <2>2. CASE page.at = "archived"
    <3>1. object = page.version
      BY <2>2, ArchiveAssumption DEF TypeOK, Safe, DaysInv, ZeroInv, Exempt
    <3>2. page.version # 0
      BY <2>2 DEF Safe, VersionsGrow
    <3>3. StampMatches(page) => updater.copy = page.version
      BY <3>2 DEF StampMatches, Safe, UpdateInv
    <3>4. QED
      BY <2>2, <3>1, <3>3 DEF ContentRead
  <2>3. QED
    BY <2>1, <2>2
<1>2. QED
  BY <1>1, SafeAlways, PTL DEF UpdatesCurrent

-----------------------------------------------------------------------------
(* What a deleted run leaves behind.                                       *)

(* No import began, no request or transaction failed, no process died.     *)
Undisturbed == imports = 0 /\ faults = 0 /\ crashes = 0

(* A pass that will see its own bytes in the object and no row for them.   *)
WillDelete(a) ==
  \/ Holds(a, "put") /\ archiver[a].version = object
  \/ Holds(a, "back")
  \/ Holds(a, "gone")

(* Somebody still owes the deletion of a deleted page's object: the call   *)
(* made after the commit, or the last pass that uploaded.                  *)
Owed ==
  object # 0 => "delete" \in cleaning \/ \E a \in Archivers : WillDelete(a)

Accounted ==
  Undisturbed =>
    /\ importing.at = "idle"
    /\ alive => page.at # "none"
    /\ ~alive => Owed

(* What a step of one pass does, as far as what is left behind goes.       *)
Steps(a, at) ==
  /\ archiver' \in Passes /\ archiver'[a].at = at
  /\ at # "idle" => archiver'[a].version = archiver[a].version
  /\ Others(a)

LEMMA AccountedStep == TypeOK /\ Accounted /\ [Next]_vars => Accounted'
<1> SUFFICES ASSUME TypeOK, Accounted, [Next]_vars, Undisturbed'
             PROVE  (/\ importing.at = "idle"
                     /\ alive => page.at # "none"
                     /\ ~alive => Owed)'
  BY DEF Accounted
<1>0. /\ archiver \in Passes /\ alive \in BOOLEAN
      /\ imports \in Nat /\ faults \in Nat /\ crashes \in Nat
      /\ ~alive => page.at = "none"
  BY ArchiveAssumption DEF TypeOK, Passes, PassType
<1> USE DEF Undisturbed, Accounted
<1>1. CASE \E a \in Archivers : Claim(a)
  <2>1. PICK a \in Archivers : Claim(a)
    BY <1>1
  <2>2. Claimed(a) /\ UNCHANGED <<importing, imports, faults, crashes>>
    BY <2>1, ClaimEffect DEF Claim, budget
  <2>3. alive
    BY <1>0, <2>2 DEF Claimed
  <2>4. QED
    BY <2>2, <2>3 DEF Claimed, RowIs, Frame
<1>2. CASE \E a \in Archivers : Put(a)
  <2>1. PICK a \in Archivers : Put(a)
    BY <1>2
  <2>2. Steps(a, "put") /\ object' = archiver[a].version
    BY <1>0, <2>1, TurnsEffect DEF Put, Steps, Others
  <2>3. WillDelete(a)'
    BY <2>2 DEF Steps, WillDelete, Holds
  <2>4. QED
    BY <2>1, <2>3 DEF Put, budget, Owed
<1>3. CASE \E a \in Archivers : StorageFails(a)
  BY <1>0, <1>3 DEF StorageFails
<1>4. CASE \E a \in Archivers : ReadBack(a)
  <2>1. PICK a \in Archivers : ReadBack(a)
    BY <1>4
  <2>2. PICK at \in {"back", "releasing"} :
          Turns(a, at) /\ (archiver[a].version = object => at = "back")
    BY <2>1 DEF ReadBack
  <2>3. Steps(a, at) /\ object' = object /\ cleaning' = cleaning
    BY <1>0, <2>1, <2>2, TurnsEffect DEF ReadBack, Steps, Others
  <2>4. \A b \in Archivers : WillDelete(b) => WillDelete(b)'
    BY <2>1, <2>2, <2>3 DEF Steps, Others, WillDelete, Holds, ReadBack
  <2>5. QED
    BY <2>1, <2>3, <2>4 DEF ReadBack, budget, Owed
<1>5. CASE \E a \in Archivers : Swap(a)
  <2>1. PICK a \in Archivers : Swap(a)
    BY <1>5
  <2>2. Frame /\ Holds(a, "back") /\ (Swapped(a) \/ Skipped(a))
    BY <2>1, SwapEffect
  <2>3. UNCHANGED <<importing, imports, faults, crashes>>
    BY <2>1 DEF Swap, budget
  <2>4. CASE Swapped(a)
    <3>1. alive
      BY <1>0, <2>4 DEF Swapped, Unchanged
    <3>2. QED
      BY <2>2, <2>3, <2>4, <3>1 DEF Swapped, RowIs, Frame
  <2>5. CASE Skipped(a)
    <3>1. ~alive => archiver'[a].at = "gone"
      BY <1>0, <2>1, <2>5, TurnsEffect DEF Swap
    <3>2. ~alive => WillDelete(a)'
      BY <3>1 DEF WillDelete, Holds
    <3>3. QED
      BY <2>2, <2>3, <2>5, <3>2 DEF Skipped, Frame, Owed
  <2>6. QED
    BY <2>2, <2>4, <2>5
<1>6. CASE \E a \in Archivers : SwapFails(a)
  BY <1>0, <1>6 DEF SwapFails
<1>7. CASE \E a \in Archivers : Release(a)
  <2>1. PICK a \in Archivers : Release(a)
    BY <1>7
  <2>2. Released(a) /\ UNCHANGED <<importing, imports, crashes>> /\ Holds(a, "releasing")
    BY <2>1, ReleaseEffect DEF Release
  <2>3. faults = 0 /\ page'.at = page.at
    BY <1>0, <2>1, <2>2 DEF Release, Released, RowIs
  <2>4. \A b \in Archivers : WillDelete(b) => WillDelete(b)'
    BY <2>2 DEF Released, Others, WillDelete, Holds, Frame
  <2>5. QED
    BY <2>2, <2>3, <2>4 DEF Released, Frame, Owed
<1>8. CASE \E a \in Archivers : Gone(a)
  <2>1. PICK a \in Archivers : Gone(a)
    BY <1>8
  <2>2. object' = 0
    BY <1>0, <2>1 DEF Gone, DeleteObject
  <2>3. faults' = faults
    BY <1>0, <2>1 DEF Gone, DeleteObject
  <2>4. QED
    BY <2>1, <2>2, <2>3 DEF Gone, Owed
<1>9. CASE \E a \in Archivers : Crash(a)
  BY <1>0, <1>9 DEF Crash
<1>10. CASE \E a \in Archivers : SwapOverdue(a)
  BY <1>0, <1>10 DEF SwapOverdue
<1>11. CASE LeaseRunsOut
  <2>1. page'.at = page.at
    BY <1>11, OverdueRow DEF LeaseRunsOut, TypeOK, PageType
  <2>2. \A b \in Archivers : WillDelete(b) <=> WillDelete(b)'
    BY <1>11 DEF LeaseRunsOut, WillDelete, Holds
  <2>3. QED
    BY <1>11, <2>1, <2>2 DEF LeaseRunsOut, budget, Owed
<1>12. CASE Ages
  <2>1. alive /\ page'.at = page.at /\ alive' = alive
    BY <1>0, <1>12 DEF Ages, TypeOK
  <2>2. QED
    BY <1>0, <1>12, <2>1 DEF Ages, budget
<1>13. CASE Write
  BY <1>13, ApplyWriteEffect DEF Write, RowIs, budget
<1>14. CASE ImportReads
  BY <1>0, <1>14 DEF ImportReads
<1>15. CASE ImportCommits
  BY <1>0, <1>15 DEF ImportCommits, budget
<1>16. CASE DeleteRun
  <2>1. "delete" \in cleaning'
    BY <1>16 DEF DeleteRun, OwesCleaning, budget
  <2>2. QED
    BY <1>16, <2>1 DEF DeleteRun, budget, Owed
<1>17. CASE Clean
  <2>1. object' = 0 /\ faults' = faults
    BY <1>0, <1>17 DEF Clean, DeleteObject
  <2>2. QED
    BY <1>17, <2>1 DEF Clean, Owed
<1>18. CASE ReadRow
  <2>1. \A b \in Archivers : WillDelete(b) <=> WillDelete(b)'
    BY <1>18 DEF ReadRow, WillDelete, Holds
  <2>2. QED
    BY <1>18, <2>1 DEF ReadRow, budget, Owed
<1>19. CASE FetchObject
  <2>1. \A b \in Archivers : WillDelete(b) <=> WillDelete(b)'
    BY <1>19 DEF FetchObject, WillDelete, Holds
  <2>2. QED
    BY <1>19, <2>1 DEF FetchObject, budget, Owed
<1>20. CASE Prefetch
  <2>1. \A b \in Archivers : WillDelete(b) <=> WillDelete(b)'
    BY <1>20 DEF Prefetch, WillDelete, Holds
  <2>2. QED
    BY <1>20, <2>1 DEF Prefetch, budget, Owed
<1>21. CASE PrefetchObject
  <2>1. \A b \in Archivers : WillDelete(b) <=> WillDelete(b)'
    BY <1>21 DEF PrefetchObject, WillDelete, Holds
  <2>2. QED
    BY <1>21, <2>1 DEF PrefetchObject, budget, Owed
<1>22. CASE Update
  <2>1. \A b \in Archivers : WillDelete(b) <=> WillDelete(b)'
    BY <1>22 DEF Update, WillDelete, Holds
  <2>2. page' = page \/ page'.at = "content"
    BY <1>22, ApplyWriteEffect DEF Update, RowIs
  <2>3. QED
    BY <1>22, <2>1, <2>2 DEF Update, budget, Owed
<1>23. CASE UNCHANGED vars
  <2>1. \A b \in Archivers : WillDelete(b) <=> WillDelete(b)'
    BY <1>23 DEF vars, WillDelete, Holds
  <2>2. QED
    BY <1>23, <2>1 DEF vars, budget, Owed
<1>24. QED
  BY <1>1, <1>2, <1>3, <1>4, <1>5, <1>6, <1>7, <1>8, <1>9, <1>10, <1>11, <1>12, <1>13, <1>14,
     <1>15, <1>16, <1>17, <1>18, <1>19, <1>20, <1>21, <1>22, <1>23
     DEF Next, Archive, Failures

LEMMA InitAccounted == Init => Accounted
BY DEF Init, Accounted, Idle, NoPage

(* deleteHistoryRun, clearAllHistory and archiveOne: once the calls have   *)
(* ended, the deleted run's object is gone too, unless an import, a        *)
(* failure or a crash came between.                                        *)
THEOREM DeletedPagesLeaveNothing == Spec => []NothingLeftBehind
<1>1. TypeOK /\ Accounted => NothingLeftBehind
  <2> SUFFICES ASSUME TypeOK, Accounted, ~alive, AtRest, imports + faults + crashes <= 0
               PROVE  object = 0
    BY ArchiveAssumption DEF NothingLeftBehind, TypeOK
  <2>1. imports \in Nat /\ faults \in Nat /\ crashes \in Nat
    BY ArchiveAssumption DEF TypeOK
  <2>2. Undisturbed
    BY <2>1 DEF Undisturbed
  <2>3. \A a \in Archivers : ~WillDelete(a)
    BY DEF AtRest, WillDelete, Holds
  <2>4. QED
    BY <2>2, <2>3 DEF Accounted, Owed, AtRest
<1>2. TypeOK /\ Accounted /\ [Next]_vars => (TypeOK /\ Accounted)'
  BY TypeStep, AccountedStep
<1>3. QED
  BY <1>1, <1>2, InitSafe, InitAccounted, PTL DEF Spec

-----------------------------------------------------------------------------
(* The accounts.                                                           *)

(* What a request carries to its transaction, once it has read its target: *)
(* a deletion is guarded, and so is a change that could take an active     *)
(* administrator away; an organisation's admin moves nobody; a creation    *)
(* names a role and an organisation.                                       *)
Carried(q) ==
  /\ q.at = "idle" => q.op = "none"
  /\ q.op = "delete" => q.guarded
  /\ q.op = "update" /\ ~q.guarded => q.patch.role # "user" /\ q.patch.status # "suspended"
  /\ q.op = "update" /\ q.actorOrg # NoOrg => q.patch.org = "keep"
  /\ q.op = "create" => q.patch.role \in Roles /\ q.patch.org \in Orgs \cup {NoOrg}

(* A target has been seen, and a row stays.                                *)
Aimed(q) == q.op \in {"update", "delete"} => users[q.target].status # "absent"

Founded(q) == q.at = "done" /\ q.op \in {"promote", "found"}

RequestsSafe ==
  /\ \A r \in Requests : Carried(request[r]) /\ Aimed(request[r])
  /\ (\E r \in Requests : Founded(request[r])) => ActiveAdmins # {}
  /\ BootstrapOnce

-----------------------------------------------------------------------------
(* Steps that leave the accounts alone.                                    *)

(* Request r goes on without writing a row.                                *)
Moves(r) ==
  /\ users' = users
  /\ \E next \in Request :
       /\ request' = [request EXCEPT ![r] = next]
       /\ Carried(next) /\ Aimed(next) /\ next.at # "done"

LEMMA Asked ==
  ASSUME AccountsTypeOK, NEW r \in Requests
  PROVE  request[r] \in Request
BY DEF AccountsTypeOK

LEMMA RowType ==
  ASSUME AccountsTypeOK, NEW u \in Users
  PROVE  /\ users[u] \in Row
         /\ users[u].status = "absent" => users[u] = Blank
BY DEF AccountsTypeOK

LEMMA BeginMoves ==
  ASSUME AccountsTypeOK, RequestsSafe, NEW r \in Requests, NEW u \in Users, Begin(r, u)
  PROVE  Moves(r)
<1>1. request[r] \in Request /\ users[u] \in Row /\ Carried(request[r])
  BY Asked, RowType DEF RequestsSafe
<1> DEFINE next == [request[r] EXCEPT !.at = "begun", !.actor = u, !.actorOrg = users[u].org]
<1>2. next \in Request
  BY <1>1 DEF Request, Row
<1>3. next.at = "begun" /\ next.op = request[r].op /\ next.patch = request[r].patch
  BY <1>1 DEF Request
<1>4. QED
  BY <1>1, <1>2, <1>3 DEF Begin, Goes, Moves, Carried, Aimed

LEMMA EffectivePatch ==
  ASSUME NEW patch \in Patch, NEW row \in Row
  PROVE  Effective(patch, row) \in Patch
BY DEF Effective, Changes, Patch

LEMMA UpdateMoves ==
  ASSUME AccountsTypeOK, RequestsSafe, NEW r \in Requests, NEW u \in Users, NEW patch \in Patches,
         ReadForUpdate(r, u, patch)
  PROVE  Moves(r)
<1> DEFINE q == request[r]
           eff == Effective(patch, users[u])
           guard == NeedsGuard(eff, users[u])
           next == [q EXCEPT !.at = IF guard THEN "checking" ELSE "ready", !.op = "update",
                             !.target = u, !.seen = users[u], !.patch = eff, !.guarded = guard]
<1>1. q \in Request /\ users[u] \in Row
  BY Asked, RowType
<1>2. eff \in Patch
  BY <1>1, EffectivePatch, AccountsAssumption
<1>3. guard \in BOOLEAN
  BY DEF NeedsGuard
<1>4. next \in Request
  <2>1. (IF guard THEN "checking" ELSE "ready") \in {"checking", "ready"}
    OBVIOUS
  <2> HIDE DEF eff, guard
  <2>2. QED
    BY <1>1, <1>2, <1>3, <2>1 DEF Request
<1>5. next.at \in {"checking", "ready"} /\ next.op = "update" /\ next.patch = eff
      /\ next.guarded = guard /\ next.actorOrg = q.actorOrg /\ next.target = u
  BY <1>1 DEF Request
<1>6. Carried(next) /\ Aimed(next)
  <2>1. eff.org # "keep" => q.actorOrg = NoOrg
    BY DEF ReadForUpdate
  <2>2. ~guard => eff.role # "user" /\ eff.status # "suspended"
    BY DEF NeedsGuard
  <2>4. users[u].status # "absent"
    BY DEF ReadForUpdate
  <2> HIDE DEF eff, guard, next
  <2>3. QED
    BY <1>5, <2>1, <2>2, <2>4 DEF Carried, Aimed
<1>7. request' = [request EXCEPT ![r] = next] /\ users' = users
  BY DEF ReadForUpdate, Goes
<1> HIDE DEF next
<1>8. QED
  BY <1>4, <1>5, <1>6, <1>7 DEF Moves

LEMMA DeleteMoves ==
  ASSUME AccountsTypeOK, RequestsSafe, NEW r \in Requests, NEW u \in Users, ReadForDelete(r, u)
  PROVE  Moves(r)
<1> DEFINE q == request[r]
           next == [q EXCEPT !.at = "checking", !.op = "delete", !.target = u, !.seen = users[u],
                             !.guarded = TRUE]
<1>1. q \in Request /\ users[u] \in Row
  BY Asked, RowType
<1>2. next \in Request /\ next.at = "checking" /\ next.op = "delete" /\ next.guarded = TRUE
      /\ next.target = u
  BY <1>1 DEF Request
<1>3. QED
  BY <1>2 DEF ReadForDelete, Goes, Moves, Carried, Aimed

LEMMA AnswerMoves ==
  ASSUME AccountsTypeOK, RequestsSafe, NEW r \in Requests, EarlyAnswer(r)
  PROVE  Moves(r)
<1> DEFINE q == request[r]
           at == IF LastAdmin(q.seen, q.actorOrg) THEN "refused" ELSE "ready"
           next == [q EXCEPT !.at = at]
<1>1. q \in Request /\ Carried(q) /\ Aimed(q)
  BY Asked DEF RequestsSafe
<1>2. at \in {"refused", "ready"}
  OBVIOUS
<1>3. request' = [request EXCEPT ![r] = next] /\ users' = users
  BY DEF EarlyAnswer, Goes
<1> HIDE DEF at
<1>4. /\ next \in Request /\ next.at = at /\ next.op = q.op /\ next.guarded = q.guarded
      /\ next.patch = q.patch /\ next.actorOrg = q.actorOrg /\ next.target = q.target
  BY <1>1, <1>2 DEF Request
<1>5. QED
  BY <1>1, <1>2, <1>3, <1>4 DEF Moves, Carried, Aimed

LEMMA CreateMoves ==
  ASSUME AccountsTypeOK, RequestsSafe, NEW r \in Requests, NEW u \in Users, NEW role \in Roles,
         NEW org \in Orgs \cup {NoOrg}, ReadForCreate(r, u, role, org)
  PROVE  Moves(r)
<1> DEFINE q == request[r]
           patch == [role |-> role, status |-> "active", org |-> org]
           next == [q EXCEPT !.at = "ready", !.op = "create", !.target = u, !.patch = patch]
<1>1. q \in Request /\ patch \in Patch
  BY Asked DEF Patch
<1>2. next \in Request /\ next.at = "ready" /\ next.op = "create" /\ next.patch = patch
  BY <1>1 DEF Request
<1>3. request' = [request EXCEPT ![r] = next] /\ users' = users
  BY DEF ReadForCreate, Goes
<1>4. patch.role \in Roles /\ patch.org \in Orgs \cup {NoOrg}
  BY DEF Roles
<1> HIDE DEF next, patch
<1>5. QED
  BY <1>2, <1>3, <1>4 DEF Moves, Carried, Aimed

LEMMA RegisterMoves ==
  ASSUME AccountsTypeOK, RequestsSafe, NEW r \in Requests, NEW u \in Users, Register(r, u)
  PROVE  Moves(r)
<1> DEFINE q == request[r]
           patch == [role |-> "user", status |-> "active", org |-> NoOrg]
           next == [q EXCEPT !.at = "ready", !.op = "create", !.target = u, !.patch = patch]
<1>1. q \in Request /\ patch \in Patch
  BY Asked DEF Patch, Roles
<1>2. next \in Request /\ next.at = "ready" /\ next.op = "create" /\ next.patch = patch
  BY <1>1 DEF Request
<1>3. request' = [request EXCEPT ![r] = next] /\ users' = users
  BY DEF Register, Goes
<1>4. patch.role \in Roles /\ patch.org \in Orgs \cup {NoOrg}
  BY DEF Roles
<1> HIDE DEF next, patch
<1>5. QED
  BY <1>2, <1>3, <1>4 DEF Moves, Carried, Aimed

LEMMA BootstrapMoves ==
  ASSUME AccountsTypeOK, RequestsSafe, NEW r \in Requests, Bootstrap(r) \/ ReadFounder(r)
  PROVE  Moves(r)
<1> DEFINE op == IF users[Founder].status = "absent" THEN "found" ELSE "promote"
<1>1. request[r] \in Request
  BY Asked
<1>2. CASE Bootstrap(r)
  <2>1. LET next == [request[r] EXCEPT !.at = "counted", !.op = "found"]
        IN  next \in Request /\ next.at = "counted" /\ next.op = "found"
    BY <1>1 DEF Request
  <2>2. QED
    BY <1>2, <2>1 DEF Bootstrap, Goes, Moves, Carried, Aimed
<1>3. CASE ReadFounder(r)
  <2>1. op \in {"found", "promote"}
    OBVIOUS
  <2>2. request' = [request EXCEPT ![r] = [request[r] EXCEPT !.at = "ready", !.op = op]]
        /\ users' = users
    BY <1>3 DEF ReadFounder, Goes
  <2> HIDE DEF op
  <2>3. LET next == [request[r] EXCEPT !.at = "ready", !.op = op]
        IN  next \in Request /\ next.at = "ready" /\ next.op = op
    BY <1>1, <2>1 DEF Request
  <2>4. QED
    BY <2>1, <2>2, <2>3 DEF Moves, Carried, Aimed
<1>4. QED
  BY <1>2, <1>3

-----------------------------------------------------------------------------
(* The transactions.                                                       *)

Closes(r, at) == Goes(r, [request[r] EXCEPT !.at = at])

LEMMA CloseEffect ==
  ASSUME AccountsTypeOK, RequestsSafe, NEW r \in Requests, NEW at \in {"done", "refused"},
         Closes(r, at)
  PROVE  \E next \in Request :
           /\ request' = [request EXCEPT ![r] = next]
           /\ Carried(next) /\ next.at = at
           /\ next.op = request[r].op /\ next.target = request[r].target
<1> DEFINE next == [request[r] EXCEPT !.at = at]
<1>1. request[r] \in Request /\ Carried(request[r])
  BY Asked DEF RequestsSafe
<1>2. /\ next \in Request /\ next.at = at /\ next.op = request[r].op
      /\ next.guarded = request[r].guarded /\ next.patch = request[r].patch
      /\ next.actorOrg = request[r].actorOrg /\ next.target = request[r].target
  BY <1>1 DEF Request
<1>3. Carried(next)
  BY <1>1, <1>2 DEF Carried
<1>4. QED
  BY <1>2, <1>3 DEF Closes, Goes

(* What a transaction does to one row, and what it may not.                *)
Writes(r, u) ==
  /\ \A v \in Users : v # u => users'[v] = users[v]
  /\ users' \in [Users -> Row]
  /\ users'[u].status # "absent"
  /\ Closes(r, "done")

(* An administrator who is removed by r was not the last one.              *)
Spares(r, u) ==
  IsActiveAdmin(users[u]) =>
    \/ IsActiveAdmin(users'[u]) /\ (request[r].actorOrg # NoOrg => users'[u].org = users[u].org)
    \/ ~LastAdmin(users[u], request[r].actorOrg)

Updates(r) ==
  LET u == request[r].target IN
  /\ Writes(r, u) /\ Spares(r, u)
  /\ request[r].op \in {"update", "delete"}
  /\ users[u].status = "deleted" => users'[u] = users[u]

Creates(r) ==
  LET u == request[r].target IN
  Writes(r, u) /\ users[u] = Blank /\ request[r].op = "create"

Founds(r) ==
  /\ Writes(r, Founder) /\ ActiveAdmins = {}
  /\ IsActiveAdmin(users'[Founder])
  /\ request[r].op \in {"promote", "found"}
  /\ users[Founder].status = "deleted" => request[r].op = "promote"

Refuses(r) == users' = users /\ Closes(r, "refused")

LEMMA SetType ==
  ASSUME NEW row \in Row, NEW patch \in Patch, row.status # "absent"
  PROVE  /\ Patched(row, patch) \in Row /\ Patched(row, patch).status # "absent"
         /\ Patched(row, patch).status = Set(row.status, patch.status)
         /\ Patched(row, patch).role = Set(row.role, patch.role)
         /\ Patched(row, patch).org = Set(row.org, patch.org)
BY AccountsAssumption DEF Patched, Set, Row, Patch, Statuses, Roles

LEMMA UpdateEffect ==
  ASSUME AccountsTypeOK, RequestsSafe, NEW r \in Requests, UpdateUser(r)
  PROVE  Updates(r) \/ Refuses(r)
<1> DEFINE q == request[r]
           u == q.target
           row == users[u]
<1>1. q \in Request /\ u \in Users /\ row \in Row /\ Carried(q) /\ users \in [Users -> Row]
  <2>1. q \in Request /\ Carried(q) /\ Aimed(q)
    BY Asked DEF RequestsSafe
  <2>2. QED
    BY <2>1 DEF Request, AccountsTypeOK
<1>2. row.status # "absent"
  BY DEF UpdateUser, RequestsSafe, Aimed
<1>3. CASE GuardRefuses(q)
  BY <1>3 DEF UpdateUser, Refuses, Closes
<1>4. CASE ~GuardRefuses(q)
  <2> DEFINE new == IF q.op = "delete" THEN [row EXCEPT !.status = "deleted"] ELSE Patched(row, q.patch)
  <2>1. Closes(r, "done") /\ users' = [users EXCEPT ![u] = new] /\ q.op \in {"update", "delete"}
    BY <1>4 DEF UpdateUser, Closes
  <2>2. q.patch \in Patch
    BY <1>1 DEF Request
  <2>3. CASE q.op = "delete"
    <3>1. new \in Row /\ new.status = "deleted"
      BY <1>1, <2>3 DEF Row, Statuses
    <3>2. users'[u] = new /\ Writes(r, u)
      BY <1>1, <2>1, <3>1 DEF Writes
    <3>3. row.status = "deleted" => new = row
      BY <1>1, <2>3 DEF Row
    <3>4. Spares(r, u)
      BY <1>1, <1>4, <2>3 DEF Carried, GuardRefuses, Spares
    <3>5. QED
      BY <2>1, <3>2, <3>3, <3>4 DEF Updates
  <2>4. CASE q.op = "update"
    <3> DEFINE patched == Patched(row, q.patch)
    <3>1. new = patched
      BY <2>4
    <3>7. /\ patched \in Row /\ patched.status = Set(row.status, q.patch.status)
          /\ patched.status # "absent"
          /\ patched.role = Set(row.role, q.patch.role) /\ patched.org = Set(row.org, q.patch.org)
      BY <1>1, <1>2, <2>2, SetType
    <3> HIDE DEF patched
    <3>2. /\ new \in Row /\ new.status = Set(row.status, q.patch.status) /\ new.status # "absent"
          /\ new.role = Set(row.role, q.patch.role) /\ new.org = Set(row.org, q.patch.org)
      BY <3>1, <3>7
    <3> HIDE DEF new
    <3>3. users'[u] = new /\ Writes(r, u)
      BY <1>1, <2>1, <3>2 DEF Writes
    <3>4. row.status # "deleted"
      BY <1>4, <2>4 DEF GuardRefuses
    <3>5. Spares(r, u)
      <4>1. CASE q.guarded
        BY <1>4, <4>1 DEF GuardRefuses, Spares
      <4>2. CASE ~q.guarded
        <5>1. q.patch.role \in {"admin", "keep"} /\ q.patch.status \in {"active", "keep"}
          BY <1>1, <2>2, <2>4, <4>2 DEF Carried, Patch, Roles
        <5>2. IsActiveAdmin(row) => IsActiveAdmin(new)
          BY <3>2, <5>1 DEF IsActiveAdmin, Set
        <5>3. q.actorOrg # NoOrg => new.org = row.org
          BY <1>1, <2>4, <3>2 DEF Carried, Set
        <5>4. QED
          BY <3>3, <5>2, <5>3 DEF Spares
      <4>3. QED
        BY <4>1, <4>2
    <3>6. QED
      BY <2>1, <3>3, <3>4, <3>5 DEF Updates
  <2>5. QED
    BY <2>1, <2>3, <2>4
<1>5. QED
  BY <1>3, <1>4

LEMMA CreateEffect ==
  ASSUME AccountsTypeOK, RequestsSafe, NEW r \in Requests, CreateUser(r)
  PROVE  Creates(r) \/ Refuses(r)
<1> DEFINE q == request[r]
           u == q.target
           new == Created(q.patch)
<1>1. q \in Request /\ users \in [Users -> Row]
  BY Asked DEF AccountsTypeOK
<1>2. u \in Users /\ q.patch \in Patch
  BY <1>1 DEF Request
<1>3. CASE users[u].status # "absent"
  BY <1>3 DEF CreateUser, Refuses, Closes
<1>4. CASE users[u].status = "absent"
  <2>1. Closes(r, "done") /\ users' = [users EXCEPT ![u] = new] /\ q.op = "create"
    BY <1>4 DEF CreateUser, Closes
  <2>2. q.patch.role \in Roles /\ q.patch.org \in Orgs \cup {NoOrg}
    BY <2>1 DEF RequestsSafe, Carried
  <2>3. new \in Row /\ new.status = "active"
    BY <2>2 DEF Created, Row, Statuses
  <2>4. users[u] = Blank
    BY <1>2, <1>4, RowType
  <2> HIDE DEF new
  <2>5. Writes(r, u)
    BY <1>1, <1>2, <2>1, <2>3 DEF Writes
  <2>6. QED
    BY <2>1, <2>4, <2>5 DEF Creates
<1>5. QED
  BY <1>3, <1>4

LEMMA FoundEffect ==
  ASSUME AccountsTypeOK, RequestsSafe, NEW r \in Requests, WriteFounder(r)
  PROVE  Founds(r) \/ Refuses(r)
<1> DEFINE q == request[r]
           row == users[Founder]
           new == [row EXCEPT !.role = "admin", !.status = "active"]
<1>1. q \in Request /\ users \in [Users -> Row] /\ Founder \in Users
  BY Asked, AccountsAssumption DEF AccountsTypeOK
<1>2. CASE ~FounderRises(q)
  BY <1>2 DEF WriteFounder, Refuses, Closes
<1>3. CASE FounderRises(q)
  <2>1. Closes(r, "done") /\ users' = [users EXCEPT ![Founder].role = "admin", ![Founder].status = "active"]
        /\ q.op \in {"promote", "found"}
    BY <1>3 DEF WriteFounder, Closes
  <2>2. row \in Row
    BY <1>1
  <2>3. new \in Row /\ new.status = "active" /\ new.role = "admin"
    BY <2>2 DEF Row, Statuses, Roles
  <2>4. users' = [users EXCEPT ![Founder] = new]
    BY <1>1, <2>1
  <2> HIDE DEF new
  <2>5. Writes(r, Founder) /\ users'[Founder] = new
    BY <1>1, <2>1, <2>3, <2>4 DEF Writes
  <2>6. ActiveAdmins = {} /\ (row.status = "deleted" => q.op = "promote")
    BY <1>3, <2>1 DEF FounderRises
  <2>7. IsActiveAdmin(users'[Founder])
    BY <2>3, <2>5 DEF IsActiveAdmin
  <2>8. QED
    BY <2>1, <2>5, <2>6, <2>7 DEF Founds
<1>4. QED
  BY <1>2, <1>3

(* Every step is one of these.                                             *)
LEMMA StepShape ==
  ASSUME AccountsTypeOK, RequestsSafe, AccountsNext
  PROVE  \E r \in Requests : Moves(r) \/ Updates(r) \/ Creates(r) \/ Founds(r) \/ Refuses(r)
<1>1. ASSUME NEW r \in Requests, NEW u \in Users,
             \/ Begin(r, u)
             \/ \E patch \in Patches : ReadForUpdate(r, u, patch)
             \/ ReadForDelete(r, u)
             \/ \E role \in Roles, org \in Orgs \cup {NoOrg} : ReadForCreate(r, u, role, org)
             \/ Register(r, u)
      PROVE  Moves(r)
  BY <1>1, BeginMoves, UpdateMoves, DeleteMoves, CreateMoves, RegisterMoves
<1>2. ASSUME NEW r \in Requests, EarlyAnswer(r) \/ Bootstrap(r) \/ ReadFounder(r)
      PROVE  Moves(r)
  BY <1>2, AnswerMoves, BootstrapMoves
<1>3. ASSUME NEW r \in Requests, UpdateUser(r) \/ CreateUser(r) \/ WriteFounder(r)
      PROVE  Updates(r) \/ Creates(r) \/ Founds(r) \/ Refuses(r)
  BY <1>3, UpdateEffect, CreateEffect, FoundEffect
<1>4. QED
  BY <1>1, <1>2, <1>3 DEF AccountsNext

-----------------------------------------------------------------------------
(* The last administrator.                                                 *)

LEMMA Another ==
  ASSUME NEW S, IsFiniteSet(S), NEW u \in S, ~(Cardinality(S) <= 1)
  PROVE  \E v \in S : v # u
<1>1. SUFFICES ASSUME \A v \in S : v = u PROVE FALSE
  OBVIOUS
<1>2. S = {u}
  BY <1>1
<1>3. Cardinality(S) = 1
  BY <1>2, FS_Singleton
<1>4. QED
  BY <1>3

LEMMA AdminsFinite ==
  /\ IsFiniteSet(ActiveAdmins)
  /\ \A o \in Orgs : IsFiniteSet(OrgAdmins(o))
<1>1. ActiveAdmins \in SUBSET Users /\ \A o \in Orgs : OrgAdmins(o) \in SUBSET Users
  BY DEF ActiveAdmins, OrgAdmins
<1>2. QED
  BY <1>1, FS_Subset, AccountsAssumption

(* An update leaves an administrator where there was one.                  *)
LEMMA UpdateSpares ==
  ASSUME AccountsTypeOK, NEW r \in Requests, Updates(r)
  PROVE  /\ ActiveAdmins # {} => ActiveAdmins' # {}
         /\ \A o \in Orgs : request[r].actorOrg # NoOrg /\ OrgAdmins(o) # {} => OrgAdmins(o)' # {}
<1> DEFINE u == request[r].target
<1>0. u \in Users
  BY Asked DEF Request
<1>1. \A v \in Users : v # u => users'[v] = users[v]
  BY DEF Updates, Writes
<1>2. ASSUME ActiveAdmins # {} PROVE ActiveAdmins' # {}
  <2>1. CASE \E v \in ActiveAdmins : v # u
    BY <1>1, <2>1 DEF ActiveAdmins
  <2>2. CASE \A v \in ActiveAdmins : v = u
    <3>1. u \in ActiveAdmins /\ Cardinality(ActiveAdmins) <= 1
      BY <1>2, <2>2, Another, AdminsFinite
    <3>2. LastAdmin(users[u], request[r].actorOrg)
      BY <3>1 DEF LastAdmin, ActiveAdmins
    <3>3. IsActiveAdmin(users'[u])
      BY <3>1, <3>2 DEF Updates, Spares, ActiveAdmins
    <3>4. QED
      BY <1>0, <3>3 DEF ActiveAdmins
  <2>3. QED
    BY <2>1, <2>2
<1>3. ASSUME NEW o \in Orgs, request[r].actorOrg # NoOrg, OrgAdmins(o) # {}
      PROVE  OrgAdmins(o)' # {}
  <2>1. CASE \E v \in OrgAdmins(o) : v # u
    BY <1>1, <2>1 DEF ActiveAdmins, OrgAdmins
  <2>2. CASE \A v \in OrgAdmins(o) : v = u
    <3>1. u \in OrgAdmins(o) /\ Cardinality(OrgAdmins(o)) <= 1
      BY <1>3, <2>2, Another, AdminsFinite
    <3>2. IsActiveAdmin(users[u]) /\ users[u].org = o /\ o # NoOrg
      BY <3>1, AccountsAssumption DEF OrgAdmins, ActiveAdmins
    <3>3. LastAdmin(users[u], request[r].actorOrg)
      BY <1>3, <3>1, <3>2 DEF LastAdmin
    <3>4. IsActiveAdmin(users'[u]) /\ users'[u].org = o
      BY <1>3, <3>2, <3>3 DEF Updates, Spares
    <3>5. QED
      BY <1>0, <3>4 DEF ActiveAdmins, OrgAdmins
  <2>3. QED
    BY <2>1, <2>2
<1>4. QED
  BY <1>2, <1>3

(* So does every step.                                                     *)
LEMMA StepSpares ==
  ASSUME AccountsTypeOK, RequestsSafe, [AccountsNext]_accountsVars
  PROVE  ActiveAdmins # {} => ActiveAdmins' # {}
<1>1. CASE UNCHANGED accountsVars
  BY <1>1 DEF accountsVars, ActiveAdmins
<1>2. ASSUME NEW r \in Requests, Moves(r) \/ Refuses(r)
      PROVE  ActiveAdmins' = ActiveAdmins
  BY <1>2 DEF Moves, Refuses, ActiveAdmins
<1>3. ASSUME NEW r \in Requests, Creates(r)
      PROVE  ActiveAdmins \subseteq ActiveAdmins'
  <2>1. ~IsActiveAdmin(users[request[r].target])
    BY <1>3 DEF Creates, Blank, IsActiveAdmin
  <2>2. QED
    BY <1>3, <2>1 DEF Creates, Writes, ActiveAdmins
<1>4. ASSUME NEW r \in Requests, Founds(r)
      PROVE  ActiveAdmins' # {}
  BY <1>4, AccountsAssumption DEF Founds, ActiveAdmins
<1>5. QED
  BY <1>1, <1>2, <1>3, <1>4, StepShape, UpdateSpares

-----------------------------------------------------------------------------
(* The invariant.                                                          *)

(* The request that steps, and every other one.                            *)
Stepped(r) ==
  \E next \in Request :
    /\ request' = [request EXCEPT ![r] = next]
    /\ Carried(next) /\ Aimed(next)' /\ (Founded(next) => Founds(r))

LEMMA StepStepped ==
  ASSUME AccountsTypeOK, RequestsSafe, NEW r \in Requests,
         Moves(r) \/ Updates(r) \/ Creates(r) \/ Founds(r) \/ Refuses(r)
  PROVE  /\ Stepped(r)
         /\ users' \in [Users -> Row]
         /\ \A u \in Users : users[u].status # "absent" => users'[u].status # "absent"
         /\ \A u \in Users : users'[u].status = "absent" => users'[u] = Blank
<1>1. users \in [Users -> Row] /\ \A u \in Users : users[u].status = "absent" => users[u] = Blank
  BY DEF AccountsTypeOK
<1>2. request[r] \in Request /\ Carried(request[r]) /\ Aimed(request[r])
  BY Asked DEF RequestsSafe
<1>3. CASE Moves(r)
  <2>1. users' = users
    BY <1>3 DEF Moves
  <2>2. PICK next \in Request : /\ request' = [request EXCEPT ![r] = next]
                                /\ Carried(next) /\ Aimed(next) /\ next.at # "done"
    BY <1>3 DEF Moves
  <2>3. Aimed(next)' /\ ~Founded(next)
    BY <2>1, <2>2 DEF Aimed, Founded
  <2>4. QED
    BY <1>1, <2>1, <2>2, <2>3 DEF Stepped
<1>4. CASE Refuses(r)
  <2>1. users' = users
    BY <1>4 DEF Refuses
  <2>2. PICK next \in Request : /\ request' = [request EXCEPT ![r] = next]
                                /\ Carried(next) /\ next.at = "refused"
                                /\ next.op = request[r].op /\ next.target = request[r].target
    BY <1>4, CloseEffect DEF Refuses
  <2>3. Aimed(next)' /\ ~Founded(next)
    BY <1>2, <2>1, <2>2 DEF Aimed, Founded
  <2>4. QED
    BY <1>1, <2>1, <2>2, <2>3 DEF Stepped
<1>5. CASE Updates(r) \/ Creates(r) \/ Founds(r)
  <2>1. PICK u \in Users : Writes(r, u)
    BY <1>2, <1>5, AccountsAssumption DEF Updates, Creates, Founds, Request
  <2>2. \A v \in Users : v # u => users'[v] = users[v]
    BY <2>1 DEF Writes
  <2>3. users' \in [Users -> Row] /\ users'[u].status # "absent"
    BY <2>1 DEF Writes
  <2>4. \A v \in Users : users[v].status # "absent" => users'[v].status # "absent"
    BY <2>2, <2>3
  <2>5. \A v \in Users : users'[v].status = "absent" => users'[v] = Blank
    BY <1>1, <2>2, <2>3
  <2>6. PICK next \in Request : /\ request' = [request EXCEPT ![r] = next]
                                /\ Carried(next) /\ next.at = "done"
                                /\ next.op = request[r].op /\ next.target = request[r].target
    BY <2>1, CloseEffect DEF Writes
  <2>7. Aimed(next)'
    BY <1>2, <2>4, <2>6 DEF Aimed, Request
  <2>8. Founded(next) => Founds(r)
    BY <1>5, <2>6 DEF Founded, Updates, Creates
  <2>9. QED
    BY <2>3, <2>4, <2>5, <2>6, <2>7, <2>8 DEF Stepped
<1>6. QED
  BY <1>3, <1>4, <1>5

LEMMA InitRequestsSafe ==
  ASSUME AccountsInit
  PROVE  AccountsTypeOK /\ RequestsSafe
<1>1. users \in [Users -> Row] /\ \A u \in Users : users[u].status = "absent" => users[u] = Blank
  BY AccountsAssumption DEF AccountsInit
<1>2. NewRequest \in Request
  BY AccountsAssumption DEF NewRequest, Request, NoPatch, Patch, Blank, Row, Statuses, Roles
<1>3. request \in [Requests -> Request] /\ \A r \in Requests : request[r] = NewRequest
  BY <1>2 DEF AccountsInit
<1>4. \A r \in Requests : Carried(request[r]) /\ Aimed(request[r]) /\ ~Founded(request[r])
  BY <1>3 DEF NewRequest, Carried, Aimed, Founded
<1>5. BootstrapOnce
  BY <1>4 DEF BootstrapOnce, Founded
<1>6. QED
  BY <1>1, <1>3, <1>4, <1>5 DEF AccountsTypeOK, RequestsSafe

LEMMA StepSafe ==
  ASSUME AccountsTypeOK, RequestsSafe, [AccountsNext]_accountsVars
  PROVE  AccountsTypeOK' /\ RequestsSafe'
<1>1. CASE UNCHANGED accountsVars
  BY <1>1 DEF accountsVars, AccountsTypeOK, RequestsSafe, Carried, Aimed, Founded, ActiveAdmins,
              BootstrapOnce
<1>2. CASE AccountsNext
  <2>1. PICK r \in Requests : Moves(r) \/ Updates(r) \/ Creates(r) \/ Founds(r) \/ Refuses(r)
    BY <1>2, StepShape
  <2>2. /\ users' \in [Users -> Row]
        /\ \A u \in Users : users[u].status # "absent" => users'[u].status # "absent"
        /\ \A u \in Users : users'[u].status = "absent" => users'[u] = Blank
    BY <2>1, StepStepped
  <2>3. PICK next \in Request : /\ request' = [request EXCEPT ![r] = next]
                                /\ Carried(next) /\ Aimed(next)' /\ (Founded(next) => Founds(r))
    BY <2>1, StepStepped DEF Stepped
  <2>4. request \in [Requests -> Request]
    BY DEF AccountsTypeOK
  <2>5. /\ request' \in [Requests -> Request] /\ request'[r] = next
        /\ \A p \in Requests : p # r => request'[p] = request[p]
    BY <2>3, <2>4
  <2>6. ASSUME NEW p \in Requests
        PROVE  Carried(request'[p]) /\ (Aimed(request[p]))'
    <3>1. CASE p = r
      BY <2>3, <2>5, <3>1 DEF Aimed
    <3>2. CASE p # r
      <4>1. request'[p] = request[p] /\ request[p] \in Request /\ Carried(request[p]) /\ Aimed(request[p])
        BY <2>4, <2>5, <3>2 DEF RequestsSafe
      <4>2. request[p].target \in Users
        BY <4>1 DEF Request
      <4>3. QED
        BY <2>2, <4>1, <4>2 DEF Aimed
    <3>3. QED
      BY <3>1, <3>2
  <2>7. (\E p \in Requests : Founded(request'[p])) => ActiveAdmins' # {}
    <3>1. CASE \E p \in Requests : Founded(request[p])
      BY <3>1, StepSpares DEF RequestsSafe
    <3>2. CASE \A p \in Requests : ~Founded(request[p])
      <4>1. Founds(r) => ActiveAdmins' # {}
        BY AccountsAssumption DEF Founds, ActiveAdmins
      <4>2. QED
        BY <2>3, <2>5, <3>2, <4>1
    <3>3. QED
      BY <3>1, <3>2
  <2>8. \A p, q \in Requests : Founded(request'[p]) /\ Founded(request'[q]) => p = q
    <3>1. Founded(next) => \A p \in Requests : ~Founded(request[p])
      BY <2>3 DEF Founds, RequestsSafe
    <3>2. \A p, q \in Requests : Founded(request[p]) /\ Founded(request[q]) => p = q
      BY DEF RequestsSafe, BootstrapOnce, Founded
    <3>3. QED
      BY <2>5, <3>1, <3>2
  <2>9. BootstrapOnce'
    BY <2>8 DEF BootstrapOnce, Founded
  <2>10. QED
    BY <2>2, <2>5, <2>6, <2>7, <2>9 DEF AccountsTypeOK, RequestsSafe, Carried, Founded
<1>3. QED
  BY <1>1, <1>2

-----------------------------------------------------------------------------
LEMMA AlwaysSafe == AccountsSpec => [](AccountsTypeOK /\ RequestsSafe)
<1>1. AccountsInit => AccountsTypeOK /\ RequestsSafe
  BY InitRequestsSafe
<1>2. AccountsTypeOK /\ RequestsSafe /\ [AccountsNext]_accountsVars => (AccountsTypeOK /\ RequestsSafe)'
  BY StepSafe
<1>3. QED
  BY <1>1, <1>2, PTL DEF AccountsSpec

(* The rows and requests are what identity.ts and the routes say they are. *)
THEOREM AccountsTypeCorrect == AccountsSpec => []AccountsTypeOK
<1>1. QED
  BY AlwaysSafe, PTL

(* Of any number of bootstraps, one makes an administrator.                *)
THEOREM BootstrapIsOnce == AccountsSpec => []BootstrapOnce
<1>1. AccountsTypeOK /\ RequestsSafe => BootstrapOnce
  BY DEF RequestsSafe
<1>2. QED
  BY <1>1, AlwaysSafe, PTL

(* No crossing of requests takes the last active administrator away.       *)
THEOREM AdminAlwaysRemains == AccountsSpec => AdminRemains
<1>1. AccountsTypeOK /\ RequestsSafe /\ [AccountsNext]_accountsVars
        => [ActiveAdmins # {} => ActiveAdmins' # {}]_accountsVars
  BY StepSpares
<1>2. QED
  BY <1>1, AlwaysSafe, PTL DEF AccountsSpec, AdminRemains

(* Nor does one by an organisation's own admin take its last one away.     *)
THEOREM OrgAlwaysKeepsItsAdmin == AccountsSpec => OrgKeepsItsAdmin
<1> DEFINE Keeps == \A r \in Requests, o \in Orgs :
                      request'[r] # request[r] /\ request[r].actorOrg # NoOrg /\ OrgAdmins(o) # {} =>
                        OrgAdmins(o)' # {}
<1>1. ASSUME AccountsTypeOK, RequestsSafe, [AccountsNext]_accountsVars PROVE [Keeps]_accountsVars
  <2>1. SUFFICES ASSUME AccountsNext, NEW q \in Requests, NEW o \in Orgs, request'[q] # request[q],
                        request[q].actorOrg # NoOrg, OrgAdmins(o) # {}
                 PROVE  OrgAdmins(o)' # {}
    BY <1>1
  <2>2. PICK r \in Requests : Moves(r) \/ Updates(r) \/ Creates(r) \/ Founds(r) \/ Refuses(r)
    BY <1>1, <2>1, StepShape
  <2>3. q = r
    BY <1>1, <2>1, <2>2, StepStepped DEF Stepped, AccountsTypeOK
  <2>4. CASE Moves(r) \/ Refuses(r)
    BY <2>1, <2>4 DEF Moves, Refuses, OrgAdmins, ActiveAdmins
  <2>5. CASE Updates(r)
    BY <1>1, <2>1, <2>3, <2>5, UpdateSpares
  <2>6. CASE Creates(r)
    <3>1. ~IsActiveAdmin(users[request[r].target])
      BY <2>6 DEF Creates, Blank, IsActiveAdmin
    <3>2. \A u \in OrgAdmins(o) : u \in OrgAdmins(o)'
      BY <2>6, <3>1 DEF Creates, Writes, OrgAdmins, ActiveAdmins
    <3>3. QED
      BY <2>1, <3>2
  <2>7. CASE Founds(r)
    BY <2>1, <2>7 DEF Founds, OrgAdmins
  <2>8. QED
    BY <2>2, <2>4, <2>5, <2>6, <2>7
<1>2. QED
  BY <1>1, AlwaysSafe, PTL DEF AccountsSpec, OrgKeepsItsAdmin

(* A deleted account changes only by a bootstrap.                          *)
THEOREM DeletedAlwaysStays == AccountsSpec => DeletedStaysDeleted
<1> DEFINE Stays == \A u \in Users :
                      users[u].status = "deleted" /\ users'[u] # users[u] =>
                        \E r \in Requests : request[r].op = "promote" /\ request'[r].at = "done"
<1>1. ASSUME AccountsTypeOK, RequestsSafe, [AccountsNext]_accountsVars PROVE [Stays]_accountsVars
  <2>1. SUFFICES ASSUME AccountsNext, NEW u \in Users, users[u].status = "deleted", users'[u] # users[u]
                 PROVE  \E r \in Requests : request[r].op = "promote" /\ request'[r].at = "done"
    BY <1>1
  <2>2. PICK r \in Requests : Moves(r) \/ Updates(r) \/ Creates(r) \/ Founds(r) \/ Refuses(r)
    BY <1>1, <2>1, StepShape
  <2>3. ~Moves(r) /\ ~Refuses(r)
    BY <2>1 DEF Moves, Refuses
  <2>4. ~Updates(r)
    BY <2>1 DEF Updates, Writes
  <2>5. ~Creates(r)
    BY <2>1 DEF Creates, Writes, Blank
  <2>6. Founds(r) /\ u = Founder
    BY <2>1, <2>2, <2>3, <2>4, <2>5 DEF Founds, Writes
  <2>7. request'[r].at = "done"
    <3>1. request[r] \in Request
      BY <1>1, Asked
    <3>2. request' = [request EXCEPT ![r] = [request[r] EXCEPT !.at = "done"]]
      BY <2>6 DEF Founds, Writes, Closes, Goes
    <3>3. QED
      BY <1>1, <3>1, <3>2 DEF AccountsTypeOK, Request
  <2>8. QED
    BY <2>1, <2>6, <2>7 DEF Founds
<1>2. QED
  BY <1>1, AlwaysSafe, PTL DEF AccountsSpec, DeletedStaysDeleted
=============================================================================
