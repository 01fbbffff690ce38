--------------------------- MODULE RunStoreProofs ---------------------------
(***************************************************************************)
(* Proofs about the runs repository, for any competitors, any number of    *)
(* pages, stops, restarts and faults, and any length of the chain and of   *)
(* the tombstone list.                                                     *)
(*                                                                         *)
(* The types, then what refuses a deleted run (Kept), then what the chain  *)
(* of writes may hold: what each kind of step adds to it (Grows, Adds,     *)
(* Shrinks; StepCases), and where the later job may be while a write of    *)
(* its own waits (Ordered).  Over that order lie three arguments: an       *)
(* object still to be written is not a stopped one (Stopped), a later job  *)
(* that is over has only its end left to write (Staged), and a search that *)
(* is over has left nothing that runs, unless a save of the later job will *)
(* overwrite it (Settled).                                                 *)
(***************************************************************************)
EXTENDS RunStore, SequenceTheorems, TLAPS

(* The three parts of the type invariant.                                  *)
StoreOK ==
  /\ row \in Record /\ stored \subseteq Found /\ tomb \in 0..MaxTombstones
  /\ suppressed \in BOOLEAN /\ deleted \in BOOLEAN /\ forgotten \in BOOLEAN
  /\ cutOff \in BOOLEAN

ThrottleType == [present : BOOLEAN, armed : BOOLEAN, ref : Refs, stage : Stages]

MemoryOK ==
  /\ object \in [Refs -> Record] /\ throttle \in ThrottleType
  /\ chain \in Seq(Writes) /\ Len(chain) <= MaxQueue

SearchPlaces == {"start", "created", "loop", "told", "scanning", "accepted", "saving", "closing",
                 "toldLast", "finishing", "final", "failing", "failed", "rescue", "over"}
SecondPlaces == {"idle", "read", "clearing", "cleared", "saving", "scheduled", "clearing2",
                 "cleared2", "read2", "saving2", "working", "worked", "told", "closing",
                 "fresh", "stopping", "ending", "final", "over"}

PlacesOK ==
  /\ search \in SearchPlaces /\ pages \in 0..Pages
  /\ second \in [job : Jobs2, at : SecondPlaces]
  /\ reviewing \in BOOLEAN /\ asked \subseteq {"stop", "delete"}
  /\ stops \in 0..MaxStops /\ restarts \in 0..MaxRestarts /\ faults \in 0..MaxFaults

(* A search at work on a page has one left.                                *)
PagesLeft == search \in {"scanning", "accepted"} => pages # 0

Types == StoreOK /\ MemoryOK /\ PlacesOK /\ PagesLeft

LEMMA TypeParts == Types => TypeOK
BY DEF Types, TypeOK, StoreOK, MemoryOK, PlacesOK, ThrottleType, SearchPlaces, SecondPlaces

LEMMA Bounds == /\ MaxTombstones \in Nat \ {0} /\ MaxQueue \in Nat \ {0}
                /\ Pages \in Nat /\ MaxStops \in Nat /\ MaxRestarts \in Nat /\ MaxFaults \in Nat
BY StoreAssumption

-----------------------------------------------------------------------------
(* The values the repository writes have their types.                      *)

LEMMA ValueTypes ==
  /\ NoRow \in Record /\ NoEntry \in ThrottleType /\ NoObjects \in [Refs -> Record]
  /\ \A ref \in Refs : Progress(ref) \in Writes /\ Save(ref) \in Writes
  /\ \A to \in {"done", "failed"} : Patch(to) \in Writes
BY DEF NoRow, NoObjects, Record, Statuses, Stages, NoEntry, Refs, Progress, Save, Patch, Writes,
   ThrottleType

LEMMA SettledType ==
  ASSUME throttle \in ThrottleType, NEW stage \in Stages, NEW status
  PROVE  SettledEntry(status, stage) \in ThrottleType
BY ValueTypes DEF SettledEntry, ThrottleType

LEMMA EntryType ==
  ASSUME throttle \in ThrottleType, NEW ref \in Refs, NEW stage \in Stages, NEW late \in BOOLEAN
  PROVE  EntryAfter(ref, stage, late) \in ThrottleType
BY DEF EntryAfter, Urgent, ThrottleType

LEMMA ReportedType ==
  ASSUME NEW ref \in Refs, NEW stage, NEW late \in BOOLEAN
  PROVE  /\ Reported(ref, stage, late) \in Seq(Writes)
         /\ Reported(ref, stage, late) \o <<Save(ref)>> \in Seq(Writes)
         /\ Len(Reported(ref, stage, late)) <= 1
         /\ Len(Reported(ref, stage, late) \o <<Save(ref)>>) <= 2
<1>1. CASE Urgent(stage, late)
  <2>1. Reported(ref, stage, late) = <<Progress(ref)>>
    BY <1>1 DEF Reported
  <2>2. QED
    BY <2>1, ValueTypes
<1>2. CASE ~Urgent(stage, late)
  <2>1. Reported(ref, stage, late) = <<>>
    BY <1>2 DEF Reported
  <2>2. Save(ref) \in Writes
    BY ValueTypes
  <2>3. <<>> \in Seq(Writes) /\ Len(<<>>) = 0
    OBVIOUS
  <2>4. <<Save(ref)>> \in Seq(Writes) /\ Len(<<Save(ref)>>) = 1
    BY <2>2
  <2>5. <<>> \o <<Save(ref)>> = <<Save(ref)>>
    BY <2>4
  <2>6. QED
    BY <2>1, <2>3, <2>4, <2>5
<1>3. QED
  BY <1>1, <1>2

LEMMA QueueType ==
  ASSUME chain \in Seq(Writes), NEW writes \in Seq(Writes), NEW n \in Nat,
         Len(writes) <= n, Room(n)
  PROVE  Queue(writes) \in Seq(Writes) /\ Len(Queue(writes)) <= MaxQueue
<1>1. Len(chain) \in Nat /\ Len(writes) \in Nat
  OBVIOUS
<1>2. Len(Queue(writes)) = Len(chain) + Len(writes) /\ Queue(writes) \in Seq(Writes)
  BY DEF Queue
<1>3. QED
  BY <1>1, <1>2, Bounds DEF Room

-----------------------------------------------------------------------------
(* saveJob, saveJobProgress, updateJob and the timer leave well-typed      *)
(* objects, a well-typed entry of the throttle and a chain within bounds.  *)

LEMMA SaveJobType ==
  ASSUME MemoryOK, NEW ref \in Refs, NEW content \in Record, SaveJob(ref, content)
  PROVE  MemoryOK'
<1>1. <<Save(ref)>> \in Seq(Writes) /\ Len(<<Save(ref)>>) <= 1
  BY ValueTypes
<1>2. chain' \in Seq(Writes) /\ Len(chain') <= MaxQueue
  BY <1>1, QueueType DEF MemoryOK, SaveJob
<1>3. content.stage \in Stages
  BY DEF Record
<1>4. throttle' \in ThrottleType
  BY <1>3, SettledType DEF MemoryOK, SaveJob
<1>5. object' \in [Refs -> Record]
  BY DEF MemoryOK, SaveJob
<1>6. QED
  BY <1>2, <1>4, <1>5 DEF MemoryOK

LEMMA SaveProgressType ==
  ASSUME MemoryOK, NEW ref \in Refs, NEW content \in Record, NEW late \in BOOLEAN,
         SaveProgress(ref, content, late)
  PROVE  MemoryOK'
<1>1. content.stage \in Stages
  BY DEF Record
<1>2. chain' \in Seq(Writes) /\ Len(chain') <= MaxQueue
  <2>1. Len(Reported(ref, content.stage, late)) <= 1
    BY <1>1, ReportedType
  <2>2. QED
    BY <1>1, <2>1, ReportedType, QueueType DEF MemoryOK, SaveProgress
<1>3. throttle' \in ThrottleType
  BY <1>1, EntryType DEF MemoryOK, SaveProgress
<1>4. object' \in [Refs -> Record]
  BY DEF MemoryOK, SaveProgress
<1>5. QED
  BY <1>2, <1>3, <1>4 DEF MemoryOK

LEMMA UpdateJobType ==
  ASSUME MemoryOK, NEW to \in {"done", "failed"}, UpdateJob(to)
  PROVE  MemoryOK'
<1>1. <<Patch(to)>> \in Seq(Writes) /\ Len(<<Patch(to)>>) <= 1
  BY ValueTypes
<1>2. chain' \in Seq(Writes) /\ Len(chain') <= MaxQueue
  BY <1>1, QueueType DEF MemoryOK, UpdateJob
<1>3. throttle' \in ThrottleType
  BY SettledType DEF MemoryOK, UpdateJob, Stages
<1>4. QED
  BY <1>2, <1>3 DEF MemoryOK, UpdateJob

LEMMA ChainShrinks ==
  ASSUME MemoryOK, chain # <<>>, chain' = Tail(chain), UNCHANGED <<throttle, object>>
  PROVE  MemoryOK' /\ Head(chain) \in Writes
<1>1. chain' \in Seq(Writes) /\ Head(chain) \in Writes /\ Len(chain') = Len(chain) - 1
  BY DEF MemoryOK
<1>2. Len(chain) \in Nat
  BY DEF MemoryOK
<1>3. QED
  BY <1>1, <1>2, Bounds DEF MemoryOK

-----------------------------------------------------------------------------
(* Each action keeps the types.                                            *)

LEMMA TimerFiresType ==
  ASSUME Types, TimerFires
  PROVE  Types'
<1> USE DEF Types
<1>a. <<Progress(throttle.ref)>> \in Seq(Writes) /\ Len(<<Progress(throttle.ref)>>) <= 1
  BY ValueTypes DEF MemoryOK, ThrottleType
<1>b. chain' \in Seq(Writes) /\ Len(chain') <= MaxQueue
  BY <1>a, QueueType DEF MemoryOK, TimerFires
<1>1. MemoryOK'
  BY <1>b DEF TimerFires, MemoryOK, ThrottleType
<1>2. StoreOK'
  BY Bounds, ValueTypes DEF TimerFires, StoreOK, Goes, Record, store, process, history, budget
<1>3. PlacesOK' /\ PagesLeft'
  BY Bounds DEF TimerFires, PlacesOK, PagesLeft, Goes, SearchPlaces, SecondPlaces, store,
     process, history, budget
<1>4. QED
  BY <1>1, <1>2, <1>3

LEMMA WriteLandsType ==
  ASSUME Types, WriteLands
  PROVE  Types'
<1> USE DEF Types
<1>1. MemoryOK' /\ Head(chain) \in Writes
  BY ChainShrinks DEF WriteLands
<1> DEFINE write == Head(chain)
<1>a. WrittenBy(write) \in Record
  <2>1. CASE write.kind = "patch"
    BY <2>1 DEF WrittenBy, StoreOK, Record, Statuses, Stages
  <2>2. CASE write.kind # "patch"
    <3>1. write.ref \in Refs
      BY <1>1, <2>2 DEF Writes
    <3>2. object[write.ref] \in Record
      BY <3>1 DEF MemoryOK
    <3>3. QED
      BY <2>2, <3>2 DEF WrittenBy, StoreOK, Record
  <2>3. QED
    BY <2>1, <2>2
<1>b. row' \in {row, WrittenBy(write)} /\ suppressed' \in BOOLEAN
  BY DEF WriteLands, Refused, StoreOK
<1>2. StoreOK'
  BY <1>a, <1>b DEF WriteLands, CutsOff, StoreOK
<1>3. PlacesOK' /\ PagesLeft'
  BY Bounds DEF WriteLands, Resumes, SearchAfter, SecondAfter, MarkAfter, PlacesOK, PagesLeft,
     Goes, SearchPlaces, SecondPlaces, store, process, history, budget
<1>4. QED
  BY <1>1, <1>2, <1>3

LEMMA WriteFailsType ==
  ASSUME Types, WriteFails
  PROVE  Types'
<1> USE DEF Types
<1>1. MemoryOK' /\ Head(chain) \in Writes
  BY ChainShrinks DEF WriteFails
<1>2. StoreOK'
  <2>1. cutOff' \in BOOLEAN
    BY Zenon DEF WriteFails, CutsOff
  <2>2. UNCHANGED <<row, stored, tomb, suppressed, deleted, forgotten>>
    BY DEF WriteFails, store
  <2>3. QED
    BY <2>1, <2>2 DEF StoreOK
<1>3. PlacesOK' /\ PagesLeft'
  BY Bounds DEF WriteFails, CutsOff, Resumes, SearchAfter, SecondAfter, MarkAfter, PlacesOK, PagesLeft,
     Goes, SearchPlaces, SecondPlaces, store, process, history, budget
<1>4. QED
  BY <1>1, <1>2, <1>3

LEMMA SearchStartsType ==
  ASSUME Types, SearchStarts
  PROVE  Types'
<1> USE DEF Types
<1>a. object \in [Refs -> Record] /\ "search" \in Refs /\ second.job \in Stages
  BY StoreAssumption DEF MemoryOK, PlacesOK, Refs, Stages
<1>b. [NoRow EXCEPT !.status = "running", !.stage = "search"] \in Record
  BY <1>a, ValueTypes DEF Record, Statuses, Stages, Refs, Outcome, Job, StoreOK, StoredSuppression
<1>c. SaveJob("search", [NoRow EXCEPT !.status = "running", !.stage = "search"])
  BY DEF SearchStarts
<1>1. MemoryOK'
  BY <1>a, <1>b, <1>c, SaveJobType
<1>2. StoreOK'
  BY Bounds, ValueTypes DEF SearchStarts, StoreOK, Goes, Record, store, process, history, budget
<1>3. PlacesOK' /\ PagesLeft'
  BY Bounds DEF SearchStarts, PlacesOK, PagesLeft, Goes, SearchPlaces, SecondPlaces, store,
     process, history, budget
<1>4. QED
  BY <1>1, <1>2, <1>3

LEMMA SearchChecksType ==
  ASSUME Types, SearchChecks
  PROVE  Types'
<1> USE DEF Types
<1>1. MemoryOK'
  BY DEF SearchChecks, MemoryOK, store, process, history, budget
<1>2. StoreOK'
  BY Bounds, ValueTypes DEF SearchChecks, StoreOK, Goes, Record, store, process, history, budget
<1>3. PlacesOK' /\ PagesLeft'
  BY Bounds DEF SearchChecks, PlacesOK, PagesLeft, Goes, SearchPlaces, SecondPlaces, store,
     process, history, budget
<1>4. QED
  BY <1>1, <1>2, <1>3

LEMMA SearchIsToldType ==
  ASSUME Types, SearchIsTold
  PROVE  Types'
<1> USE DEF Types
<1>1. MemoryOK'
  BY DEF SearchIsTold, MemoryOK, store, process, history, budget
<1>2. StoreOK'
  BY Bounds, ValueTypes DEF SearchIsTold, CutsOff, StoreOK, Goes, Record, store, process, history, budget
<1>3. PlacesOK' /\ PagesLeft'
  BY Bounds DEF SearchIsTold, PlacesOK, PagesLeft, Goes, SearchPlaces, SecondPlaces, store,
     process, history, budget
<1>4. QED
  BY <1>1, <1>2, <1>3

LEMMA SearchReportsType ==
  ASSUME Types, NEW late \in BOOLEAN, SearchReports(late)
  PROVE  Types'
<1> USE DEF Types
<1>a. object \in [Refs -> Record] /\ "search" \in Refs /\ second.job \in Stages
  BY StoreAssumption DEF MemoryOK, PlacesOK, Refs, Stages
<1>b. object["search"] \in Record
  BY <1>a, ValueTypes DEF Record, Statuses, Stages, Refs, Outcome, Job, StoreOK, StoredSuppression
<1>c. SaveProgress("search", object["search"], late)
  BY DEF SearchReports
<1>1. MemoryOK'
  BY <1>a, <1>b, <1>c, SaveProgressType
<1>2. StoreOK'
  BY Bounds, ValueTypes DEF SearchReports, StoreOK, Goes, Record, store, process, history, budget
<1>3. PlacesOK' /\ PagesLeft'
  BY Bounds DEF SearchReports, PlacesOK, PagesLeft, Goes, SearchPlaces, SecondPlaces, store,
     process, history, budget
<1>4. QED
  BY <1>1, <1>2, <1>3

LEMMA SearchAcceptsType ==
  ASSUME Types, NEW c \in Found, SearchAccepts(c)
  PROVE  Types'
<1> USE DEF Types
<1>1. MemoryOK'
  BY DEF SearchAccepts, MemoryOK, StoreOK, Record, Refs, store, process, history, budget
<1>2. StoreOK'
  BY Bounds, ValueTypes DEF SearchAccepts, SaveCompetitor, StoreOK, Goes, Record, store, process,
     history, budget
<1>3. PlacesOK' /\ PagesLeft'
  BY Bounds DEF SearchAccepts, PlacesOK, PagesLeft, Goes, SearchPlaces, SecondPlaces, store,
     process, history, budget
<1>4. QED
  BY <1>1, <1>2, <1>3

LEMMA SearchSavesType ==
  ASSUME Types, NEW late \in BOOLEAN, SearchSaves(late)
  PROVE  Types'
<1> USE DEF Types
<1>a. "search" \in Refs /\ object["search"].stage \in Stages
  BY DEF MemoryOK, Record, Refs
<1> DEFINE writes == Reported("search", object["search"].stage, late) \o <<Save("search")>>
<1>b. writes \in Seq(Writes) /\ Len(writes) <= 2
  BY <1>a, ReportedType
<1>c. chain' = Queue(writes) /\ Room(2)
  BY DEF SearchSaves
<1> HIDE DEF writes
<1>d. chain' \in Seq(Writes) /\ Len(chain') <= MaxQueue
  BY <1>b, <1>c, QueueType DEF MemoryOK
<1>e. EntryAfter("search", object["search"].stage, late) \in ThrottleType
  BY <1>a, EntryType DEF MemoryOK
<1>f. throttle' \in ThrottleType
  BY <1>e DEF SearchSaves, ThrottleType
<1>1. MemoryOK'
  BY <1>d, <1>f DEF SearchSaves, MemoryOK
<1>2. StoreOK'
  BY Bounds, ValueTypes DEF SearchSaves, StoreOK, Goes, Record, store, process, history, budget
<1>3. PlacesOK' /\ PagesLeft'
  BY Bounds DEF SearchSaves, PlacesOK, PagesLeft, Goes, SearchPlaces, SecondPlaces, store,
     process, history, budget
<1>4. QED
  BY <1>1, <1>2, <1>3

LEMMA SearchFinishesType ==
  ASSUME Types, SearchFinishes
  PROVE  Types'
<1> USE DEF Types
<1>a. object \in [Refs -> Record] /\ "search" \in Refs /\ second.job \in Stages
  BY StoreAssumption DEF MemoryOK, PlacesOK, Refs, Stages
<1>b. [object["search"] EXCEPT !.status = Outcome(object["search"].roster), !.stage = "ended"] \in Record
  BY <1>a, ValueTypes DEF Record, Statuses, Stages, Refs, Outcome, Job, StoreOK, StoredSuppression
<1>c. SaveJob("search", [object["search"] EXCEPT !.status = Outcome(object["search"].roster), !.stage = "ended"])
  BY DEF SearchFinishes
<1>1. MemoryOK'
  BY <1>a, <1>b, <1>c, SaveJobType
<1>2. StoreOK'
  BY Bounds, ValueTypes DEF SearchFinishes, StoreOK, Goes, Record, store, process, history, budget
<1>3. PlacesOK' /\ PagesLeft'
  BY Bounds DEF SearchFinishes, PlacesOK, PagesLeft, Goes, SearchPlaces, SecondPlaces, store,
     process, history, budget
<1>4. QED
  BY <1>1, <1>2, <1>3

LEMMA SearchFailsType ==
  ASSUME Types, SearchFails
  PROVE  Types'
<1> USE DEF Types
<1>a. object \in [Refs -> Record] /\ "search" \in Refs /\ second.job \in Stages
  BY StoreAssumption DEF MemoryOK, PlacesOK, Refs, Stages
<1>b. [object["search"] EXCEPT !.status = "failed", !.stage = "ended"] \in Record
  BY <1>a, ValueTypes DEF Record, Statuses, Stages, Refs, Outcome, Job, StoreOK, StoredSuppression
<1>c. SaveJob("search", [object["search"] EXCEPT !.status = "failed", !.stage = "ended"])
  BY DEF SearchFails
<1>1. MemoryOK'
  BY <1>a, <1>b, <1>c, SaveJobType
<1>2. StoreOK'
  BY Bounds, ValueTypes DEF SearchFails, StoreOK, Goes, Record, store, process, history, budget
<1>3. PlacesOK' /\ PagesLeft'
  BY Bounds DEF SearchFails, PlacesOK, PagesLeft, Goes, SearchPlaces, SecondPlaces, store,
     process, history, budget
<1>4. QED
  BY <1>1, <1>2, <1>3

LEMMA SearchRescuedType ==
  ASSUME Types, SearchRescued
  PROVE  Types'
<1> USE DEF Types
<1>1. MemoryOK'
  BY UpdateJobType DEF SearchRescued
<1>2. StoreOK'
  BY Bounds, ValueTypes DEF SearchRescued, StoreOK, Goes, Record, store, process, history, budget
<1>3. PlacesOK' /\ PagesLeft'
  BY Bounds DEF SearchRescued, PlacesOK, PagesLeft, Goes, SearchPlaces, SecondPlaces, store,
     process, history, budget
<1>4. QED
  BY <1>1, <1>2, <1>3

LEMMA RouteReadsType ==
  ASSUME Types, RouteReads
  PROVE  Types'
<1> USE DEF Types
<1>1. MemoryOK'
  BY DEF RouteReads, MemoryOK, StoreOK, Record, Refs, store, process, history, budget
<1>2. StoreOK'
  BY Bounds, ValueTypes DEF RouteReads, StoreOK, Goes, Record, store, process, history, budget
<1>3. PlacesOK' /\ PagesLeft'
  BY Bounds DEF RouteReads, PlacesOK, PagesLeft, Goes, SearchPlaces, SecondPlaces, store,
     process, history, budget
<1>4. QED
  BY <1>1, <1>2, <1>3

LEMMA RouteLiftsType ==
  ASSUME Types, RouteLifts
  PROVE  Types'
<1> USE DEF Types
<1>1. MemoryOK'
  BY DEF RouteLifts, MemoryOK, store, process, history, budget
<1>2. StoreOK'
  BY Bounds, ValueTypes DEF RouteLifts, Forgets, LiftSuppression, StoreOK, Goes, Record, store,
     process, history, budget
<1>3. PlacesOK' /\ PagesLeft'
  BY Bounds DEF RouteLifts, Job, PlacesOK, PagesLeft, Goes, SearchPlaces, SecondPlaces, store,
     process, history, budget
<1>4. QED
  BY <1>1, <1>2, <1>3

LEMMA RouteClearsType ==
  ASSUME Types, RouteClears
  PROVE  Types'
<1> USE DEF Types
<1>1. MemoryOK'
  BY DEF RouteClears, MemoryOK, store, process, history, budget
<1>2. StoreOK'
  BY Bounds, ValueTypes DEF RouteClears, ClearStop, StoreOK, Goes, Record, store, process,
     history, budget
<1>3. PlacesOK' /\ PagesLeft'
  BY Bounds DEF RouteClears, PlacesOK, PagesLeft, Goes, SearchPlaces, SecondPlaces, store,
     process, history, budget
<1>4. QED
  BY <1>1, <1>2, <1>3

LEMMA RouteSavesType ==
  ASSUME Types, RouteSaves
  PROVE  Types'
<1> USE DEF Types
<1>a. object \in [Refs -> Record] /\ "second" \in Refs /\ second.job \in Stages
  BY StoreAssumption DEF MemoryOK, PlacesOK, Refs, Stages
<1>b. [object["second"] EXCEPT !.stage = second.job,
           !.stop = IF Job("offers") /\ object["second"].status = "running" THEN @ ELSE FALSE] \in Record
  BY <1>a, ValueTypes DEF Record, Statuses, Stages, Refs, Outcome, Job, StoreOK, StoredSuppression
<1>c. SaveJob("second", [object["second"] EXCEPT !.stage = second.job,
           !.stop = IF Job("offers") /\ object["second"].status = "running" THEN @ ELSE FALSE])
  BY DEF RouteSaves
<1>1. MemoryOK'
  BY <1>a, <1>b, <1>c, SaveJobType
<1>2. StoreOK'
  BY Bounds, ValueTypes DEF RouteSaves, StoreOK, Goes, Record, store, process, history, budget
<1>3. PlacesOK' /\ PagesLeft'
  BY Bounds DEF RouteSaves, PlacesOK, PagesLeft, Goes, SearchPlaces, SecondPlaces, store,
     process, history, budget
<1>4. QED
  BY <1>1, <1>2, <1>3

LEMMA ReviewRefusedType ==
  ASSUME Types, ReviewRefused
  PROVE  Types'
<1> USE DEF Types
<1>1. MemoryOK'
  BY UpdateJobType DEF ReviewRefused
<1>2. StoreOK'
  BY Bounds, ValueTypes DEF ReviewRefused, StoreOK, Goes, Record, store, process, history, budget
<1>3. PlacesOK' /\ PagesLeft'
  BY Bounds DEF ReviewRefused, PlacesOK, PagesLeft, Goes, SearchPlaces, SecondPlaces, store,
     process, history, budget
<1>4. QED
  BY <1>1, <1>2, <1>3

LEMMA OffersRefusedType ==
  ASSUME Types, OffersRefused
  PROVE  Types'
<1> USE DEF Types
<1>a. [row EXCEPT !.stage = "ended"] \in Record
  BY DEF StoreOK, Record, Stages
<1>1. MemoryOK'
  BY <1>a DEF OffersRefused, MemoryOK, Refs, store, process, history, budget
<1>2. StoreOK'
  BY Bounds, ValueTypes DEF OffersRefused, StoreOK, Goes, Record, store, process, history, budget
<1>3. PlacesOK' /\ PagesLeft'
  BY Bounds DEF OffersRefused, Exists, PlacesOK, PagesLeft, Goes, SearchPlaces, SecondPlaces,
     store, process, history, budget
<1>4. QED
  BY <1>1, <1>2, <1>3

LEMMA BatchLiftsType ==
  ASSUME Types, BatchLifts
  PROVE  Types'
<1> USE DEF Types
<1>1. MemoryOK'
  BY DEF BatchLifts, MemoryOK, store, process, history, budget
<1>2. StoreOK'
  BY Bounds, ValueTypes DEF BatchLifts, Forgets, LiftSuppression, StoreOK, Goes, Record, store,
     process, history, budget
<1>3. PlacesOK' /\ PagesLeft'
  BY Bounds DEF BatchLifts, PlacesOK, PagesLeft, Goes, SearchPlaces, SecondPlaces, store,
     process, history, budget
<1>4. QED
  BY <1>1, <1>2, <1>3

LEMMA BatchClearsType ==
  ASSUME Types, BatchClears
  PROVE  Types'
<1> USE DEF Types
<1>1. MemoryOK'
  BY DEF BatchClears, MemoryOK, store, process, history, budget
<1>2. StoreOK'
  BY Bounds, ValueTypes DEF BatchClears, ClearStop, StoreOK, Goes, Record, store, process,
     history, budget
<1>3. PlacesOK' /\ PagesLeft'
  BY Bounds DEF BatchClears, PlacesOK, PagesLeft, Goes, SearchPlaces, SecondPlaces, store,
     process, history, budget
<1>4. QED
  BY <1>1, <1>2, <1>3

LEMMA BatchReadsType ==
  ASSUME Types, BatchReads
  PROVE  Types'
<1> USE DEF Types
<1>1. MemoryOK'
  BY DEF BatchReads, MemoryOK, StoreOK, Record, Refs, store, process, history, budget
<1>2. StoreOK'
  BY Bounds, ValueTypes DEF BatchReads, StoreOK, Goes, Record, store, process, history, budget
<1>3. PlacesOK' /\ PagesLeft'
  BY Bounds DEF BatchReads, Exists, PlacesOK, PagesLeft, Goes, SearchPlaces, SecondPlaces, store,
     process, history, budget
<1>4. QED
  BY <1>1, <1>2, <1>3

LEMMA BatchSavesType ==
  ASSUME Types, BatchSaves
  PROVE  Types'
<1> USE DEF Types
<1>a. object \in [Refs -> Record] /\ "second" \in Refs /\ second.job \in Stages
  BY StoreAssumption DEF MemoryOK, PlacesOK, Refs, Stages
<1>b. [object["second"] EXCEPT !.stage = "review", !.stop = FALSE] \in Record
  BY <1>a, ValueTypes DEF Record, Statuses, Stages, Refs, Outcome, Job, StoreOK, StoredSuppression
<1>c. SaveJob("second", [object["second"] EXCEPT !.stage = "review", !.stop = FALSE])
  BY DEF BatchSaves
<1>1. MemoryOK'
  BY <1>a, <1>b, <1>c, SaveJobType
<1>2. StoreOK'
  BY Bounds, ValueTypes DEF BatchSaves, StoreOK, Goes, Record, store, process, history, budget
<1>3. PlacesOK' /\ PagesLeft'
  BY Bounds DEF BatchSaves, PlacesOK, PagesLeft, Goes, SearchPlaces, SecondPlaces, store,
     process, history, budget
<1>4. QED
  BY <1>1, <1>2, <1>3

LEMMA OffersReadsType ==
  ASSUME Types, OffersReads
  PROVE  Types'
<1> USE DEF Types
<1>1. MemoryOK'
  BY DEF OffersReads, MemoryOK, StoreOK, Record, Refs, store, process, history, budget
<1>2. StoreOK'
  BY Bounds, ValueTypes DEF OffersReads, StoreOK, Goes, Record, store, process, history, budget
<1>3. PlacesOK' /\ PagesLeft'
  BY Bounds DEF OffersReads, PlacesOK, PagesLeft, Goes, SearchPlaces, SecondPlaces, store,
     process, history, budget
<1>4. QED
  BY <1>1, <1>2, <1>3

LEMMA SecondReportsType ==
  ASSUME Types, NEW late \in BOOLEAN, SecondReports(late)
  PROVE  Types'
<1> USE DEF Types
<1>a. object \in [Refs -> Record] /\ "second" \in Refs /\ second.job \in Stages
  BY StoreAssumption DEF MemoryOK, PlacesOK, Refs, Stages
<1>b. [object["second"] EXCEPT !.stage = second.job] \in Record
  BY <1>a, ValueTypes DEF Record, Statuses, Stages, Refs, Outcome, Job, StoreOK, StoredSuppression
<1>c. SaveProgress("second", [object["second"] EXCEPT !.stage = second.job], late)
  BY DEF SecondReports
<1>1. MemoryOK'
  BY <1>a, <1>b, <1>c, SaveProgressType
<1>2. StoreOK'
  BY Bounds, ValueTypes DEF SecondReports, StoreOK, Goes, Record, store, process, history, budget
<1>3. PlacesOK' /\ PagesLeft'
  BY Bounds DEF SecondReports, PlacesOK, PagesLeft, Goes, SearchPlaces, SecondPlaces, store,
     process, history, budget
<1>4. QED
  BY <1>1, <1>2, <1>3

LEMMA SecondChecksType ==
  ASSUME Types, SecondChecks
  PROVE  Types'
<1> USE DEF Types
<1>1. MemoryOK'
  BY DEF SecondChecks, MemoryOK, store, process, history, budget
<1>2. StoreOK'
  BY Bounds, ValueTypes DEF SecondChecks, StoreOK, Goes, Record, store, process, history, budget
<1>3. PlacesOK' /\ PagesLeft'
  BY Bounds DEF SecondChecks, AfterWork, PlacesOK, PagesLeft, Goes, SearchPlaces, SecondPlaces,
     store, process, history, budget
<1>4. QED
  BY <1>1, <1>2, <1>3

LEMMA SecondIsToldType ==
  ASSUME Types, SecondIsTold
  PROVE  Types'
<1> USE DEF Types
<1>1. MemoryOK'
  BY DEF SecondIsTold, MemoryOK, store, process, history, budget
<1>2. StoreOK'
  BY Bounds, ValueTypes DEF SecondIsTold, CutsOff, StoreOK, Goes, Record, store, process, history, budget
<1>3. PlacesOK' /\ PagesLeft'
  BY Bounds DEF SecondIsTold, AfterWork, PlacesOK, PagesLeft, Goes, SearchPlaces, SecondPlaces,
     store, process, history, budget
<1>4. QED
  BY <1>1, <1>2, <1>3

LEMMA BatchRereadsType ==
  ASSUME Types, BatchRereads
  PROVE  Types'
<1> USE DEF Types
<1>1. MemoryOK'
  BY DEF BatchRereads, MemoryOK, StoreOK, Record, Refs, store, process, history, budget
<1>2. StoreOK'
  BY Bounds, ValueTypes DEF BatchRereads, StoreOK, Goes, Record, store, process, history, budget
<1>3. PlacesOK' /\ PagesLeft'
  BY Bounds DEF BatchRereads, Exists, PlacesOK, PagesLeft, Goes, SearchPlaces, SecondPlaces,
     store, process, history, budget
<1>4. QED
  BY <1>1, <1>2, <1>3

LEMMA BatchAsksType ==
  ASSUME Types, BatchAsks
  PROVE  Types'
<1> USE DEF Types
<1>1. MemoryOK'
  BY DEF BatchAsks, MemoryOK, store, process, history, budget
<1>2. StoreOK'
  BY Bounds, ValueTypes DEF BatchAsks, StoreOK, Goes, Record, store, process, history, budget
<1>3. PlacesOK' /\ PagesLeft'
  BY Bounds DEF BatchAsks, PlacesOK, PagesLeft, Goes, SearchPlaces, SecondPlaces, store,
     process, history, budget
<1>4. QED
  BY <1>1, <1>2, <1>3

LEMMA BatchFinishesType ==
  ASSUME Types, BatchFinishes
  PROVE  Types'
<1> USE DEF Types
<1>a. object \in [Refs -> Record] /\ "fresh" \in Refs /\ second.job \in Stages
  BY StoreAssumption DEF MemoryOK, PlacesOK, Refs, Stages
<1>b. [object["fresh"] EXCEPT !.stage = "ended",
           !.stop = @ \/ second.at = "stopping"] \in Record
  BY <1>a, ValueTypes DEF Record, Statuses, Stages, Refs, Outcome, Job, StoreOK, StoredSuppression
<1>c. SaveJob("fresh", [object["fresh"] EXCEPT !.stage = "ended",
           !.stop = @ \/ second.at = "stopping"])
  BY DEF BatchFinishes
<1>1. MemoryOK'
  BY <1>a, <1>b, <1>c, SaveJobType
<1>2. StoreOK'
  BY Bounds, ValueTypes DEF BatchFinishes, StoreOK, Goes, Record, store, process, history, budget
<1>3. PlacesOK' /\ PagesLeft'
  BY Bounds DEF BatchFinishes, PlacesOK, PagesLeft, Goes, SearchPlaces, SecondPlaces, store,
     process, history, budget
<1>4. QED
  BY <1>1, <1>2, <1>3

LEMMA OffersReportType ==
  ASSUME Types, NEW late \in BOOLEAN, OffersReport(late)
  PROVE  Types'
<1> USE DEF Types
<1>a. object \in [Refs -> Record] /\ "second" \in Refs /\ second.job \in Stages
  BY StoreAssumption DEF MemoryOK, PlacesOK, Refs, Stages
<1>b. [object["second"] EXCEPT !.stage = "ended"] \in Record
  BY <1>a, ValueTypes DEF Record, Statuses, Stages, Refs, Outcome, Job, StoreOK, StoredSuppression
<1>c. SaveProgress("second", [object["second"] EXCEPT !.stage = "ended"], late)
  BY DEF OffersReport
<1>1. MemoryOK'
  BY <1>a, <1>b, <1>c, SaveProgressType
<1>2. StoreOK'
  BY Bounds, ValueTypes DEF OffersReport, StoreOK, Goes, Record, store, process, history, budget
<1>3. PlacesOK' /\ PagesLeft'
  BY Bounds DEF OffersReport, PlacesOK, PagesLeft, Goes, SearchPlaces, SecondPlaces, store,
     process, history, budget
<1>4. QED
  BY <1>1, <1>2, <1>3

LEMMA OffersFinishesType ==
  ASSUME Types, OffersFinishes
  PROVE  Types'
<1> USE DEF Types
<1>a. object \in [Refs -> Record] /\ "second" \in Refs /\ second.job \in Stages
  BY StoreAssumption DEF MemoryOK, PlacesOK, Refs, Stages
<1>b. object["second"] \in Record
  BY <1>a, ValueTypes DEF Record, Statuses, Stages, Refs, Outcome, Job, StoreOK, StoredSuppression
<1>c. SaveJob("second", object["second"])
  BY DEF OffersFinishes
<1>1. MemoryOK'
  BY <1>a, <1>b, <1>c, SaveJobType
<1>2. StoreOK'
  BY Bounds, ValueTypes DEF OffersFinishes, StoreOK, Goes, Record, store, process, history, budget
<1>3. PlacesOK' /\ PagesLeft'
  BY Bounds DEF OffersFinishes, PlacesOK, PagesLeft, Goes, SearchPlaces, SecondPlaces, store,
     process, history, budget
<1>4. QED
  BY <1>1, <1>2, <1>3

LEMMA OffersFailsType ==
  ASSUME Types, NEW late \in BOOLEAN, OffersFails(late)
  PROVE  Types'
<1> USE DEF Types
<1>a. object \in [Refs -> Record] /\ "second" \in Refs /\ second.job \in Stages
  BY StoreAssumption DEF MemoryOK, PlacesOK, Refs, Stages
<1>b. [object["second"] EXCEPT !.stage = "ended"] \in Record
  BY <1>a, ValueTypes DEF Record, Statuses, Stages, Refs, Outcome, Job, StoreOK, StoredSuppression
<1>c. SaveProgress("second", [object["second"] EXCEPT !.stage = "ended"], late)
  BY DEF OffersFails
<1>1. MemoryOK'
  BY <1>a, <1>b, <1>c, SaveProgressType
<1>2. StoreOK'
  BY Bounds, ValueTypes DEF OffersFails, StoreOK, Goes, Record, store, process, history, budget
<1>3. PlacesOK' /\ PagesLeft'
  BY Bounds DEF OffersFails, PlacesOK, PagesLeft, Goes, SearchPlaces, SecondPlaces, store,
     process, history, budget
<1>4. QED
  BY <1>1, <1>2, <1>3

LEMMA PressStopType ==
  ASSUME Types, PressStop
  PROVE  Types'
<1> USE DEF Types
<1>1. MemoryOK'
  BY DEF PressStop, MemoryOK, store, process, history, budget
<1>2. StoreOK'
  BY Bounds, ValueTypes DEF PressStop, StoreOK, Goes, Record, store, process, history, budget
<1>3. PlacesOK' /\ PagesLeft'
  BY Bounds DEF PressStop, PlacesOK, PagesLeft, Goes, SearchPlaces, SecondPlaces, store, process,
     history, budget
<1>4. QED
  BY <1>1, <1>2, <1>3

LEMMA StopCommitsType ==
  ASSUME Types, StopCommits
  PROVE  Types'
<1> USE DEF Types
<1>1. MemoryOK'
  BY DEF StopCommits, MemoryOK, store, process, history, budget
<1>2. StoreOK'
  BY Bounds, ValueTypes DEF StopCommits, CutsOff, Statuses, Stages, StoreOK, Goes, Record, store, process,
     history, budget
<1>3. PlacesOK' /\ PagesLeft'
  BY Bounds DEF StopCommits, PlacesOK, PagesLeft, Goes, SearchPlaces, SecondPlaces, store,
     process, history, budget
<1>4. QED
  BY <1>1, <1>2, <1>3

LEMMA PressDeleteType ==
  ASSUME Types, PressDelete
  PROVE  Types'
<1> USE DEF Types
<1>1. MemoryOK'
  BY DEF PressDelete, MemoryOK, store, process, history, budget
<1>2. StoreOK'
  BY Bounds, ValueTypes DEF PressDelete, StoreOK, Goes, Record, store, process, history, budget
<1>3. PlacesOK' /\ PagesLeft'
  BY Bounds DEF PressDelete, PlacesOK, PagesLeft, Goes, SearchPlaces, SecondPlaces, store,
     process, history, budget
<1>4. QED
  BY <1>1, <1>2, <1>3

LEMMA DeleteCommitsType ==
  ASSUME Types, DeleteCommits
  PROVE  Types'
<1> USE DEF Types
<1>1. MemoryOK'
  BY DEF DeleteCommits, MemoryOK, store, process, history, budget
<1>2. StoreOK'
  BY Bounds, ValueTypes DEF DeleteCommits, RemoveRun, CutsOff, StoreOK, Goes, Record, store, process,
     history, budget
<1>3. PlacesOK' /\ PagesLeft'
  BY Bounds DEF DeleteCommits, PlacesOK, PagesLeft, Goes, SearchPlaces, SecondPlaces, store,
     process, history, budget
<1>4. QED
  BY <1>1, <1>2, <1>3

LEMMA ClearAllHistoryType ==
  ASSUME Types, ClearAllHistory
  PROVE  Types'
<1> USE DEF Types
<1>1. MemoryOK'
  BY DEF ClearAllHistory, MemoryOK, store, process, history, budget
<1>2. StoreOK'
  BY Bounds, ValueTypes DEF ClearAllHistory, RemoveRun, CutsOff, StoreOK, Goes, Record, store, process,
     history, budget
<1>3. PlacesOK' /\ PagesLeft'
  BY Bounds DEF ClearAllHistory, PlacesOK, PagesLeft, Goes, SearchPlaces, SecondPlaces, store,
     process, history, budget
<1>4. QED
  BY <1>1, <1>2, <1>3

LEMMA RequestFailsType ==
  ASSUME Types, RequestFails
  PROVE  Types'
<1> USE DEF Types
<1>1. MemoryOK'
  BY DEF RequestFails, MemoryOK, store, process, history, budget
<1>2. StoreOK'
  BY Bounds, ValueTypes DEF RequestFails, CutsOff, StoreOK, Goes, Record, store, process, history, budget
<1>3. PlacesOK' /\ PagesLeft'
  BY Bounds DEF RequestFails, PlacesOK, PagesLeft, Goes, SearchPlaces, SecondPlaces, store,
     process, history, budget
<1>4. QED
  BY <1>1, <1>2, <1>3

LEMMA DeleteOtherRunType ==
  ASSUME Types, DeleteOtherRun
  PROVE  Types'
<1> USE DEF Types
<1>1. MemoryOK'
  BY DEF DeleteOtherRun, MemoryOK, store, process, history, budget
<1>2. StoreOK'
  BY Bounds, ValueTypes DEF DeleteOtherRun, PushedOut, Forgets, StoreOK, Goes, Record, store,
     process, history, budget
<1>3. PlacesOK' /\ PagesLeft'
  BY Bounds DEF DeleteOtherRun, PlacesOK, PagesLeft, Goes, SearchPlaces, SecondPlaces, store,
     process, history, budget
<1>4. QED
  BY <1>1, <1>2, <1>3

LEMMA PollEndsReviewType ==
  ASSUME Types, PollEndsReview
  PROVE  Types'
<1> USE DEF Types
<1>1. MemoryOK'
  BY UpdateJobType DEF PollEndsReview
<1>2. StoreOK'
  BY Bounds, ValueTypes DEF PollEndsReview, StoreOK, Goes, Record, store, process, history, budget
<1>3. PlacesOK' /\ PagesLeft'
  BY Bounds DEF PollEndsReview, PlacesOK, PagesLeft, Goes, SearchPlaces, SecondPlaces, store,
     process, history, budget
<1>4. QED
  BY <1>1, <1>2, <1>3

LEMMA RestartType ==
  ASSUME Types, Restart
  PROVE  Types'
<1> USE DEF Types
<1>1. MemoryOK'
  BY ValueTypes, Bounds DEF Restart, MemoryOK
<1>2. StoreOK'
  BY Bounds, ValueTypes DEF Restart, Interrupted, Forgets, CutsOff, Statuses, Stages, StoreOK, Goes,
     Record, store, process, history, budget
<1>a. second' \in [job : Jobs2, at : SecondPlaces]
  BY DEF Restart, PlacesOK, SecondPlaces
<1>b. /\ restarts < MaxRestarts /\ restarts' = restarts + 1
      /\ search' = "over" /\ asked' = {} /\ reviewing' = FALSE
      /\ pages' = 0 /\ stops' = stops /\ faults' = faults
  BY ZenonT(30) DEF Restart
<1>c. restarts' \in 0..MaxRestarts
  BY <1>b, Bounds DEF PlacesOK
<1>d. asked' \subseteq {"stop", "delete"} /\ reviewing' \in BOOLEAN /\ search' \in SearchPlaces
  BY <1>b DEF SearchPlaces
<1>e. pages' \in 0..Pages /\ stops' \in 0..MaxStops /\ faults' \in 0..MaxFaults
  BY <1>b, Bounds DEF PlacesOK
<1>3. PlacesOK' /\ PagesLeft'
  BY <1>a, <1>b, <1>c, <1>d, <1>e DEF PlacesOK, PagesLeft
<1>4. QED
  BY <1>1, <1>2, <1>3

LEMMA InitTypes == Init => Types
<1> SUFFICES ASSUME Init PROVE Types
  OBVIOUS
<1>1. StoreOK
  <2>1. [NoRow EXCEPT !.status = "running", !.stage = "search"] \in Record
    BY ValueTypes DEF Record, Statuses, Stages
  <2>2. row \in Record
    BY <2>1, Zenon DEF Init
  <2>3. /\ stored = {} /\ tomb = 0 /\ suppressed = FALSE
        /\ deleted = FALSE /\ forgotten = FALSE /\ cutOff = FALSE
    BY Zenon DEF Init
  <2>4. 0 \in 0..MaxTombstones
    BY Bounds
  <2>5. QED
    BY <2>2, <2>3, <2>4, Zenon DEF StoreOK
<1>2. MemoryOK
  <2>1. <<>> \in Seq(Writes) /\ Len(<<>>) = 0
    OBVIOUS
  <2>2. QED
    BY <2>1, ValueTypes, Bounds DEF Init, MemoryOK
<1>3. PlacesOK /\ PagesLeft
  <2>1. second \in [job : Jobs2, at : SecondPlaces]
    BY DEF Init, SecondPlaces
  <2>2. /\ search = "start" /\ pages = Pages /\ reviewing = FALSE /\ asked = {}
        /\ stops = 0 /\ restarts = 0 /\ faults = 0
    BY Zenon DEF Init
  <2>3. /\ Pages \in 0..Pages /\ 0 \in 0..MaxStops /\ 0 \in 0..MaxRestarts
        /\ 0 \in 0..MaxFaults
    BY Bounds
  <2>4. "start" \in SearchPlaces /\ "start" \notin {"scanning", "accepted"}
    BY DEF SearchPlaces
  <2>5. PagesLeft
    BY <2>2, <2>4 DEF PagesLeft
  <2>6. QED
    BY <2>1, <2>2, <2>3, <2>4, <2>5, Zenon DEF PlacesOK
<1>4. QED
  BY <1>1, <1>2, <1>3 DEF Types

LEMMA StepTypes == Types /\ [Next]_vars => Types'
<1> SUFFICES ASSUME Types, [Next]_vars PROVE Types'
  OBVIOUS
<1>1. CASE TimerFires
  BY <1>1, TimerFiresType
<1>2. CASE WriteLands
  BY <1>2, WriteLandsType
<1>3. CASE WriteFails
  BY <1>3, WriteFailsType
<1>4. CASE SearchStarts
  BY <1>4, SearchStartsType
<1>5. CASE SearchChecks
  BY <1>5, SearchChecksType
<1>6. CASE SearchIsTold
  BY <1>6, SearchIsToldType
<1>7. CASE \E late \in BOOLEAN : SearchReports(late)
  BY <1>7, SearchReportsType
<1>8. CASE \E c \in Found : SearchAccepts(c)
  BY <1>8, SearchAcceptsType
<1>9. CASE \E late \in BOOLEAN : SearchSaves(late)
  BY <1>9, SearchSavesType
<1>10. CASE SearchFinishes
  BY <1>10, SearchFinishesType
<1>11. CASE SearchFails
  BY <1>11, SearchFailsType
<1>12. CASE SearchRescued
  BY <1>12, SearchRescuedType
<1>13. CASE RouteReads
  BY <1>13, RouteReadsType
<1>14. CASE RouteLifts
  BY <1>14, RouteLiftsType
<1>15. CASE RouteClears
  BY <1>15, RouteClearsType
<1>16. CASE RouteSaves
  BY <1>16, RouteSavesType
<1>17. CASE ReviewRefused
  BY <1>17, ReviewRefusedType
<1>17a. CASE OffersRefused
  BY <1>17a, OffersRefusedType
<1>18. CASE BatchLifts
  BY <1>18, BatchLiftsType
<1>19. CASE BatchClears
  BY <1>19, BatchClearsType
<1>20. CASE BatchReads
  BY <1>20, BatchReadsType
<1>21. CASE BatchSaves
  BY <1>21, BatchSavesType
<1>22. CASE OffersReads
  BY <1>22, OffersReadsType
<1>23. CASE \E late \in BOOLEAN : SecondReports(late)
  BY <1>23, SecondReportsType
<1>24. CASE SecondChecks
  BY <1>24, SecondChecksType
<1>25. CASE SecondIsTold
  BY <1>25, SecondIsToldType
<1>26. CASE BatchRereads
  BY <1>26, BatchRereadsType
<1>27. CASE BatchFinishes
  BY <1>27, BatchFinishesType
<1>27a. CASE BatchAsks
  BY <1>27a, BatchAsksType
<1>28. CASE \E late \in BOOLEAN : OffersReport(late)
  BY <1>28, OffersReportType
<1>29. CASE OffersFinishes
  BY <1>29, OffersFinishesType
<1>30. CASE \E late \in BOOLEAN : OffersFails(late)
  BY <1>30, OffersFailsType
<1>31. CASE PressStop
  BY <1>31, PressStopType
<1>32. CASE StopCommits
  BY <1>32, StopCommitsType
<1>33. CASE PressDelete
  BY <1>33, PressDeleteType
<1>34. CASE DeleteCommits
  BY <1>34, DeleteCommitsType
<1>35. CASE ClearAllHistory
  BY <1>35, ClearAllHistoryType
<1>36. CASE RequestFails
  BY <1>36, RequestFailsType
<1>37. CASE DeleteOtherRun
  BY <1>37, DeleteOtherRunType
<1>38. CASE PollEndsReview
  BY <1>38, PollEndsReviewType
<1>39. CASE Restart
  BY <1>39, RestartType
<1>40. CASE UNCHANGED vars
  BY <1>40 DEF Types, StoreOK, MemoryOK, PlacesOK, PagesLeft, vars, store, process, history,
     budget
<1>41. QED
  BY <1>1, <1>2, <1>3, <1>4, <1>5, <1>6, <1>7, <1>8, <1>9, <1>10, <1>11, <1>12, <1>13, <1>14,
     <1>15, <1>16, <1>17, <1>17a, <1>18, <1>19, <1>20, <1>21, <1>22, <1>23, <1>24, <1>25, <1>26,
     <1>27, <1>27a, <1>28, <1>29, <1>30, <1>31, <1>32, <1>33, <1>34, <1>35, <1>36, <1>37, <1>38,
     <1>39, <1>40
     DEF Next, Search, Second, Requests, Commits

(* The variables keep the types of what they model.                        *)
THEOREM TypeCorrect == Spec => []TypeOK
<1>1. Spec => []Types
  BY InitTypes, StepTypes, PTL DEF Spec
<1>2. QED
  BY <1>1, TypeParts, PTL

-----------------------------------------------------------------------------
(* A deleted run stays away because a tombstone or the suppressed set       *)
(* refuses every write; a stored competitor is listed because each write    *)
(* keeps the roster it finds.                                               *)

Guarded ==
  deleted /\ ~forgotten => row = NoRow /\ stored = {} /\ (tomb # 0 \/ suppressed)

Kept == Guarded /\ CompetitorsBelong

LEMMA RowKept ==
  ASSUME row \in Record
  PROVE  /\ [row EXCEPT !.stop = FALSE].roster = row.roster
         /\ row = NoRow => [row EXCEPT !.stop = FALSE] = NoRow
         /\ Interrupted(row).roster = row.roster
         /\ row = NoRow => Interrupted(row) = NoRow
<1>1. row = NoRow => row.status = "none" /\ row.stop = FALSE
  BY DEF NoRow
<1>2. [row EXCEPT !.stop = row.stop] = row
  BY DEF Record
<1>3. row.status # "running" => Interrupted(row) = row
  BY DEF Interrupted
<1>4. Interrupted(row).roster = row.roster
  BY DEF Interrupted, Record
<1>5. QED
  BY <1>1, <1>2, <1>3, <1>4 DEF Record

LEMMA StepKept == Types /\ Kept /\ [Next]_vars => Kept'
<1> SUFFICES ASSUME Types, Kept, [Next]_vars PROVE Kept'
  OBVIOUS
<1> USE DEF Kept, Guarded, CompetitorsBelong
<1>1. CASE TimerFires
  BY <1>1 DEF TimerFires, store, process, history, budget
<1>2. CASE WriteLands
  <2>1. row.roster \subseteq WrittenBy(Head(chain)).roster
    BY <1>2 DEF WrittenBy, Types, StoreOK, Record
  <2>2. QED
    BY <1>2, <2>1 DEF WriteLands, Refused, Exists, NoRow
<1>3. CASE WriteFails
  BY <1>3 DEF WriteFails, store, process, history, budget
<1>4. CASE SearchStarts
  BY <1>4 DEF SearchStarts, store, process, history, budget
<1>5. CASE SearchChecks
  BY <1>5 DEF SearchChecks, store, process, history, budget
<1>6. CASE SearchIsTold
  BY <1>6 DEF SearchIsTold, store, process, history, budget
<1>7. CASE \E late \in BOOLEAN : SearchReports(late)
  BY <1>7 DEF SearchReports, store, process, history, budget
<1>8. CASE \E c \in Found : SearchAccepts(c)
  <2>1. PICK c \in Found : SaveCompetitor(c) /\ UNCHANGED history
    BY <1>8 DEF SearchAccepts
  <2>2. row = NoRow => row.status = "none"
    BY DEF NoRow
  <2>3. stored' \subseteq row'.roster
    BY <2>1 DEF SaveCompetitor, Types, StoreOK, Record
  <2>4. QED
    BY <2>1, <2>2, <2>3 DEF SaveCompetitor, Exists, history
<1>9. CASE \E late \in BOOLEAN : SearchSaves(late)
  BY <1>9 DEF SearchSaves, store, process, history, budget
<1>10. CASE SearchFinishes
  BY <1>10 DEF SearchFinishes, store, process, history, budget
<1>11. CASE SearchFails
  BY <1>11 DEF SearchFails, store, process, history, budget
<1>12. CASE SearchRescued
  BY <1>12 DEF SearchRescued, store, process, history, budget
<1>13. CASE RouteReads
  BY <1>13 DEF RouteReads, store, process, history, budget
<1>14. CASE RouteLifts
  BY <1>14 DEF RouteLifts, LiftSuppression, Forgets, store
<1>15. CASE RouteClears
  BY <1>15, RowKept DEF RouteClears, ClearStop, process, history, Types, StoreOK
<1>16. CASE RouteSaves
  BY <1>16 DEF RouteSaves, store, process, history, budget
<1>17. CASE ReviewRefused
  BY <1>17 DEF ReviewRefused, store, process, history, budget
<1>17a. CASE OffersRefused
  BY <1>17a DEF OffersRefused, store, process, history, budget
<1>18. CASE BatchLifts
  BY <1>18 DEF BatchLifts, LiftSuppression, Forgets, store
<1>19. CASE BatchClears
  BY <1>19, RowKept DEF BatchClears, ClearStop, process, history, Types, StoreOK
<1>20. CASE BatchReads
  BY <1>20 DEF BatchReads, store, process, history, budget
<1>21. CASE BatchSaves
  BY <1>21 DEF BatchSaves, store, process, history, budget
<1>22. CASE OffersReads
  BY <1>22 DEF OffersReads, store, process, history, budget
<1>23. CASE \E late \in BOOLEAN : SecondReports(late)
  BY <1>23 DEF SecondReports, store, process, history, budget
<1>24. CASE SecondChecks
  BY <1>24 DEF SecondChecks, store, process, history, budget
<1>25. CASE SecondIsTold
  BY <1>25 DEF SecondIsTold, store, process, history, budget
<1>26. CASE BatchRereads
  BY <1>26 DEF BatchRereads, store, process, history, budget
<1>27. CASE BatchFinishes
  BY <1>27 DEF BatchFinishes, store, process, history, budget
<1>27a. CASE BatchAsks
  BY <1>27a DEF BatchAsks, store, process, history, budget
<1>28. CASE \E late \in BOOLEAN : OffersReport(late)
  BY <1>28 DEF OffersReport, store, process, history, budget
<1>29. CASE OffersFinishes
  BY <1>29 DEF OffersFinishes, store, process, history, budget
<1>30. CASE \E late \in BOOLEAN : OffersFails(late)
  BY <1>30 DEF OffersFails, store, process, history, budget
<1>31. CASE PressStop
  BY <1>31 DEF PressStop, store, process, history, budget
<1>32. CASE StopCommits
  <2>1. row.roster \subseteq row'.roster
    BY <1>32 DEF StopCommits, Types, StoreOK, Record
  <2>2. row = NoRow => row' = row
    BY <1>32 DEF StopCommits, Exists, NoRow
  <2>3. UNCHANGED <<stored, tomb, suppressed, deleted, forgotten>>
    BY <1>32 DEF StopCommits, process
  <2>4. QED
    BY <2>1, <2>2, <2>3
<1>33. CASE PressDelete
  BY <1>33 DEF PressDelete, store, process, history, budget
<1>34. CASE DeleteCommits
  BY <1>34 DEF DeleteCommits, RemoveRun, process
<1>35. CASE ClearAllHistory
  BY <1>35 DEF ClearAllHistory, RemoveRun
<1>36. CASE RequestFails
  BY <1>36 DEF RequestFails, store, process, history, budget
<1>37. CASE DeleteOtherRun
  BY <1>37 DEF DeleteOtherRun, Forgets, process
<1>38. CASE PollEndsReview
  BY <1>38 DEF PollEndsReview, store, process, history, budget
<1>39. CASE Restart
  <2>1. row' = Interrupted(row) /\ stored' = stored
    BY <1>39 DEF Restart
  <2>2. Forgets /\ tomb' = tomb
    BY <1>39 DEF Restart
  <2>3. QED
    BY <2>1, <2>2, RowKept DEF Forgets, Types, StoreOK
<1>40. CASE UNCHANGED vars
  BY <1>40 DEF vars, store, process, history
<1>41. QED
  BY <1>1, <1>2, <1>3, <1>4, <1>5, <1>6, <1>7, <1>8, <1>9, <1>10, <1>11, <1>12, <1>13, <1>14,
     <1>15, <1>16, <1>17, <1>17a, <1>18, <1>19, <1>20, <1>21, <1>22, <1>23, <1>24, <1>25, <1>26,
     <1>27, <1>27a, <1>28, <1>29, <1>30, <1>31, <1>32, <1>33, <1>34, <1>35, <1>36, <1>37, <1>38,
     <1>39, <1>40
     DEF Next, Search, Second, Requests, Commits

LEMMA KeptAlways == Spec => []Kept
<1>1. Init => Kept
  BY DEF Init, Kept, Guarded, CompetitorsBelong, NoRow
<1>2. QED
  BY <1>1, InitTypes, StepTypes, StepKept, PTL DEF Spec

(* No write of a pipeline still running brings a deleted run or one of its *)
(* competitors back while its tombstone or its suppression lasts.          *)
THEOREM DeletedStaysGone == Spec => []DeletedRunStaysGone
<1>1. Kept => DeletedRunStaysGone
  BY DEF Kept, Guarded, DeletedRunStaysGone
<1>2. QED
  BY <1>1, KeptAlways, PTL

(* A stored competitor is always listed by its run.                        *)
THEOREM CompetitorsListed == Spec => []CompetitorsBelong
<1>1. Kept => CompetitorsBelong
  BY DEF Kept
<1>2. QED
  BY <1>1, KeptAlways, PTL

-----------------------------------------------------------------------------
(* What the steps do to the chain of writes and to the throttle.           *)

OnChain(ref) == \E i \in DOMAIN chain : chain[i].ref = ref
Armed(ref) == throttle.armed /\ throttle.ref = ref
Pending(ref) == OnChain(ref) \/ Armed(ref)

(* The chain gets new writes of a set at its end; exactly one; loses its   *)
(* first.                                                                  *)
Grows(writes) ==
  /\ \A i \in DOMAIN chain : i \in DOMAIN chain' /\ chain'[i] = chain[i]
  /\ \A i \in DOMAIN chain' : i \in DOMAIN chain \/ chain'[i] \in writes
  /\ \A i \in DOMAIN chain, j \in DOMAIN chain' : j > i \/ j \in DOMAIN chain

Adds(write) ==
  \E n \in DOMAIN chain' :
    /\ chain'[n] = write /\ n \notin DOMAIN chain
    /\ \A i \in DOMAIN chain : i \in DOMAIN chain' /\ chain'[i] = chain[i] /\ i < n
    /\ \A i \in DOMAIN chain' : i \in DOMAIN chain \/ i = n

Shrinks ==
  /\ \A i \in DOMAIN chain' : i + 1 \in DOMAIN chain /\ chain'[i] = chain[i + 1] /\ i + 1 > 1
  /\ 1 \in DOMAIN chain /\ Head(chain) = chain[1]

LEMMA Indices ==
  ASSUME NEW s \in Seq(Writes), NEW w
  PROVE  /\ DOMAIN s \subseteq Nat \ {0}
         /\ DOMAIN (s \o <<w>>) = 1 .. Len(s) + 1 /\ DOMAIN s = 1 .. Len(s) /\ Len(s) \in Nat
         /\ (s \o <<w>>)[Len(s) + 1] = w
         /\ \A i \in DOMAIN s : (s \o <<w>>)[i] = s[i]
  OBVIOUS

LEMMA AddsOne ==
  ASSUME chain \in Seq(Writes), NEW w, chain' = Queue(<<w>>)
  PROVE  Adds(w) /\ Grows({w}) /\ chain' # <<>>
<1>1. chain' = chain \o <<w>>
  BY DEF Queue
<1> DEFINE n == Len(chain) + 1
<1>2. /\ DOMAIN chain' = 1 .. n /\ DOMAIN chain = 1 .. n - 1 /\ n \in Nat /\ n > 0
      /\ chain'[n] = w /\ \A i \in DOMAIN chain : chain'[i] = chain[i]
  BY <1>1, Indices
<1> HIDE DEF n
<1>3. chain' # <<>>
  <2>1. n \in DOMAIN chain'
    BY <1>2
  <2>2. DOMAIN <<>> = {}
    OBVIOUS
  <2>3. QED
    BY <2>1, <2>2
<1>4. QED
  BY <1>2, <1>3 DEF Adds, Grows

LEMMA AddsNone ==
  ASSUME chain' = chain, NEW writes
  PROVE  Grows(writes)
BY DEF Grows

LEMMA LosesFirst ==
  ASSUME chain \in Seq(Writes), chain # <<>>, chain' = Tail(chain)
  PROVE  Shrinks
<1>1. /\ Len(chain) \in Nat \ {0} /\ DOMAIN chain = 1 .. Len(chain)
      /\ DOMAIN Tail(chain) = 1 .. Len(chain) - 1
      /\ \A i \in 1 .. Len(chain) - 1 : Tail(chain)[i] = chain[i + 1]
      /\ Head(chain) = chain[1]
  OBVIOUS
<1>2. QED
  BY <1>1 DEF Shrinks

LEMMA SaveJobEffect ==
  ASSUME MemoryOK, NEW ref \in Refs, NEW content, SaveJob(ref, content)
  PROVE  /\ object' = [object EXCEPT ![ref] = content]
         /\ ~throttle'.armed /\ Adds(Save(ref)) /\ Grows({Save(ref)}) /\ chain' # <<>>
<1>1. chain \in Seq(Writes) /\ chain' = Queue(<<Save(ref)>>)
  BY DEF SaveJob, MemoryOK
<1>2. ~throttle'.armed
  BY DEF SaveJob, SettledEntry, NoEntry, MemoryOK, ThrottleType
<1>3. QED
  BY <1>1, <1>2, AddsOne DEF SaveJob

LEMMA UpdateJobEffect ==
  ASSUME MemoryOK, NEW to, UpdateJob(to)
  PROVE  object' = object /\ ~throttle'.armed /\ Grows({Patch(to)}) /\ chain' # <<>>
<1>1. chain \in Seq(Writes) /\ chain' = Queue(<<Patch(to)>>)
  BY DEF UpdateJob, MemoryOK
<1>2. ~throttle'.armed
  BY DEF UpdateJob, SettledEntry, NoEntry, MemoryOK, ThrottleType
<1>3. QED
  BY <1>1, <1>2, AddsOne DEF UpdateJob

LEMMA ReportedEffect ==
  ASSUME MemoryOK, NEW ref, NEW stage, NEW late, chain' = Queue(Reported(ref, stage, late))
  PROVE  Grows({Progress(ref)}) /\ (Urgent(stage, late) => chain' # <<>>)
<1>1. chain \in Seq(Writes)
  BY DEF MemoryOK
<1>2. CASE Urgent(stage, late)
  BY <1>1, <1>2, AddsOne DEF Reported
<1>3. CASE ~Urgent(stage, late)
  <2>1. chain' = chain \o <<>>
    BY <1>3 DEF Reported, Queue
  <2>2. chain' = chain
    BY <1>1, <2>1
  <2>3. QED
    BY <1>3, <2>2, AddsNone
<1>4. QED
  BY <1>2, <1>3

LEMMA SaveProgressEffect ==
  ASSUME MemoryOK, NEW ref \in Refs, NEW content, NEW late, SaveProgress(ref, content, late)
  PROVE  /\ object' = [object EXCEPT ![ref] = content]
         /\ throttle'.ref = ref /\ Grows({Progress(ref)})
         /\ chain' # <<>> \/ throttle'.armed
<1>1. Grows({Progress(ref)}) /\ (Urgent(content.stage, late) => chain' # <<>>)
  BY ReportedEffect DEF SaveProgress
<1>2. throttle'.ref = ref /\ throttle'.armed = ~Urgent(content.stage, late)
  BY DEF SaveProgress, EntryAfter
<1>3. QED
  BY <1>1, <1>2 DEF SaveProgress

LEMMA TimerEffect ==
  ASSUME MemoryOK, TimerFires
  PROVE  /\ throttle.armed /\ ~throttle'.armed
         /\ Grows({Progress(throttle.ref)}) /\ chain' # <<>>
<1>1. ~throttle'.armed
  BY DEF TimerFires, MemoryOK, ThrottleType
<1>2. QED
  BY <1>1, AddsOne DEF TimerFires, MemoryOK

LEMMA SearchSavesEffect ==
  ASSUME MemoryOK, NEW late, SearchSaves(late)
  PROVE  ~throttle'.armed /\ Grows({Save("search"), Progress("search")}) /\ chain' # <<>>
<1> DEFINE stage == object["search"].stage
<1>1. chain' = Queue(Reported("search", stage, late) \o <<Save("search")>>)
  BY DEF SearchSaves
<1>2. ~throttle'.armed
  BY DEF SearchSaves, EntryAfter
<1>3. chain \in Seq(Writes) /\ Progress("search") \in Writes /\ Save("search") \in Writes
  BY ValueTypes DEF MemoryOK, Refs
<1> HIDE DEF stage
<1>4. CASE ~Urgent(stage, late)
  <2>1. chain' = Queue(<<Save("search")>>)
    <3>1. Reported("search", stage, late) = <<>>
      BY <1>4 DEF Reported
    <3>2. <<>> \o <<Save("search")>> = <<Save("search")>>
      OBVIOUS
    <3>3. QED
      BY <1>1, <3>1, <3>2
  <2>2. QED
    BY <2>1, <1>2, <1>3, AddsOne DEF Grows
<1>5. CASE Urgent(stage, late)
  <2> DEFINE mid == chain \o <<Progress("search")>>
             n == Len(chain)
  <2>1. mid \in Seq(Writes) /\ Len(mid) = n + 1 /\ n \in Nat
    BY <1>3
  <2>2. chain' = mid \o <<Save("search")>>
    <3>1. Reported("search", stage, late) = <<Progress("search")>>
      BY <1>5 DEF Reported
    <3>2. chain' = chain \o (<<Progress("search")>> \o <<Save("search")>>)
      BY <1>1, <3>1 DEF Queue
    <3>3. <<Progress("search")>> \in Seq(Writes) /\ <<Save("search")>> \in Seq(Writes)
      BY <1>3
    <3>4. QED
      BY <1>3, <3>2, <3>3
  <2>3. /\ DOMAIN chain = 1 .. n /\ DOMAIN mid = 1 .. n + 1
        /\ mid[n + 1] = Progress("search") /\ \A i \in DOMAIN chain : mid[i] = chain[i]
    BY <1>3, Indices
  <2> HIDE DEF mid, n
  <2>4. /\ DOMAIN chain' = 1 .. (n + 1) + 1 /\ chain'[(n + 1) + 1] = Save("search")
        /\ \A i \in DOMAIN mid : chain'[i] = mid[i]
    BY <2>1, <2>2, Indices
  <2>5. (n + 1) + 1 \in DOMAIN chain' /\ DOMAIN <<>> = {}
    BY <2>1, <2>4
  <2>6. chain' # <<>>
    BY <2>5
  <2>7. Grows({Save("search"), Progress("search")})
    BY <2>1, <2>3, <2>4 DEF Grows
  <2>8. QED
    BY <1>2, <2>6, <2>7
<1>6. QED
  BY <1>4, <1>5

-----------------------------------------------------------------------------
(* The kinds of steps the invariants below tell apart.                     *)

(* Nothing that was counted is taken back, and a stage that was cut off is *)
(* remembered as long as it is in the row.                                 *)
Counted ==
  /\ faults' = 0 => faults = 0
  /\ deleted => deleted'
  /\ cutOff /\ row'.stage \in JobStages => cutOff'

(* Somebody looks, or suppresses the run.                                  *)
Watches ==
  /\ UNCHANGED <<row, chain, throttle, object, second>>
  /\ suppressed => suppressed'
  /\ \/ search' = search
     \/ /\ search \notin {"start", "over"}
        /\ search' \notin {"start", "final", "failed", "rescue", "failing"}
        /\ search' = "over" => suppressed'

(* The search changes its object, which it may write.                      *)
SearchWorks ==
  /\ UNCHANGED second
  /\ suppressed => suppressed'
  /\ row' = row \/ \E c \in Found : row' = [row EXCEPT !.roster = @ \cup {c}]
  /\ \E content \in Record :
       /\ object' = [object EXCEPT !["search"] = content]
       /\ content.stop => object["search"].stop
       /\ content.stage \in JobStages => object["search"].stage \in JobStages
       /\ content.status = "none" => search # "start" /\ object["search"].status = "none"
       /\ search' \in {"final", "failed"} => content.status # "running"
  /\ search # "over" /\ search' \notin {"start", "over", "rescue", "failing"}
  /\ Grows({Save("search"), Progress("search")})
  /\ throttle' = throttle \/ ~throttle'.armed \/ throttle'.ref = "search"
  /\ throttle' = throttle \/ throttle'.armed \/ chain' # <<>>

(* updateJob is called.                                                    *)
Patches ==
  /\ UNCHANGED <<row, object, suppressed>>
  /\ ~throttle'.armed /\ Grows({Patch("done"), Patch("failed")}) /\ chain' # <<>>
  /\ search' = search \/ (search = "rescue" /\ search' = "over")
  /\ second' = second \/ Goes("scheduled", "over")

Lifts ==
  /\ UNCHANGED <<row, chain, throttle, object, search>>
  /\ Goes("read", "clearing") \/ Goes("read", "cleared") \/ Goes("scheduled", "clearing2")

Clears ==
  /\ ClearStop /\ UNCHANGED <<chain, throttle, object, search, suppressed>>
  /\ Goes("clearing", "cleared") \/ Goes("clearing2", "cleared2")

(* The later job goes on without writing.                                  *)
Continues ==
  /\ UNCHANGED <<row, chain, throttle, object, search>>
  /\ suppressed => suppressed'
  /\ \/ \E from \in {"worked", "told"}, to \in {"told", "closing", "over"} :
          Goes(from, to) /\ (to = "over" => suppressed')
     \/ Job("review") /\ (Goes("fresh", "stopping") \/ Goes("fresh", "ending"))

Removes ==
  /\ row' = NoRow /\ deleted'
  /\ suppressed => suppressed'
  /\ UNCHANGED <<chain, throttle, object, search, second>>

LEMMA Constant == Types => object \in [Refs -> Record] /\ "search" \in Refs /\ "second" \in Refs /\ "fresh" \in Refs
BY DEF Types, MemoryOK, Refs

LEMMA Watching ==
  ASSUME \/ SearchChecks \/ SearchIsTold \/ PressStop \/ PressDelete \/ RequestFails
         \/ DeleteOtherRun \/ UNCHANGED vars
  PROVE  Watches
<1>1. CASE SearchChecks
  BY <1>1 DEF SearchChecks, Watches, store, process
<1>2. CASE SearchIsTold
  BY <1>2 DEF SearchIsTold, Watches, store
<1>3. CASE PressStop \/ PressDelete \/ RequestFails \/ DeleteOtherRun \/ UNCHANGED vars
  BY <1>3 DEF PressStop, PressDelete, RequestFails, CutsOff, DeleteOtherRun, Watches, store, process,
     vars
<1>4. QED
  BY <1>1, <1>2, <1>3

LEMMA SearchAtWork ==
  ASSUME Types,
         \/ SearchStarts \/ SearchFinishes \/ SearchFails
         \/ \E late \in BOOLEAN : SearchReports(late) \/ SearchSaves(late)
         \/ \E c \in Found : SearchAccepts(c)
  PROVE  SearchWorks
<1> DEFINE found == object["search"]
<1>a. found \in Record /\ MemoryOK /\ "search" \in Refs /\ object \in [Refs -> Record]
  BY Constant DEF Types
<1>b. /\ found.status \in Statuses \cup {"none"} /\ found.stage \in Stages
      /\ found.stop \in BOOLEAN /\ found.roster \in SUBSET Found
  BY <1>a DEF Record
<1>1. CASE SearchStarts
  <2> DEFINE content == [NoRow EXCEPT !.status = "running", !.stage = "search"]
  <2>1. SaveJob("search", content) /\ search = "start" /\ search' = "created"
        /\ UNCHANGED <<row, second, suppressed>>
    BY <1>1 DEF SearchStarts, store
  <2>2. content \in Record /\ content.stop = FALSE /\ content.stage = "search" /\ content.status = "running"
    BY ValueTypes DEF NoRow, Record, Statuses, Stages
  <2> HIDE DEF content
  <2>3. QED
    BY <1>a, <2>1, <2>2, SaveJobEffect DEF SearchWorks, JobStages, Grows
<1>2. CASE SearchFinishes \/ SearchFails
  <2> DEFINE end == IF SearchFails THEN "failed" ELSE Outcome(found.roster)
             content == [found EXCEPT !.status = end, !.stage = "ended"]
  <2>1. SaveJob("search", content) /\ search \in {"finishing", "scanning", "failing"}
        /\ search' \in {"final", "failed"} /\ UNCHANGED <<row, second, suppressed>>
    <3>1. CASE SearchFails
      BY <3>1 DEF SearchFails, store
    <3>2. CASE ~SearchFails
      BY <1>2, <3>2 DEF SearchFinishes, store
    <3>3. QED
      BY <3>1, <3>2
  <2>2. end \in {"failed", "finished"}
    BY DEF Outcome
  <2> HIDE DEF end
  <2>3. content \in Record /\ content.stop = found.stop /\ content.stage = "ended" /\ content.status = end
    BY <1>a, <2>2 DEF Record, Statuses, Stages
  <2> HIDE DEF content, found
  <2>4. QED
    BY <1>a, <2>1, <2>2, <2>3, SaveJobEffect DEF SearchWorks, JobStages, Grows, found
<1>3. CASE \E late \in BOOLEAN : SearchReports(late)
  <2>1. PICK late \in BOOLEAN : SearchReports(late)
    BY <1>3
  <2>2. SaveProgress("search", found, late) /\ search = "scanning" /\ search' = "loop"
        /\ UNCHANGED <<row, second, suppressed>>
    BY <2>1 DEF SearchReports, store
  <2> HIDE DEF found
  <2>3. QED
    BY <1>a, <2>2, SaveProgressEffect DEF SearchWorks, Grows, found
<1>4. CASE \E late \in BOOLEAN : SearchSaves(late)
  <2>1. PICK late \in BOOLEAN : SearchSaves(late)
    BY <1>4
  <2>2. search = "accepted" /\ search' = "saving" /\ UNCHANGED <<row, second, suppressed, object>>
    BY <2>1 DEF SearchSaves, store
  <2>3. object' = [object EXCEPT !["search"] = found]
    BY <1>a, <2>2
  <2> HIDE DEF found
  <2>4. QED
    BY <1>a, <2>1, <2>2, <2>3, SearchSavesEffect DEF SearchWorks, found
<1>5. CASE \E c \in Found : SearchAccepts(c)
  <2>1. PICK c \in Found : SearchAccepts(c)
    BY <1>5
  <2>2. /\ search = "scanning" /\ search' = "accepted" /\ UNCHANGED <<chain, throttle, second>>
        /\ suppressed => suppressed'
        /\ row' = row \/ row' = [row EXCEPT !.roster = @ \cup {c}]
        /\ object' = [object EXCEPT !["search"].roster = @ \cup {c}]
    BY <2>1 DEF SearchAccepts, SaveCompetitor
  <2> DEFINE content == [found EXCEPT !.roster = @ \cup {c}]
  <2>3. object' = [object EXCEPT !["search"] = content]
    BY <2>2, <1>a
  <2>4. /\ content \in Record /\ content.stop = found.stop /\ content.stage = found.stage
        /\ content.status = found.status
    BY <1>a DEF Record
  <2> HIDE DEF content, found
  <2>5. Grows({Save("search"), Progress("search")})
    BY <2>2, AddsNone
  <2>6. QED
    BY <2>2, <2>3, <2>4, <2>5 DEF SearchWorks, found
<1>6. QED
  BY <1>1, <1>2, <1>3, <1>4, <1>5

LEMMA Patching ==
  ASSUME Types, SearchRescued \/ ReviewRefused \/ PollEndsReview
  PROVE  Patches
<1>1. \E to \in {"done", "failed"} : UpdateJob(to)
  BY DEF SearchRescued, ReviewRefused, PollEndsReview
<1>2. object' = object /\ ~throttle'.armed /\ Grows({Patch("done"), Patch("failed")}) /\ chain' # <<>>
  BY <1>1, UpdateJobEffect DEF Types, Grows
<1>3. /\ UNCHANGED <<row, suppressed>>
      /\ search' = search \/ (search = "rescue" /\ search' = "over")
      /\ second' = second \/ Goes("scheduled", "over")
  <2>1. CASE SearchRescued
    BY <2>1 DEF SearchRescued, store
  <2>2. CASE ReviewRefused
    BY <2>2 DEF ReviewRefused, store
  <2>3. CASE PollEndsReview
    BY <2>3 DEF PollEndsReview, store
  <2>4. QED
    BY <2>1, <2>2, <2>3
<1>4. QED
  BY <1>2, <1>3 DEF Patches

LEMMA Lifting == RouteLifts \/ BatchLifts => Lifts
BY DEF RouteLifts, BatchLifts, Lifts, store

LEMMA Clearing == RouteClears \/ BatchClears => Clears
BY DEF RouteClears, BatchClears, Clears, process

LEMMA Continuing == SecondChecks \/ SecondIsTold \/ BatchAsks => Continues
<1>1. CASE SecondChecks
  BY <1>1 DEF SecondChecks, Continues, AfterWork, store, process
<1>2. CASE SecondIsTold
  BY <1>2 DEF SecondIsTold, Continues, AfterWork, store, process
<1>3. CASE BatchAsks
  BY <1>3 DEF BatchAsks, Continues, store, process
<1>4. QED
  BY <1>1, <1>2, <1>3

LEMMA Removing == DeleteCommits \/ ClearAllHistory => Removes
BY DEF DeleteCommits, ClearAllHistory, RemoveRun, CutsOff, Removes, process

LEMMA StepCases ==
  ASSUME Types, [Next]_vars
  PROVE  \/ Watches \/ SearchWorks \/ Patches \/ TimerFires \/ WriteLands \/ WriteFails
         \/ Lifts \/ Clears \/ Continues \/ Removes \/ StopCommits \/ Restart
         \/ RouteReads \/ RouteSaves \/ BatchReads \/ BatchSaves \/ OffersReads \/ OffersRefused
         \/ BatchRereads \/ (Job("review") /\ BatchFinishes) \/ OffersFinishes
         \/ \E late \in BOOLEAN : SecondReports(late) \/ OffersReport(late) \/ OffersFails(late)
<1>1. CASE Search
  <2>1. CASE SearchChecks \/ SearchIsTold
    BY <2>1, Watching
  <2>2. CASE SearchRescued
    BY <2>2, Patching
  <2>3. CASE ~(SearchChecks \/ SearchIsTold \/ SearchRescued)
    BY <1>1, <2>3, SearchAtWork DEF Search
  <2>4. QED
    BY <2>1, <2>2, <2>3
<1>2. CASE Second
  BY <1>2, Patching, Lifting, Clearing, Continuing DEF Second, BatchFinishes
<1>3. CASE Requests
  BY <1>3, Patching, Removing, Watching DEF Requests
<1>4. CASE Commits
  BY <1>4, Removing DEF Commits
<1>5. CASE RequestFails \/ UNCHANGED vars
  BY <1>5, Watching
<1>6. QED
  BY <1>1, <1>2, <1>3, <1>4, <1>5 DEF Next

LEMMA Counting == Types /\ [Next]_vars => Counted
<1> SUFFICES ASSUME Types, [Next]_vars PROVE Counted
  OBVIOUS
<1>a. faults \in Nat
  BY Bounds DEF Types, PlacesOK
<1>1. CASE WriteFails \/ RequestFails
  <2>1. faults' = faults + 1 /\ UNCHANGED deleted /\ (cutOff /\ row'.stage \in JobStages => cutOff')
    <3>1. CASE WriteFails
      BY <3>1 DEF WriteFails, CutsOff
    <3>2. CASE RequestFails
      BY <3>2 DEF RequestFails, CutsOff
    <3>3. QED
      BY <1>1, <3>1, <3>2
  <2>2. QED
    BY <2>1, <1>a DEF Counted
<1>2. CASE Restart
  BY <1>2, <1>a DEF Restart, Forgets, CutsOff, Counted
<1>3. CASE RouteLifts \/ BatchLifts \/ DeleteOtherRun
  BY <1>3 DEF RouteLifts, BatchLifts, DeleteOtherRun, Forgets, Counted, budget
<1>4. CASE DeleteCommits \/ ClearAllHistory
  BY <1>4 DEF DeleteCommits, ClearAllHistory, RemoveRun, CutsOff, Counted, budget
<1>5. CASE StopCommits \/ WriteLands
  <2>1. UNCHANGED <<deleted, faults>>
    BY <1>5 DEF StopCommits, WriteLands, budget
  <2>2. cutOff /\ row'.stage \in JobStages => cutOff'
    BY <1>5, Zenon DEF StopCommits, WriteLands, CutsOff
  <2>3. QED
    BY <2>1, <2>2 DEF Counted
<1>5a. CASE SearchIsTold \/ SecondIsTold
  <2>1. UNCHANGED <<deleted, faults>>
    BY <1>5a DEF SearchIsTold, SecondIsTold, budget
  <2>2. cutOff /\ row'.stage \in JobStages => cutOff'
    BY <1>5a, Zenon DEF SearchIsTold, SecondIsTold, CutsOff
  <2>3. QED
    BY <2>1, <2>2 DEF Counted
<1>5b. CASE PressStop
  BY <1>5b DEF PressStop, Counted, history
<1>6. CASE UNCHANGED <<history, budget>>
  BY <1>6 DEF Counted, history, budget
<1>7. CASE Search
  <2>1. UNCHANGED <<history, budget>> \/ SearchIsTold
    BY <1>7 DEF Search, SearchStarts, SearchChecks, SearchFinishes, SearchFails,
       SearchRescued, SearchReports, SearchSaves, SearchAccepts
  <2>2. QED
    BY <2>1, <1>5a, <1>6
<1>8. CASE Second
  <2>1. UNCHANGED <<history, budget>> \/ RouteLifts \/ BatchLifts \/ SecondIsTold
    BY <1>8 DEF Second, RouteClears, RouteSaves, ReviewRefused, OffersRefused, BatchClears,
       BatchReads, BatchSaves, BatchRereads, BatchAsks, OffersReads, OffersFinishes, SecondChecks,
       BatchFinishes, SecondReports, OffersReport, OffersFails
  <2>2. QED
    BY <2>1, <1>3, <1>5a, <1>6
<1>9. CASE RouteReads \/ PressDelete \/ PollEndsReview \/ TimerFires \/ UNCHANGED vars
  <2>1. UNCHANGED <<history, budget>>
    BY <1>9 DEF RouteReads, PressDelete, PollEndsReview, TimerFires, vars
  <2>2. QED
    BY <2>1, <1>6
<1>10. QED
  BY <1>1, <1>2, <1>3, <1>4, <1>5, <1>5b, <1>7, <1>8, <1>9 DEF Next, Requests, Commits

LEMMA Names ==
  /\ \A ref, other : Save(ref).ref = ref /\ Progress(ref).ref = ref /\ Patch(ref).ref = ref
                     /\ Progress(ref) # Save(other) /\ Patch(ref) # Save(other)
                     /\ (Save(ref) = Save(other) => ref = other)
<1> SUFFICES ASSUME NEW ref, NEW other
             PROVE  /\ Save(ref).ref = ref /\ Progress(ref).ref = ref /\ Patch(ref).ref = ref
                    /\ Progress(ref) # Save(other) /\ Patch(ref) # Save(other)
                    /\ (Save(ref) = Save(other) => ref = other)
  OBVIOUS
<1>1. Save(ref).kind = "save" /\ Save(other).kind = "save" /\ Progress(ref).kind = "progress"
      /\ Patch(ref).kind = "patch" /\ Save(other).ref = other /\ Save(ref).ref = ref
  BY DEF Save, Progress, Patch
<1>2. QED
  BY <1>1 DEF Progress, Patch

(* A write of the chain commits or is refused.                             *)
LaterSaves == {Save("second"), Save("fresh")}

LEMMA LandsEffect ==
  ASSUME Types, WriteLands
  PROVE  /\ Shrinks /\ chain[1] \in Writes /\ UNCHANGED <<throttle, object>>
         /\ \/ row' = row /\ (suppressed' \/ ~Exists) /\ (suppressed => suppressed')
            \/ ~suppressed /\ ~suppressed' /\ ~row.stop /\ row' = WrittenBy(chain[1])
         /\ IF chain[1] \in LaterSaves
            THEN /\ second'.job = second.job
                 /\ \/ second.at = "saving" /\ second'.at = "scheduled"
                    \/ second.at = "saving2" /\ second'.at = "working"
                    \/ second.at = "saving2" /\ second'.at = "over" /\ suppressed'
                    \/ second.at \notin {"saving", "saving2"} /\ second'.at = "over"
            ELSE second' = second
         /\ \/ search' = search
            \/ search \in {"created", "saving"} /\ search' = "loop"
            \/ chain[1] = Save("search") /\ search \in {"final", "failed"} /\ search' = "over"
<1>1. chain \in Seq(Writes) /\ chain # <<>> /\ chain' = Tail(chain) /\ second \in [job : Jobs2, at : SecondPlaces]
      /\ suppressed \in BOOLEAN
  BY DEF Types, MemoryOK, PlacesOK, StoreOK, WriteLands
<1>2. Shrinks /\ Head(chain) = chain[1] /\ chain[1] \in Writes
  BY <1>1, LosesFirst DEF Shrinks
<1> DEFINE write == chain[1]
<1>3. /\ row' = IF (write.kind = "patch" /\ ~Exists) \/ Refused(write) THEN row ELSE WrittenBy(write)
      /\ suppressed' = (suppressed \/ (~(write.kind = "patch" /\ ~Exists) /\ Refused(write)))
      /\ Resumes(write, TRUE, ~Refused(write))
      /\ UNCHANGED <<throttle, object>>
  BY <1>2 DEF WriteLands
<1> HIDE DEF write
<1>4. \/ row' = row /\ (suppressed' \/ ~Exists) /\ (suppressed => suppressed')
      \/ ~suppressed /\ ~suppressed' /\ ~row.stop /\ row' = WrittenBy(write)
  BY <1>1, <1>3 DEF Refused
<1>5. IF write \in LaterSaves
      THEN /\ second'.job = second.job
           /\ \/ second.at = "saving" /\ second'.at = "scheduled"
              \/ second.at = "saving2" /\ second'.at = "working"
              \/ second.at = "saving2" /\ second'.at = "over" /\ suppressed'
              \/ second.at \notin {"saving", "saving2"} /\ second'.at = "over"
      ELSE second' = second
  <2>1. CASE write \in LaterSaves
    <3>1. write.kind # "patch"
      BY <2>1 DEF LaterSaves, Save
    <3>2. second' = [second EXCEPT !.at = SecondAfter(TRUE, ~Refused(write))]
      BY <1>3, <2>1 DEF Resumes, LaterSaves
    <3>3. Refused(write) => suppressed'
      BY <1>3, <3>1
    <3>4. second'.job = second.job /\ second'.at = SecondAfter(TRUE, ~Refused(write))
      BY <1>1, <3>2
    <3>5. QED
      BY <2>1, <3>3, <3>4 DEF SecondAfter
  <2>2. CASE write \notin LaterSaves
    BY <2>2, <1>3 DEF Resumes, LaterSaves
  <2>3. QED
    BY <2>1, <2>2
<1>6. \/ search' = search
      \/ search \in {"created", "saving"} /\ search' = "loop"
      \/ write = Save("search") /\ search \in {"final", "failed"} /\ search' = "over"
  BY <1>3 DEF Resumes, SearchAfter
<1>7. QED
  BY <1>2, <1>3, <1>4, <1>5, <1>6 DEF write

LEMMA FailsEffect ==
  ASSUME Types, WriteFails
  PROVE  /\ Shrinks /\ UNCHANGED <<row, suppressed, throttle, object>> /\ faults' # 0
         /\ row.stage \in JobStages => cutOff'
         /\ IF chain[1] \in LaterSaves
            THEN second'.job = second.job /\ second'.at = "over" ELSE second' = second
         /\ search' = search \/ (search \notin {"start", "over"} /\ search' # "start")
<1>1. chain \in Seq(Writes) /\ chain # <<>> /\ chain' = Tail(chain) /\ second \in [job : Jobs2, at : SecondPlaces]
      /\ faults \in Nat /\ faults' = faults + 1
  BY Bounds DEF Types, MemoryOK, PlacesOK, WriteFails
<1>2. Shrinks /\ Head(chain) = chain[1]
  BY <1>1, LosesFirst DEF Shrinks
<1> DEFINE write == chain[1]
<1>3. Resumes(write, FALSE, FALSE) /\ UNCHANGED <<row, suppressed, throttle, object>>
  BY <1>2 DEF WriteFails, store
<1> HIDE DEF write
<1>4. IF write \in LaterSaves
      THEN second'.job = second.job /\ second'.at = "over" ELSE second' = second
  BY <1>1, <1>3 DEF Resumes, LaterSaves, SecondAfter
<1>5. search' = search \/ (search \notin {"start", "over"} /\ search' # "start")
  BY <1>3 DEF Resumes, SearchAfter
<1>6. row.stage \in JobStages => cutOff'
  BY <1>3 DEF WriteFails, CutsOff
<1>7. QED
  BY <1>1, <1>2, <1>3, <1>4, <1>5, <1>6 DEF write

-----------------------------------------------------------------------------
(* Which writes of the later job wait, and where it waits for them: one    *)
(* save at most, none but it while the job has not begun to work, and no   *)
(* write of the batch behind its last save.                                *)

Before == {"idle", "read", "clearing", "cleared"}
Untouched == Before \cup {"scheduled", "clearing2", "cleared2", "read2"}
Saving == {"saving", "saving2"}

Places ==
  \A i \in DOMAIN chain :
    /\ chain[i].ref = "fresh" => chain[i] = Save("fresh") /\ second.at = "final" /\ Job("review")
    /\ chain[i] = Save("second") => second.at \in Saving \/ (second.at = "final" /\ Job("offers"))

OneSave == \A i, j \in DOMAIN chain : chain[i] \in LaterSaves /\ chain[j] \in LaterSaves => i = j

OnlySave ==
  second.at \in Saving =>
    ~Armed("second") /\ \A i \in DOMAIN chain : chain[i].ref = "second" => chain[i] = Save("second")

LastSave ==
  second.at = "final" /\ Job("review") =>
    /\ ~Armed("second")
    /\ \A i, j \in DOMAIN chain : chain[i] = Save("fresh") /\ j > i => chain[j].ref # "second"

Ordered ==
  /\ Places /\ OneSave /\ OnlySave /\ LastSave
  /\ ~Armed("fresh")
  /\ second.at \in Untouched => ~Pending("second")

LEMMA Indexed == Types => DOMAIN chain \subseteq Nat
BY DEF Types, MemoryOK

LEMMA StepIndexed == Types' => DOMAIN chain' \subseteq Nat
BY DEF Types, MemoryOK

(* Writes of others change nothing, nor does the later job when it neither *)
(* writes nor waits.                                                       *)
Working == {"working", "worked", "told", "closing", "fresh", "stopping", "ending", "over"}

Strolls ==
  /\ second'.job = second.job
  /\ second.at \in Working \cup Untouched /\ second'.at \in Working \cup Untouched
  /\ second'.at \in Untouched => second.at \in Untouched

LEMMA OthersWrite ==
  ASSUME Types, Ordered, second' = second \/ Strolls, NEW writes, Grows(writes),
         \A w \in writes : w.ref \notin {"second", "fresh"} /\ w \notin LaterSaves,
         \A ref \in {"second", "fresh"} : Armed(ref)' => Armed(ref)
  PROVE  Ordered'
<1>1. \A i \in DOMAIN chain' :
        \/ i \in DOMAIN chain /\ chain'[i] = chain[i]
        \/ chain'[i].ref \notin {"second", "fresh"} /\ chain'[i] \notin LaterSaves
  BY DEF Grows
<1>2. Save("second") \in LaterSaves /\ Save("fresh") \in LaterSaves /\ LaterSaves' = LaterSaves
  BY DEF LaterSaves
<1>3. second' # second =>
        /\ second.at \notin Saving /\ second.at # "final"
        /\ second'.at \notin Saving /\ second'.at # "final"
  BY DEF Strolls, Working, Untouched, Before, Saving
<1>4. Places' /\ OneSave' /\ OnlySave' /\ LastSave'
  BY <1>1, <1>2, <1>3 DEF Ordered, Places, OneSave, OnlySave, LastSave, Job
<1>5. ~Armed("fresh")' /\ (second'.at \in Untouched => ~Pending("second")')
  BY <1>1 DEF Ordered, Pending, OnChain, Strolls
<1>6. QED
  BY <1>4, <1>5 DEF Ordered

LEMMA NothingWritten ==
  ASSUME Types, Ordered, second' = second \/ Strolls, UNCHANGED <<chain, throttle>>
  PROVE  Ordered'
<1>1. Grows({}) /\ \A w \in {} : w.ref \notin {"second", "fresh"} /\ w \notin LaterSaves
  BY AddsNone
<1>2. \A ref \in {"second", "fresh"} : Armed(ref)' => Armed(ref)
  BY DEF Armed
<1>3. QED
  BY <1>1, <1>2, OthersWrite

(* Progress of the later job is written while it works, or by the timer.   *)
LEMMA JobReports ==
  ASSUME Types, Ordered, Grows({Progress("second")}), ~Armed("fresh")', second'.job = second.job,
         \/ second.at \in Working /\ second'.at \in Working
         \/ second' = second /\ Armed("second") /\ ~throttle'.armed
  PROVE  Ordered'
<1>1. \A i \in DOMAIN chain' :
        \/ i \in DOMAIN chain /\ chain'[i] = chain[i]
        \/ chain'[i].ref = "second" /\ chain'[i] \notin LaterSaves
  BY Names DEF Grows, LaterSaves
<1>2. Save("second") \in LaterSaves /\ Save("fresh") \in LaterSaves /\ LaterSaves' = LaterSaves
  BY DEF LaterSaves
<1>3. /\ second'.at \notin Untouched /\ second'.at \notin Saving
      /\ ~(second'.at = "final" /\ second.job = "review")
      /\ second' = second \/ (second.at \notin Saving /\ second.at # "final")
  BY DEF Working, Untouched, Before, Saving, Ordered, OnlySave, LastSave, Pending, Job
<1>4. Places' /\ OneSave' /\ OnlySave' /\ LastSave'
  BY <1>1, <1>2, <1>3 DEF Ordered, Places, OneSave, OnlySave, LastSave, Job
<1>5. QED
  BY <1>3, <1>4 DEF Ordered

(* A save of the later job is the only one.                                *)
LEMMA JobSaves ==
  ASSUME Types, Ordered, second'.job = second.job, NEW ref \in {"second", "fresh"},
         Types', Adds(Save(ref)), ~throttle'.armed, second.at \notin Saving \cup {"final"},
         \/ /\ ref = "second" /\ second.at \in Untouched /\ second'.at \in Saving
         \/ /\ ref = "second" /\ second'.at = "final" /\ Job("offers")
         \/ /\ ref = "fresh" /\ second'.at = "final" /\ Job("review")
  PROVE  Ordered'
<1>1. PICK n \in DOMAIN chain' :
        /\ chain'[n] = Save(ref) /\ n \notin DOMAIN chain
        /\ \A i \in DOMAIN chain : i \in DOMAIN chain' /\ chain'[i] = chain[i] /\ i < n
        /\ \A i \in DOMAIN chain' : i \in DOMAIN chain \/ i = n
  BY DEF Adds
<1>2. \A i \in DOMAIN chain : chain[i] \notin LaterSaves /\ chain[i].ref # "fresh"
  BY Names DEF Ordered, Places, LaterSaves
<1>3. LaterSaves' = LaterSaves /\ Save(ref).ref = ref
      /\ \A other : Save(ref) = Save(other) => ref = other
  BY Names DEF LaterSaves
<1>4. second'.at \notin Untouched
  BY DEF Untouched, Before, Saving
<1>5. second.job = "offers" => second.job # "review"
  OBVIOUS
<1>6. Places' /\ OneSave'
  BY <1>1, <1>2, <1>3, <1>5 DEF Places, OneSave, LaterSaves, Job
<1>7. OnlySave'
  BY <1>1, <1>2, <1>3 DEF OnlySave, Armed, Ordered, Pending, OnChain, Saving
<1>8. LastSave'
  <2>1. \A i, j \in DOMAIN chain' : chain'[i] = Save("fresh") /\ j > i => FALSE
    <3>1. SUFFICES ASSUME NEW i \in DOMAIN chain', NEW j \in DOMAIN chain',
                          chain'[i] = Save("fresh"), j > i
                   PROVE  FALSE
      OBVIOUS
    <3>2. i = n
      BY <1>1, <1>2, <3>1 DEF LaterSaves
    <3>3. DOMAIN chain \subseteq Nat /\ DOMAIN chain' \subseteq Nat
      BY Indexed, StepIndexed
    <3>4. QED
      BY <1>1, <3>1, <3>2, <3>3
  <2>2. QED
    BY <2>1 DEF LastSave, Armed
<1>9. QED
  BY <1>4, <1>6, <1>7, <1>8 DEF Ordered, Armed

(* The first write leaves the chain.                                       *)
LEMMA WriteLeaves ==
  ASSUME Types, Types', Ordered, Shrinks, UNCHANGED throttle,
         IF chain[1] \in LaterSaves
         THEN /\ second'.job = second.job
              /\ second'.at \in {"scheduled", "working", "over"}
              /\ second'.at = "scheduled" => second.at = "saving"
         ELSE second' = second
  PROVE  Ordered'
<1>1. \A i \in DOMAIN chain' : i + 1 \in DOMAIN chain /\ chain'[i] = chain[i + 1] /\ i + 1 # 1
  BY DEF Shrinks
<1>2. 1 \in DOMAIN chain /\ DOMAIN chain' \subseteq Nat
  BY StepIndexed DEF Shrinks
<1>3. LaterSaves' = LaterSaves
  BY DEF LaterSaves
<1>4. OneSave'
  BY <1>1, <1>2, <1>3 DEF Ordered, OneSave
<1>5. ~Armed("fresh")'
  BY DEF Ordered, Armed
<1>6. CASE chain[1] \notin LaterSaves
  <2>1. second' = second
    BY <1>6
  <2>2. Places' /\ OnlySave'
    BY <1>1, <2>1 DEF Ordered, Places, OnlySave, Armed, Job
  <2>3. LastSave'
    <3>1. \A i, j \in DOMAIN chain' : j > i => j + 1 > i + 1
      BY <1>2
    <3>2. QED
      BY <1>1, <2>1, <3>1 DEF Ordered, LastSave, Armed, Job
  <2>4. second'.at \in Untouched => ~Pending("second")'
    BY <1>1, <2>1 DEF Ordered, Pending, OnChain, Armed
  <2>5. QED
    BY <1>4, <1>5, <2>2, <2>3, <2>4 DEF Ordered
<1>7. CASE chain[1] \in LaterSaves
  <2>1. \A i \in DOMAIN chain' : chain'[i] \notin LaterSaves
    BY <1>1, <1>2, <1>7 DEF Ordered, OneSave
  <2>2. Places'
    BY <1>1, <2>1 DEF Ordered, Places, LaterSaves
  <2>3. OnlySave' /\ LastSave'
    BY <1>7 DEF OnlySave, LastSave, Saving
  <2>4. second'.at \in Untouched => ~Pending("second")'
    <3>1. SUFFICES ASSUME second'.at \in Untouched PROVE ~Pending("second")'
      OBVIOUS
    <3>2. second.at = "saving"
      BY <1>7, <3>1 DEF Untouched, Before
    <3>3. \A i \in DOMAIN chain' : chain'[i].ref # "second"
      BY <1>1, <2>1, <3>2 DEF Ordered, OnlySave, Saving, LaterSaves
    <3>4. QED
      BY <3>2, <3>3 DEF Ordered, OnlySave, Saving, Pending, OnChain, Armed
  <2>5. QED
    BY <1>4, <1>5, <2>2, <2>3, <2>4 DEF Ordered
<1>8. QED
  BY <1>6, <1>7

LEMMA JobKnown == Types => second \in [job : Jobs2, at : SecondPlaces]
BY DEF Types, PlacesOK

LEMMA StepOrdered == Types /\ Ordered /\ [Next]_vars => Ordered'
<1> SUFFICES ASSUME Types, Ordered, [Next]_vars PROVE Ordered'
  OBVIOUS
<1>a. Types' /\ MemoryOK /\ {"search", "second", "fresh"} \subseteq Refs
  BY StepTypes DEF Types, Refs
<1>b. second \in [job : Jobs2, at : SecondPlaces]
  BY JobKnown
<1>c. \A from, to : Goes(from, to) =>
        second.at = from /\ second'.at = to /\ second'.job = second.job
  BY <1>b DEF Goes
<1>1. CASE Watches
  BY <1>1, NothingWritten DEF Watches
<1>2. CASE SearchWorks
  <2> DEFINE writes == {Save("search"), Progress("search")}
  <2>1. \A w \in writes : w.ref \notin {"second", "fresh"} /\ w \notin LaterSaves
    BY Names DEF LaterSaves
  <2>2. \A ref \in {"second", "fresh"} : Armed(ref)' => Armed(ref)
    BY <1>2 DEF SearchWorks, Armed
  <2>3. Grows(writes) /\ second' = second
    BY <1>2 DEF SearchWorks
  <2> HIDE DEF writes
  <2>4. QED
    BY <2>1, <2>2, <2>3, OthersWrite
<1>3. CASE Patches
  <2> DEFINE writes == {Patch("done"), Patch("failed")}
  <2>1. \A w \in writes : w.ref \notin {"second", "fresh"} /\ w \notin LaterSaves
    BY Names DEF LaterSaves
  <2>2. \A ref \in {"second", "fresh"} : Armed(ref)' => Armed(ref)
    BY <1>3 DEF Patches, Armed
  <2>3. Grows(writes) /\ (second' = second \/ Goes("scheduled", "over"))
    BY <1>3 DEF Patches
  <2>4. second' = second \/ Strolls
    BY <2>3, <1>c DEF Strolls, Working, Untouched
  <2> HIDE DEF writes
  <2>5. QED
    BY <2>1, <2>2, <2>3, <2>4, OthersWrite
<1>4. CASE TimerFires
  <2>1. /\ throttle.armed /\ ~throttle'.armed /\ throttle'.ref = throttle.ref
        /\ Grows({Progress(throttle.ref)}) /\ second' = second /\ throttle.ref \in Refs
    BY <1>a, <1>4, TimerEffect DEF TimerFires, MemoryOK, ThrottleType
  <2>2. CASE throttle.ref = "second"
    BY <2>1, <2>2, JobReports DEF Armed
  <2>3. CASE throttle.ref = "search"
    <3> DEFINE writes == {Progress("search")}
    <3>1. \A w \in writes : w.ref \notin {"second", "fresh"} /\ w \notin LaterSaves
      BY Names DEF LaterSaves
    <3>2. Grows(writes)
      BY <2>1, <2>3
    <3> HIDE DEF writes
    <3>3. QED
      BY <2>1, <3>1, <3>2, OthersWrite DEF Armed
  <2>4. throttle.ref # "fresh"
    BY <2>1 DEF Ordered, Armed
  <2>5. QED
    BY <2>1, <2>2, <2>3, <2>4 DEF Refs
<1>5. CASE WriteLands
  BY <1>a, <1>5, LandsEffect, WriteLeaves
<1>6. CASE WriteFails
  BY <1>a, <1>6, FailsEffect, WriteLeaves
<1> DEFINE Moves == Strolls /\ UNCHANGED <<chain, throttle>>
<1>m. Moves => Ordered'
  BY NothingWritten
<1>7. CASE Lifts
  <2>1. Moves
    BY <1>7, <1>c DEF Lifts, Strolls, Untouched, Before
  <2>2. QED
    BY <2>1, <1>m
<1>8. CASE Clears
  <2>1. Moves
    BY <1>8, <1>c DEF Clears, Strolls, Untouched, Before
  <2>2. QED
    BY <2>1, <1>m
<1>9. CASE Continues
  <2>1. Moves
    BY <1>9, <1>c DEF Continues, Strolls, Working, Untouched, Before
  <2>2. QED
    BY <2>1, <1>m
<1>10. CASE Removes \/ StopCommits
  <2>1. UNCHANGED <<chain, throttle, second>>
    BY <1>10 DEF Removes, StopCommits, process
  <2>2. QED
    BY <2>1, NothingWritten
<1>11. CASE Restart
  <2>1. chain' = <<>> /\ throttle' = NoEntry /\ second'.at \in {"idle", "over"}
    BY <1>11, <1>b DEF Restart
  <2>2. DOMAIN chain' = {} /\ ~throttle'.armed
    BY <2>1 DEF NoEntry
  <2>3. QED
    BY <2>1, <2>2 DEF Ordered, Places, OneSave, OnlySave, LastSave, Pending, OnChain, Armed,
       Saving
<1>12. CASE RouteReads \/ BatchReads \/ OffersReads \/ OffersRefused \/ BatchRereads
  <2>1. UNCHANGED <<chain, throttle>>
    BY <1>12 DEF RouteReads, BatchReads, OffersReads, OffersRefused, BatchRereads, process
  <2>2. \/ Goes("idle", "read") \/ Goes("cleared2", "read2") \/ Goes("cleared2", "over")
        \/ Goes("scheduled", "working") \/ Goes("scheduled", "over") \/ Goes("scheduled", "fresh")
        \/ Goes("closing", "fresh") \/ Goes("closing", "over")
    BY <1>12 DEF RouteReads, BatchReads, OffersReads, OffersRefused, BatchRereads
  <2>3. Moves
    BY <2>1, <2>2, <1>c DEF Strolls, Working, Untouched, Before
  <2>4. QED
    BY <2>3, <1>m
<1>13. CASE RouteSaves \/ BatchSaves \/ OffersFinishes
  <2>1. \E content : SaveJob("second", content)
    BY <1>13 DEF RouteSaves, BatchSaves, OffersFinishes
  <2>2. Adds(Save("second")) /\ ~throttle'.armed
    BY <1>a, <2>1, SaveJobEffect
  <2>3. \/ Goes("cleared", "saving") \/ Goes("read2", "saving2")
        \/ (Job("offers") /\ Goes("fresh", "final"))
    BY <1>13 DEF RouteSaves, BatchSaves, OffersFinishes
  <2>4. /\ (second.at \in Untouched /\ second'.at \in Saving) \/ (second'.at = "final" /\ Job("offers"))
        /\ second.at \notin Saving \cup {"final"} /\ second'.job = second.job
    BY <2>3, <1>c DEF Untouched, Before, Saving
  <2>5. QED
    BY <1>a, <2>2, <2>4, JobSaves
<1>14. CASE Job("review") /\ BatchFinishes
  <2>1. \E content : SaveJob("fresh", content)
    BY <1>14 DEF BatchFinishes
  <2>2. Adds(Save("fresh")) /\ ~throttle'.armed
    BY <1>a, <2>1, SaveJobEffect
  <2>3. second.at \in {"stopping", "ending"} /\ second'.at = "final" /\ second'.job = second.job
    BY <1>14, <1>c DEF BatchFinishes
  <2>4. QED
    BY <1>a, <1>14, <2>2, <2>3, JobSaves DEF Saving
<1>15. CASE \E late \in BOOLEAN : SecondReports(late) \/ OffersReport(late) \/ OffersFails(late)
  <2>1. \E content, late : SaveProgress("second", content, late)
    BY <1>15 DEF SecondReports, OffersReport, OffersFails
  <2>2. Grows({Progress("second")}) /\ ~Armed("fresh")'
    BY <1>a, <2>1, SaveProgressEffect DEF Armed
  <2>3. \/ Goes("working", "worked") \/ Goes("closing", "fresh")
        \/ Goes("working", "over") \/ Goes("worked", "over")
    BY <1>15 DEF SecondReports, OffersReport, OffersFails
  <2>4. second.at \in Working /\ second'.at \in Working /\ second'.job = second.job
    BY <2>3, <1>c DEF Working
  <2>5. QED
    BY <2>2, <2>4, JobReports
<1>16. QED
  BY StepCases, <1>1, <1>2, <1>3, <1>4, <1>5, <1>6, <1>7, <1>8, <1>9, <1>10, <1>11, <1>12,
     <1>13, <1>14, <1>15

-----------------------------------------------------------------------------
(* Whose writes may be pending after a step, and whose object changes.     *)

LEMMA SearchWrites ==
  ASSUME Types, SearchWorks, NEW ref \in {"second", "fresh"}
  PROVE  (Pending(ref)' => Pending(ref)) /\ object'[ref] = object[ref]
<1>1. object'[ref] = object[ref]
  BY Constant DEF SearchWorks
<1>2. OnChain(ref)' => OnChain(ref)
  BY Names DEF SearchWorks, Grows, OnChain
<1>3. Armed(ref)' => Armed(ref)
  BY DEF SearchWorks, Armed
<1>4. QED
  BY <1>1, <1>2, <1>3 DEF Pending

LEMMA NobodyWrites ==
  ASSUME Types, Patches \/ TimerFires \/ WriteLands \/ WriteFails, NEW ref \in Refs
  PROVE  (Pending(ref)' => Pending(ref)) /\ object' = object
<1>a. MemoryOK
  BY DEF Types
<1>1. CASE Patches
  BY <1>1, Names DEF Patches, Grows, Pending, OnChain, Armed, Refs
<1>2. CASE TimerFires
  BY <1>a, <1>2, TimerEffect, Names DEF TimerFires, Grows, Pending, OnChain, Armed
<1>3. CASE WriteLands \/ WriteFails
  <2>1. Shrinks /\ UNCHANGED <<throttle, object>>
    BY <1>3, LandsEffect, FailsEffect
  <2>2. QED
    BY <2>1 DEF Shrinks, Pending, OnChain, Armed
<1>4. QED
  BY <1>1, <1>2, <1>3

LEMMA JobWrites ==
  ASSUME Types, NEW ref \in Refs, NEW content,
         SaveJob(ref, content) \/ \E late : SaveProgress(ref, content, late)
  PROVE  /\ object' = [object EXCEPT ![ref] = content] /\ object'[ref] = content
         /\ \A other \in Refs \ {ref} : (Pending(other)' => Pending(other)) /\ object'[other] = object[other]
         /\ chain' # <<>> \/ throttle'.armed
<1>1. MemoryOK /\ object \in [Refs -> Record]
  BY Constant DEF Types
<1>2. /\ object' = [object EXCEPT ![ref] = content]
      /\ ~throttle'.armed \/ throttle'.ref = ref
      /\ chain' # <<>> \/ throttle'.armed
      /\ Grows({Save(ref)}) \/ Grows({Progress(ref)})
  <2>1. CASE SaveJob(ref, content)
    BY <1>1, <2>1, SaveJobEffect
  <2>2. CASE \E late : SaveProgress(ref, content, late)
    BY <1>1, <2>2, SaveProgressEffect
  <2>3. QED
    BY <2>1, <2>2
<1>3. \A other \in Refs \ {ref} : Pending(other)' => Pending(other)
  BY <1>2, Names DEF Grows, Pending, OnChain, Armed
<1>4. QED
  BY <1>1, <1>2, <1>3

-----------------------------------------------------------------------------
(* A stopped run says that it ended.  The object of a pipeline that may    *)
(* write either is not stopped, or was read from a run that was.           *)

StoppedOK(r) ==
  r.stop => /\ r.stage = "ended" /\ r.status # "running"
            /\ r.roster = {} => r.status \in {"failed", "none"}

StopKnown ==
  /\ second.at \in {"read", "clearing", "cleared"} => StoppedOK(object["second"])
  /\ second.at \in {"saving", "saving2", "working", "worked", "told", "closing"} => ~object["second"].stop
  /\ Job("offers") /\ second.at \in {"fresh", "final"} => StoppedOK(object["second"])
  /\ Job("review") /\ second.at \in {"fresh", "stopping", "ending"} => StoppedOK(object["fresh"])

Stopped ==
  /\ StoppedOK(row) /\ ~object["search"].stop
  /\ Pending("second") => StoppedOK(object["second"])
  /\ Pending("fresh") => suppressed \/ StoppedOK(object["fresh"])
  /\ StopKnown

LEMMA StoppedGrows ==
  ASSUME NEW r \in Record, NEW more, StoppedOK(r)
  PROVE  StoppedOK([r EXCEPT !.roster = @ \cup more])
BY DEF StoppedOK, Record

(* What a write leaves in a row that is not stopped.                       *)
LEMMA WrittenStopped ==
  ASSUME Types, Stopped, NEW write \in Writes, ~suppressed, ~row.stop,
         write.kind # "patch" => Pending(write.ref)
  PROVE  StoppedOK(WrittenBy(write))
<1>a. row \in Record
  BY DEF Types, StoreOK
<1>1. CASE write.kind = "patch"
  BY <1>a, <1>1 DEF WrittenBy, StoppedOK, Record
<1>2. CASE write.kind # "patch"
  <2>1. write.ref \in Refs /\ object[write.ref] \in Record
    BY <1>2, Constant DEF Writes
  <2>2. StoppedOK(object[write.ref])
    BY <1>2, <2>1 DEF Stopped, StoppedOK, Refs
  <2>3. QED
    BY <1>2, <2>1, <2>2, StoppedGrows DEF WrittenBy
<1>3. QED
  BY <1>1, <1>2

LEMMA StepStopped == Types /\ Ordered /\ Stopped /\ [Next]_vars => Stopped'
<1> SUFFICES ASSUME Types, Ordered, Stopped, [Next]_vars PROVE Stopped'
  OBVIOUS
<1>a. /\ Types' /\ {"search", "second", "fresh"} \subseteq Refs /\ Ordered'
      /\ object \in [Refs -> Record] /\ row \in Record /\ row' \in Record
  BY StepTypes, StepOrdered, Constant DEF Types, StoreOK
<1>b. second \in [job : Jobs2, at : SecondPlaces]
  BY JobKnown
<1>c. \A from, to : Goes(from, to) =>
        second.at = from /\ second'.at = to /\ second'.job = second.job
  BY <1>b DEF Goes
<1>d. ~Pending("fresh") \/ (second.at = "final" /\ Job("review"))
  BY DEF Ordered, Places, Pending, OnChain
<1>1. CASE Watches
  BY <1>1 DEF Watches, Stopped, StopKnown, Pending, OnChain, Armed, Job
<1>2. CASE SearchWorks
  <2>1. \A ref \in {"second", "fresh"} : (Pending(ref)' => Pending(ref)) /\ object'[ref] = object[ref]
    BY <1>2, SearchWrites
  <2>2. ~object'["search"].stop
    BY <1>2, <1>a DEF SearchWorks, Stopped
  <2>3. StoppedOK(row')
    <3>1. StoppedOK(row)
      BY DEF Stopped
    <3>2. \A c \in Found : StoppedOK([row EXCEPT !.roster = @ \cup {c}])
      BY <1>a, <3>1, StoppedGrows
    <3>3. QED
      BY <1>2, <3>1, <3>2 DEF SearchWorks
  <2>4. StopKnown'
    BY <1>2, <2>1 DEF SearchWorks, Stopped, StopKnown, StoppedOK, Job
  <2>5. QED
    BY <1>2, <2>1, <2>2, <2>3, <2>4 DEF SearchWorks, Stopped, StoppedOK
<1>3. CASE Patches \/ TimerFires \/ WriteFails
  <2>1. \A ref \in Refs : (Pending(ref)' => Pending(ref)) /\ object' = object
    BY <1>3, NobodyWrites
  <2>2. UNCHANGED <<row, suppressed>>
    BY <1>3, FailsEffect DEF Patches, TimerFires, store
  <2>3. second' = second \/ (second'.at = "over" /\ second'.job = second.job)
    BY <1>3, <1>c, FailsEffect DEF Patches, TimerFires
  <2>4. QED
    BY <1>a, <2>1, <2>2, <2>3 DEF Stopped, StopKnown, Job
<1>4. CASE WriteLands
  <2>1. \A ref \in Refs : (Pending(ref)' => Pending(ref)) /\ object' = object
    BY <1>4, NobodyWrites
  <2>2. StoppedOK(row')
    <3>1. CASE row' = row
      BY <3>1 DEF Stopped
    <3>2. CASE row' # row
      <4>1. /\ ~suppressed /\ ~row.stop /\ row' = WrittenBy(chain[1]) /\ chain[1] \in Writes
            /\ 1 \in DOMAIN chain
        BY <1>4, <3>2, LandsEffect DEF Shrinks
      <4>2. Pending(chain[1].ref)
        BY <4>1 DEF Pending, OnChain
      <4>3. QED
        BY <4>1, <4>2, WrittenStopped
    <3>3. QED
      BY <3>1, <3>2
  <2>3. StopKnown'
    BY <1>4, <2>1, LandsEffect DEF Stopped, StopKnown, Job
  <2>4. Pending("fresh")' => suppressed' \/ StoppedOK(object["fresh"])
    BY <1>4, <1>a, <2>1, LandsEffect DEF Stopped
  <2>5. QED
    BY <1>a, <2>1, <2>2, <2>3, <2>4 DEF Stopped
<1>5. CASE Lifts
  BY <1>5, <1>c, <1>d DEF Lifts, Stopped, StopKnown, Pending, OnChain, Armed, Job
<1>6. CASE Clears
  <2>1. ~row'.stop
    BY <1>6, <1>a DEF Clears, ClearStop
  <2>2. QED
    BY <1>6, <1>c, <2>1 DEF Clears, Stopped, StopKnown, StoppedOK, Pending, OnChain, Armed, Job
<1>7. CASE Continues
  BY <1>7, <1>c DEF Continues, Stopped, StopKnown, Pending, OnChain, Armed, Job
<1>8. CASE Removes
  <2>1. StoppedOK(row')
    BY <1>8 DEF Removes, NoRow, StoppedOK
  <2>2. QED
    BY <1>8, <2>1 DEF Removes, Stopped, StopKnown, Pending, OnChain, Armed, Job
<1>9. CASE StopCommits
  <2>1. StoppedOK(row')
    BY <1>9, <1>a DEF StopCommits, StoppedOK, Stopped, Record
  <2>2. UNCHANGED <<chain, throttle, object, second, suppressed>>
    BY <1>9 DEF StopCommits, process
  <2>3. QED
    BY <2>1, <2>2 DEF Stopped, StopKnown, Pending, OnChain, Armed, Job
<1>10. CASE Restart
  <2>1. chain' = <<>> /\ throttle' = NoEntry /\ second'.at \in {"idle", "over"}
        /\ ~object'["search"].stop /\ row' = Interrupted(row)
    BY <1>10, <1>b DEF Restart, NoObjects, NoRow, Refs
  <2>2. StoppedOK(row')
    BY <2>1, <1>a DEF Interrupted, Stopped, StoppedOK, Record
  <2>3. \A ref : ~Pending(ref)'
    BY <2>1 DEF Pending, OnChain, Armed, NoEntry
  <2>4. QED
    BY <2>1, <2>2, <2>3 DEF Stopped, StopKnown
<1>11. CASE RouteReads
  <2>1. second.at = "idle" /\ second'.at = "read" /\ object' = [object EXCEPT !["second"] = row]
        /\ UNCHANGED <<row, chain, throttle, suppressed>>
    BY <1>11, <1>c DEF RouteReads, store, process
  <2>2. object'["second"] = row /\ object'["search"] = object["search"] /\ ~Pending("second")'
    BY <1>a, <2>1 DEF Ordered, Untouched, Before
  <2>3. QED
    BY <1>d, <2>1, <2>2 DEF Stopped, StopKnown, Pending, OnChain, Armed
<1>12. CASE BatchReads \/ OffersReads
  <2>1. /\ second'.at = "working" => ~row.stop
        /\ second'.at \in {"read2", "working", "over"} /\ second.at \in Untouched
        /\ object' = [object EXCEPT !["second"] = row]
        /\ UNCHANGED <<row, chain, throttle>>
    BY <1>12, <1>c DEF BatchReads, OffersReads, StoredSuppression, store, Untouched
  <2>2. object'["second"] = row /\ object'["search"] = object["search"] /\ ~Pending("second")'
    BY <1>a, <2>1 DEF Ordered, Pending, OnChain, Armed
  <2>3. QED
    BY <1>d, <2>1, <2>2 DEF Stopped, StopKnown, Pending, OnChain, Armed, Untouched, Before
<1>12a. CASE OffersRefused
  <2> DEFINE read == [row EXCEPT !.stage = "ended"]
  <2>1. /\ second'.at \in {"fresh", "over"} /\ second.at \in Untouched
        /\ Job("offers") /\ second'.job = second.job
        /\ object' = [object EXCEPT !["second"] = read]
        /\ UNCHANGED <<row, chain, throttle>>
    BY <1>12a, <1>c DEF OffersRefused, store, process, Untouched
  <2>2. StoppedOK(read)
    BY <1>a DEF Stopped, StoppedOK, Record
  <2> HIDE DEF read
  <2>3. object'["second"] = read /\ object'["search"] = object["search"] /\ ~Pending("second")'
    BY <1>a, <2>1 DEF Ordered, Pending, OnChain, Armed
  <2>4. QED
    BY <1>d, <2>1, <2>2, <2>3 DEF Stopped, StopKnown, Pending, OnChain, Armed, Untouched, Before, Job
<1>13. CASE RouteSaves \/ BatchSaves
  <2> DEFINE found == object["second"]
  <2>1. PICK content : /\ SaveJob("second", content) /\ UNCHANGED <<row, suppressed>>
                       /\ second'.at \in Saving /\ ~content.stop
    <3>1. CASE BatchSaves
      <4>1. [found EXCEPT !.stage = "review", !.stop = FALSE].stop = FALSE
        BY <1>a DEF Record
      <4>2. QED
        BY <3>1, <4>1, <1>c DEF BatchSaves, Saving, store
    <3>2. CASE RouteSaves
      <4> DEFINE stop == IF Job("offers") /\ found.status = "running" THEN found.stop ELSE FALSE
      <4>1. second.at = "cleared" /\ StoppedOK(found)
        BY <3>2, <1>c DEF RouteSaves, Stopped, StopKnown
      <4>2. ~stop
        BY <4>1 DEF StoppedOK
      <4>3. SaveJob("second", [found EXCEPT !.stage = second.job, !.stop = stop])
        BY <3>2 DEF RouteSaves
      <4> HIDE DEF stop
      <4>4. [found EXCEPT !.stage = second.job, !.stop = stop].stop = stop
        BY <1>a DEF Record
      <4>5. QED
        BY <3>2, <4>2, <4>3, <4>4, <1>c DEF RouteSaves, Saving, store
    <3>3. QED
      BY <1>13, <3>1, <3>2
  <2>2. /\ object'["second"] = content /\ object'["search"] = object["search"]
        /\ object'["fresh"] = object["fresh"] /\ (Pending("fresh")' => Pending("fresh"))
    BY <1>a, <2>1, JobWrites
  <2>3. QED
    BY <2>1, <2>2 DEF Stopped, StopKnown, StoppedOK, Saving
<1>14. CASE OffersFinishes \/ \E late \in BOOLEAN : SecondReports(late) \/ OffersReport(late) \/ OffersFails(late)
  <2> DEFINE found == object["second"]
  <2>1. PICK content : /\ SaveJob("second", content) \/ \E late : SaveProgress("second", content, late)
                       /\ \E stage \in Stages : content = [found EXCEPT !.stage = stage]
                       /\ UNCHANGED <<row, suppressed>>
                       /\ \/ Goes("fresh", "final") /\ Job("offers")
                          \/ Goes("closing", "fresh") /\ Job("offers")
                          \/ Goes("working", "worked")
                          \/ Goes("working", "over") \/ Goes("worked", "over")
    <3>a. second.job \in Stages /\ found = [found EXCEPT !.stage = found.stage] /\ found.stage \in Stages
      BY <1>a, <1>b, StoreAssumption DEF Record, Stages
    <3>1. CASE OffersFinishes
      BY <3>1, <3>a DEF OffersFinishes, store
    <3>2. CASE \E late \in BOOLEAN : SecondReports(late) \/ OffersReport(late) \/ OffersFails(late)
      BY <3>2, <3>a DEF SecondReports, OffersReport, OffersFails, store, Stages
    <3>3. QED
      BY <1>14, <3>1, <3>2
  <2>2. /\ object'["second"] = content /\ object'["search"] = object["search"]
        /\ object'["fresh"] = object["fresh"] /\ (Pending("fresh")' => Pending("fresh"))
    BY <1>a, <2>1, JobWrites
  <2>3. StoppedOK(content) /\ (second'.at \in {"fresh", "worked"} => ~content.stop)
    <3>1. CASE OffersFinishes
      <4>1. StoppedOK(found) /\ second'.at = "final"
        BY <3>1, <1>c DEF OffersFinishes, Stopped, StopKnown
      <4>2. object' = [object EXCEPT !["second"] = found]
        BY <3>1 DEF OffersFinishes, SaveJob
      <4>3. QED
        BY <1>a, <2>2, <4>1, <4>2
    <3>2. CASE ~OffersFinishes
      <4>1. second.at \in {"closing", "working", "worked"}
        BY <1>14, <3>2, <1>c DEF SecondReports, OffersReport, OffersFails
      <4>2. ~found.stop
        BY <4>1 DEF Stopped, StopKnown
      <4>3. content.stop = found.stop
        BY <1>a, <2>1 DEF Record
      <4>4. QED
        BY <4>2, <4>3 DEF StoppedOK
    <3>3. QED
      BY <3>1, <3>2
  <2>4. second'.at \in {"fresh", "final", "worked", "over"} /\ second'.job = second.job
        /\ (second'.at \in {"fresh", "final"} => Job("offers"))
    BY <2>1, <1>c
  <2>5. QED
    BY <2>1, <2>2, <2>3, <2>4 DEF Stopped, StopKnown, Job
<1>15. CASE BatchRereads
  <2>1. second.at = "closing" /\ second'.at \in {"fresh", "over"} /\ second'.job = second.job /\ Job("review")
        /\ object' = [object EXCEPT !["fresh"] = row]
        /\ UNCHANGED <<row, chain, throttle, suppressed>>
    BY <1>15, <1>c DEF BatchRereads, store
  <2>2. object'["fresh"] = row /\ object'["search"] = object["search"] /\ object'["second"] = object["second"]
    BY <1>a, <2>1
  <2>3. QED
    BY <1>d, <2>1, <2>2 DEF Stopped, StopKnown, Pending, OnChain, Armed, Job
<1>16. CASE Job("review") /\ BatchFinishes
  <2> DEFINE found == object["fresh"]
             stop == found.stop \/ second.at = "stopping"
             content == [found EXCEPT !.stage = "ended", !.stop = stop]
  <2>1. /\ SaveJob("fresh", content) /\ second.at \in {"stopping", "ending"}
        /\ second'.at = "final" /\ Job("review")
        /\ second'.job = second.job /\ UNCHANGED row
        /\ suppressed' = (suppressed \/ second.at = "stopping")
    BY <1>16, <1>c DEF BatchFinishes, store
  <2>2. StoppedOK(found)
    BY <2>1 DEF Stopped, StopKnown
  <2> HIDE DEF stop
  <2>3. content.stop = stop /\ content.stage = "ended" /\ content.status = found.status /\ content.roster = found.roster
    BY <1>a DEF Record
  <2>4. suppressed' \/ StoppedOK(content)
    BY <2>1, <2>2, <2>3 DEF stop, StoppedOK
  <2> HIDE DEF content
  <2>5. /\ object'["fresh"] = content /\ object'["search"] = object["search"]
        /\ object'["second"] = object["second"] /\ (Pending("second")' => Pending("second"))
    BY <1>a, <2>1, JobWrites
  <2>6. second.job # "offers"
    BY <2>1 DEF Job
  <2>7. QED
    BY <2>1, <2>4, <2>5, <2>6 DEF Stopped, StopKnown, Job
<1>17. QED
  BY StepCases, <1>1, <1>2, <1>3, <1>4, <1>5, <1>6, <1>7, <1>8, <1>9, <1>10, <1>11, <1>12, <1>12a,
     <1>13, <1>14, <1>15, <1>16

LEMMA InitOrdered == Init => Ordered /\ Stopped
<1> SUFFICES ASSUME Init PROVE Ordered /\ Stopped
  OBVIOUS
<1>1. /\ chain = <<>> /\ throttle = NoEntry /\ second.at = "idle"
      /\ object = [ref \in Refs |-> NoRow] /\ row = [NoRow EXCEPT !.status = "running", !.stage = "search"]
  BY DEF Init, NoObjects
<1>2. /\ DOMAIN chain = {} /\ ~throttle.armed /\ ~object["search"].stop /\ ~row.stop
  BY <1>1 DEF NoEntry, NoRow, Refs
<1>3. QED
  BY <1>1, <1>2 DEF Ordered, Places, OneSave, OnlySave, LastSave, Saving, Pending, OnChain, Armed,
     Stopped, StopKnown, StoppedOK

LEMMA StoppedAlways == Spec => [](Types /\ Ordered /\ Stopped)
BY InitTypes, InitOrdered, StepTypes, StepOrdered, StepStopped, PTL DEF Spec

(* While a run is stopped no late write changes the status or the stage it *)
(* shows, until it is deleted (Refused, stopSearchJob).                    *)
THEOREM StoppedStaysOut == Spec => StoppedRunStaysOut
<1>1. Types /\ Ordered /\ Stopped /\ [Next]_vars =>
        [row.stop /\ row'.status # "none" => row'.status = row.status /\ row'.stage = row.stage]_vars
  <2> SUFFICES ASSUME Types, Ordered, Stopped, [Next]_vars, row.stop, row'.status # "none"
               PROVE  row'.status = row.status /\ row'.stage = row.stage
    OBVIOUS
  <2>a. row \in Record /\ StoppedOK(row)
    BY DEF Types, StoreOK, Stopped
  <2>1. CASE row' = row
    BY <2>1
  <2>2. CASE SearchWorks \/ Clears
    BY <2>2, <2>a DEF SearchWorks, Clears, ClearStop, Record
  <2>3. CASE WriteLands
    BY <2>3, LandsEffect
  <2>4. CASE WriteFails \/ Watches \/ Patches \/ Lifts \/ Continues
    BY <2>1, <2>4, FailsEffect DEF Watches, Patches, Lifts, Continues
  <2>5. CASE StopCommits
    BY <2>5, <2>a DEF StopCommits, Exists, StoppedOK, Record
  <2>6. CASE Removes
    BY <2>6 DEF Removes, NoRow
  <2>7. CASE Restart
    BY <2>1, <2>7, <2>a DEF Restart, Interrupted, StoppedOK
  <2>8. CASE TimerFires \/ RouteReads \/ RouteSaves \/ BatchReads \/ BatchSaves \/ OffersReads \/ OffersRefused
    BY <2>1, <2>8 DEF TimerFires, RouteReads, RouteSaves, BatchReads, BatchSaves, OffersReads,
       OffersRefused, store
  <2>9. CASE \/ BatchRereads \/ (Job("review") /\ BatchFinishes) \/ OffersFinishes
             \/ \E late \in BOOLEAN : SecondReports(late) \/ OffersReport(late) \/ OffersFails(late)
    BY <2>1, <2>9 DEF BatchRereads, BatchFinishes, OffersFinishes, SecondReports, OffersReport,
       OffersFails, store
  <2>10. QED
    BY StepCases, <2>1, <2>2, <2>3, <2>4, <2>5, <2>6, <2>7, <2>8, <2>9
<1>2. QED
  BY <1>1, StoppedAlways, PTL DEF Spec, StoppedRunStaysOut

-----------------------------------------------------------------------------
(* While the run was never deleted it has a row, and no object a pipeline  *)
(* may still write is empty.                                               *)

Real(ref) == object[ref].status # "none"

Alive ==
  ~deleted =>
    /\ Exists
    /\ Pending("search") \/ search \notin {"start", "over"} => Real("search")
    /\ Pending("second") \/ second.at \notin {"idle", "over"} => Real("second")
    /\ Pending("fresh") \/ (Job("review") /\ second.at \in {"fresh", "stopping", "ending", "final"}) => Real("fresh")

(* What a write leaves is a run.                                           *)
LEMMA WrittenReal ==
  ASSUME Types, Alive, ~deleted, NEW write \in Writes, write.kind # "patch" => Pending(write.ref)
  PROVE  WrittenBy(write).status # "none"
<1>a. row \in Record /\ row.status # "none"
  BY DEF Types, StoreOK, Alive, Exists
<1>1. CASE write.kind = "patch"
  BY <1>a, <1>1 DEF WrittenBy, Record
<1>2. CASE write.kind # "patch"
  <2>1. write.ref \in Refs /\ object[write.ref] \in Record
    BY <1>2, Constant DEF Writes
  <2>2. object[write.ref].status # "none"
    BY <1>2, <2>1 DEF Alive, Real, Refs
  <2>3. QED
    BY <1>2, <2>1, <2>2 DEF WrittenBy, Record
<1>3. QED
  BY <1>1, <1>2

LEMMA StepAlive == Types /\ Ordered /\ Alive /\ [Next]_vars => Alive'
<1> SUFFICES ASSUME Types, Ordered, Alive, [Next]_vars, ~deleted' PROVE Alive'
  BY DEF Alive
<1>a. /\ Types' /\ {"search", "second", "fresh"} \subseteq Refs
      /\ object \in [Refs -> Record] /\ row \in Record /\ row' \in Record
  BY StepTypes, Constant DEF Types, StoreOK
<1>b. second \in [job : Jobs2, at : SecondPlaces]
  BY JobKnown
<1>c. \A from, to : Goes(from, to) =>
        second.at = from /\ second'.at = to /\ second'.job = second.job
  BY <1>b DEF Goes
<1>d. ~deleted /\ Exists
  BY Counting DEF Counted, Alive
<1>e. ~Pending("fresh") \/ (second.at = "final" /\ Job("review"))
  BY DEF Ordered, Places, Pending, OnChain
<1>1. CASE Watches
  BY <1>1, <1>d DEF Watches, Alive, Exists, Real, Pending, OnChain, Armed, Job
<1>2. CASE SearchWorks
  <2>1. \A ref \in {"second", "fresh"} : (Pending(ref)' => Pending(ref)) /\ object'[ref] = object[ref]
    BY <1>2, SearchWrites
  <2>2. object'["search"].status # "none"
    BY <1>2, <1>a, <1>d DEF SearchWorks, Alive, Real
  <2>3. Exists'
    BY <1>2, <1>a, <1>d DEF SearchWorks, Exists, Record
  <2>4. QED
    BY <1>2, <1>d, <2>1, <2>2, <2>3 DEF SearchWorks, Alive, Real, Job
<1>3. CASE Patches \/ TimerFires \/ WriteFails
  <2>1. \A ref \in Refs : (Pending(ref)' => Pending(ref)) /\ object' = object
    BY <1>3, NobodyWrites
  <2>2. UNCHANGED row
    BY <1>3, FailsEffect DEF Patches, TimerFires, store
  <2>3. second' = second \/ (second'.at = "over" /\ second'.job = second.job)
    BY <1>3, <1>c, FailsEffect DEF Patches, TimerFires
  <2>4. search' \notin {"start", "over"} => search \notin {"start", "over"}
    BY <1>3, FailsEffect DEF Patches, TimerFires
  <2>5. QED
    BY <1>a, <1>d, <2>1, <2>2, <2>3, <2>4 DEF Alive, Exists, Real, Job
<1>4. CASE WriteLands
  <2>1. \A ref \in Refs : (Pending(ref)' => Pending(ref)) /\ object' = object
    BY <1>4, NobodyWrites
  <2>2. Exists'
    <3>1. chain[1] \in Writes /\ 1 \in DOMAIN chain /\ (row' = row \/ row' = WrittenBy(chain[1]))
      BY <1>4, LandsEffect DEF Shrinks
    <3>2. Pending(chain[1].ref)
      BY <3>1 DEF Pending, OnChain
    <3>3. QED
      BY <1>d, <3>1, <3>2, WrittenReal DEF Exists
  <2>3. /\ second'.job = second.job
        /\ second'.at \notin {"idle", "over"} => second.at \notin {"idle", "over"}
        /\ second'.at \in {"fresh", "stopping", "ending", "final"} => second' = second
        /\ search' \notin {"start", "over"} => search \notin {"start", "over"}
    <3>1. chain[1] \in LaterSaves => second.at \notin {"idle", "over"}
      BY <1>4, LandsEffect DEF Shrinks, Ordered, Places, LaterSaves, Saving, Save
    <3>2. QED
      BY <1>4, <3>1, LandsEffect
  <2>4. QED
    BY <1>a, <1>d, <2>1, <2>2, <2>3 DEF Alive, Real, Job
<1>5. CASE Lifts
  BY <1>5, <1>c, <1>d DEF Lifts, Alive, Exists, Real, Pending, OnChain, Armed, Job
<1>6. CASE Clears
  <2>1. Exists'
    BY <1>6, <1>a, <1>d DEF Clears, ClearStop, Exists, Record
  <2>2. QED
    BY <1>6, <1>c, <1>d, <2>1 DEF Clears, Alive, Real, Pending, OnChain, Armed, Job
<1>7. CASE Continues
  BY <1>7, <1>c, <1>d DEF Continues, Alive, Exists, Real, Pending, OnChain, Armed, Job
<1>8. CASE Removes
  BY <1>8 DEF Removes
<1>9. CASE StopCommits
  <2>1. Exists'
    BY <1>9, <1>a, <1>d DEF StopCommits, Exists, Record
  <2>2. UNCHANGED <<chain, throttle, object, second, search>>
    BY <1>9 DEF StopCommits, process
  <2>3. QED
    BY <1>d, <2>1, <2>2 DEF Alive, Real, Pending, OnChain, Armed, Job
<1>10. CASE Restart
  <2>1. chain' = <<>> /\ throttle' = NoEntry /\ second'.at \in {"idle", "over"}
        /\ search' = "over" /\ row' = Interrupted(row)
    BY <1>10, <1>b DEF Restart
  <2>2. Exists'
    BY <1>a, <1>d, <2>1 DEF Interrupted, Exists, Record
  <2>3. \A ref : ~Pending(ref)'
    BY <2>1 DEF Pending, OnChain, Armed, NoEntry
  <2>4. QED
    BY <2>1, <2>2, <2>3 DEF Alive
<1>11. CASE RouteReads \/ BatchReads \/ OffersReads
  <2>1. /\ second'.at \in {"read", "read2", "working", "over"} /\ second'.job = second.job
        /\ object' = [object EXCEPT !["second"] = row]
        /\ UNCHANGED <<row, chain, throttle, search>>
    BY <1>11, <1>c DEF RouteReads, BatchReads, OffersReads, store, process
  <2>2. object'["second"] = row /\ object'["search"] = object["search"] /\ object'["fresh"] = object["fresh"]
    BY <1>a, <2>1
  <2>3. QED
    BY <1>d, <2>1, <2>2 DEF Alive, Exists, Real, Pending, OnChain, Armed
<1>11a. CASE OffersRefused
  <2>1. /\ second'.at \in {"fresh", "over"} /\ second'.job = second.job /\ Job("offers")
        /\ object' = [object EXCEPT !["second"] = [row EXCEPT !.stage = "ended"]]
        /\ UNCHANGED <<row, chain, throttle, search>>
    BY <1>11a, <1>c DEF OffersRefused, store, process
  <2>2. [row EXCEPT !.stage = "ended"].status = row.status
    BY <1>a DEF Record
  <2>3. /\ object'["second"].status = row.status /\ object'["search"] = object["search"]
        /\ object'["fresh"] = object["fresh"]
    BY <1>a, <2>1, <2>2
  <2>4. ~Job("review")' /\ ~Pending("fresh")
    BY <1>e, <2>1 DEF Job
  <2>5. QED
    BY <1>d, <2>1, <2>3, <2>4 DEF Alive, Exists, Real, Pending, OnChain, Armed
<1>12. CASE \/ RouteSaves \/ BatchSaves \/ OffersFinishes
            \/ \E late \in BOOLEAN : SecondReports(late) \/ OffersReport(late) \/ OffersFails(late)
  <2> DEFINE found == object["second"]
  <2>1. PICK content : /\ SaveJob("second", content) \/ \E late : SaveProgress("second", content, late)
                       /\ content.status = found.status
                       /\ UNCHANGED <<row, search>>
    <3>a. \A stage, stop : /\ [found EXCEPT !.stage = stage, !.stop = stop].status = found.status
                           /\ [found EXCEPT !.stage = stage].status = found.status
      BY <1>a DEF Record
    <3>1. CASE RouteSaves \/ BatchSaves
      <4> DEFINE stop == IF BatchSaves THEN FALSE
                         ELSE IF Job("offers") /\ found.status = "running" THEN found.stop ELSE FALSE
                 stage == IF BatchSaves THEN "review" ELSE second.job
      <4>1. SaveJob("second", [found EXCEPT !.stage = stage, !.stop = stop])
        BY <3>1 DEF RouteSaves, BatchSaves
      <4>2. UNCHANGED <<row, search>>
        BY <3>1 DEF RouteSaves, BatchSaves, store
      <4> HIDE DEF stop, stage
      <4>3. QED
        BY <3>a, <4>1, <4>2
    <3>2. CASE OffersFinishes
      BY <3>2 DEF OffersFinishes, store
    <3>3. CASE \E late \in BOOLEAN : SecondReports(late) \/ OffersReport(late) \/ OffersFails(late)
      <4>1. UNCHANGED <<row, search>>
        BY <3>3 DEF SecondReports, OffersReport, OffersFails, store
      <4>2. \E late, stage : SaveProgress("second", [found EXCEPT !.stage = stage], late)
        BY <3>3 DEF SecondReports, OffersReport, OffersFails
      <4>3. QED
        BY <3>a, <4>1, <4>2
    <3>4. QED
      BY <1>12, <3>1, <3>2, <3>3
  <2>a. \/ Goes("cleared", "saving") \/ Goes("read2", "saving2")
        \/ (Goes("fresh", "final") /\ Job("offers"))
        \/ (Goes("closing", "fresh") /\ Job("offers"))
        \/ Goes("working", "worked") \/ Goes("working", "over") \/ Goes("worked", "over")
    BY <1>12 DEF RouteSaves, BatchSaves, OffersFinishes, SecondReports, OffersReport, OffersFails
  <2>2. /\ object'["second"] = content /\ object'["search"] = object["search"]
        /\ object'["fresh"] = object["fresh"]
        /\ \A ref \in {"search", "fresh"} : Pending(ref)' => Pending(ref)
    BY <1>a, <2>1, JobWrites DEF Refs
  <2>3. found.status # "none" /\ second'.job = second.job
        /\ (second'.at \in {"fresh", "stopping", "ending", "final"} => Job("offers"))
    BY <1>c, <1>d, <2>a DEF Alive, Real
  <2>4. Job("offers") => ~Job("review")
    BY DEF Job
  <2>5. QED
    BY <1>d, <2>1, <2>2, <2>3, <2>4 DEF Alive, Exists, Real, Job
<1>13. CASE BatchRereads
  <2>1. second.at = "closing" /\ second'.at \in {"fresh", "over"} /\ second'.job = second.job
        /\ object' = [object EXCEPT !["fresh"] = row]
        /\ UNCHANGED <<row, chain, throttle, search>>
    BY <1>13, <1>c DEF BatchRereads, store
  <2>2. object'["fresh"] = row /\ object'["search"] = object["search"] /\ object'["second"] = object["second"]
    BY <1>a, <2>1
  <2>3. QED
    BY <1>d, <2>1, <2>2 DEF Alive, Exists, Real, Pending, OnChain, Armed
<1>14. CASE Job("review") /\ BatchFinishes
  <2> DEFINE found == object["fresh"]
  <2>1. PICK content : /\ SaveJob("fresh", content) /\ content.status = found.status
                       /\ second.at \in {"stopping", "ending"} /\ second'.at = "final"
                       /\ second'.job = second.job
                       /\ UNCHANGED <<row, search>>
    <3>1. \A stop : [found EXCEPT !.stage = "ended", !.stop = stop].status = found.status
      BY <1>a DEF Record
    <3>2. QED
      BY <1>14, <1>c, <3>1 DEF BatchFinishes, store
  <2>2. /\ object'["fresh"] = content /\ object'["search"] = object["search"]
        /\ object'["second"] = object["second"]
        /\ \A ref \in {"search", "second"} : Pending(ref)' => Pending(ref)
    BY <1>a, <2>1, JobWrites DEF Refs
  <2>3. found.status # "none"
    BY <1>14, <1>d, <2>1 DEF Alive, Real
  <2>4. QED
    BY <1>d, <2>1, <2>2, <2>3 DEF Alive, Exists, Real
<1>15. QED
  BY StepCases, <1>1, <1>2, <1>3, <1>4, <1>5, <1>6, <1>7, <1>8, <1>9, <1>10, <1>11, <1>11a, <1>12,
     <1>13, <1>14

-----------------------------------------------------------------------------
(* The stage of a later job is in the row only between the first save of   *)
(* the job and a write that ends it: when the job is over, what is still   *)
(* to be written of it says that it ended, unless the stage was cut off.   *)

Ended(ref) == object[ref].stage = "ended"

Undisturbed == ~deleted /\ ~suppressed

EndsItself ==
  Undisturbed /\ second.at = "over" =>
    /\ Pending("second") => Ended("second")
    /\ row.stage \notin JobStages \/ cutOff \/ chain # <<>> \/ throttle.armed

Staged ==
  /\ object["search"].stage \notin JobStages
  /\ Pending("fresh") => Ended("fresh")
  /\ Job("offers") /\ second.at \in {"fresh", "final"} => Ended("second")
  /\ second.at \in Before => row.stage \notin JobStages
  /\ EndsItself

(* Before the job and after it, what a write leaves is no stage of a job.  *)
LEMMA WrittenStage ==
  ASSUME Types, Ordered, Staged, NEW write \in Writes, write.kind # "patch" => Pending(write.ref),
         second.at \in Before \/ (Undisturbed /\ second.at = "over")
  PROVE  WrittenBy(write).stage \notin JobStages
<1>a. row \in Record
  BY DEF Types, StoreOK
<1>1. CASE write.kind = "patch"
  BY <1>a, <1>1 DEF WrittenBy, Record, JobStages
<1>2. CASE write.kind # "patch"
  <2>1. write.ref \in Refs /\ object[write.ref] \in Record
    BY <1>2, Constant DEF Writes
  <2>2. object[write.ref].stage \notin JobStages
    BY <1>2, <2>1 DEF Staged, EndsItself, Ended, Ordered, Untouched, Refs, JobStages
  <2>3. QED
    BY <1>2, <2>1, <2>2 DEF WrittenBy, Record
<1>3. QED
  BY <1>1, <1>2

LEMMA StepStaged == Types /\ Ordered /\ Alive /\ Staged /\ [Next]_vars => Staged'
<1> SUFFICES ASSUME Types, Ordered, Alive, Staged, [Next]_vars PROVE Staged'
  OBVIOUS
<1>a. /\ Types' /\ {"search", "second", "fresh"} \subseteq Refs /\ Ordered'
      /\ object \in [Refs -> Record] /\ row \in Record /\ row' \in Record
      /\ suppressed \in BOOLEAN
  BY StepTypes, StepOrdered, Constant DEF Types, StoreOK
<1>b. second \in [job : Jobs2, at : SecondPlaces] /\ JobStages' = JobStages
  BY JobKnown DEF JobStages
<1>g. cutOff /\ row'.stage \in JobStages => cutOff'
  BY Counting DEF Counted
<1>c. \A from, to : Goes(from, to) =>
        second.at = from /\ second'.at = to /\ second'.job = second.job
  BY <1>b DEF Goes
<1>d. ~deleted' => ~deleted /\ Exists
  BY Counting DEF Counted, Alive
<1>e. ~Pending("fresh") \/ (second.at = "final" /\ Job("review"))
  BY DEF Ordered, Places, Pending, OnChain
<1>f. Undisturbed' /\ (suppressed => suppressed') => Undisturbed
  BY <1>d, Counting DEF Counted, Undisturbed
<1>1. CASE Watches
  <2>1. UNCHANGED <<row, chain, throttle, object, second>> /\ (suppressed => suppressed')
    BY <1>1 DEF Watches
  <2>2. EndsItself'
    BY <1>f, <1>g, <2>1 DEF Staged, EndsItself, Ended, Pending, OnChain, Armed
  <2>3. QED
    BY <1>b, <2>1, <2>2 DEF Staged, Ended, Pending, OnChain, Armed, Job
<1>2. CASE SearchWorks
  <2>1. \A ref \in {"second", "fresh"} : (Pending(ref)' => Pending(ref)) /\ object'[ref] = object[ref]
    BY <1>2, SearchWrites
  <2>2. object'["search"].stage \notin JobStages
    BY <1>2, <1>a DEF SearchWorks, Staged
  <2>3. row'.stage = row.stage
    BY <1>2, <1>a DEF SearchWorks, Record
  <2>4. chain # <<>> \/ throttle.armed => chain' # <<>> \/ throttle'.armed
    <3>1. chain # <<>> => chain' # <<>>
      <4>1. chain = <<>> \/ \E i : i \in DOMAIN chain
        <5>1. chain \in Seq(Writes)
          BY DEF Types, MemoryOK
        <5>2. QED
          BY <5>1
      <4>2. DOMAIN <<>> = {}
        OBVIOUS
      <4>3. QED
        BY <1>2, <4>1, <4>2 DEF SearchWorks, Grows
    <3>2. QED
      BY <1>2, <3>1 DEF SearchWorks
  <2>5. EndsItself'
    BY <1>2, <1>b, <1>f, <1>g, <2>1, <2>3, <2>4 DEF SearchWorks, Staged, EndsItself, Ended
  <2>6. QED
    BY <1>2, <1>b, <2>1, <2>2, <2>3, <2>5 DEF SearchWorks, Staged, Ended, Job
<1>3. CASE Patches \/ TimerFires
  <2>1. \A ref \in Refs : (Pending(ref)' => Pending(ref)) /\ object' = object
    BY <1>3, NobodyWrites
  <2>2. chain' # <<>> /\ UNCHANGED <<row, suppressed>>
    BY <1>3, TimerEffect DEF Patches, TimerFires, store, Types
  <2>3. second' = second \/ (second.at = "scheduled" /\ second'.at = "over" /\ second'.job = second.job)
    BY <1>3, <1>c DEF Patches, TimerFires
  <2>4. second.at = "scheduled" => ~Pending("second")
    BY DEF Ordered, Untouched
  <2>5. EndsItself'
    BY <1>a, <1>f, <1>g, <2>1, <2>2, <2>3, <2>4 DEF Staged, EndsItself, Ended
  <2>6. QED
    BY <1>a, <1>b, <2>1, <2>2, <2>3, <2>5 DEF Staged, Ended, Job, Before
<1>4. CASE WriteFails
  <2>1. \A ref \in Refs : (Pending(ref)' => Pending(ref)) /\ object' = object
    BY <1>4, NobodyWrites
  <2>2. (row.stage \in JobStages => cutOff') /\ UNCHANGED <<row, suppressed, throttle>>
    BY <1>4, FailsEffect
  <2>3. second' = second \/ (second'.at = "over" /\ second'.job = second.job)
    BY <1>4, FailsEffect
  <2>4. ASSUME Undisturbed', second'.at = "over", Pending("second")'
        PROVE  Ended("second")'
    <3>1. CASE second.at = "over"
      BY <1>a, <1>f, <2>1, <2>2, <2>4, <3>1 DEF Staged, EndsItself, Ended
    <3>2. CASE second.at # "over"
      <4>1. chain[1] \in LaterSaves /\ 1 \in DOMAIN chain /\ Shrinks
        BY <1>4, <2>4, <3>2, FailsEffect DEF Shrinks
      <4>2. \/ chain[1] = Save("fresh") /\ second.at = "final" /\ Job("review")
            \/ chain[1] = Save("second") /\ second.at = "final" /\ Job("offers")
            \/ chain[1] = Save("second") /\ second.at \in Saving
        BY <4>1, Names DEF LaterSaves, Ordered, Places
      <4>3. CASE Job("offers") /\ second.at = "final"
        BY <1>a, <2>1, <4>3 DEF Staged, Ended, Job
      <4>4. CASE chain[1] = Save("fresh") /\ second.at = "final" /\ Job("review")
        <5>1. \A i \in DOMAIN chain' : chain'[i].ref # "second"
          BY <4>1, <4>4 DEF Shrinks, Ordered, LastSave
        <5>2. QED
          BY <2>2, <2>4, <4>4, <5>1 DEF Pending, OnChain, Armed, Ordered, LastSave
      <4>5. CASE chain[1] = Save("second") /\ second.at \in Saving
        <5>1. \A i \in DOMAIN chain' : i + 1 \in DOMAIN chain /\ chain'[i] = chain[i + 1] /\ i + 1 # 1
          BY <4>1 DEF Shrinks
        <5>2. \A i \in DOMAIN chain' : chain'[i].ref # "second"
          BY <4>1, <4>5, <5>1 DEF Ordered, OneSave, OnlySave, LaterSaves
        <5>3. QED
          BY <2>2, <2>4, <4>5, <5>2 DEF Pending, OnChain, Armed, Ordered, OnlySave
      <4>6. QED
        BY <4>2, <4>3, <4>4, <4>5
    <3>3. QED
      BY <3>1, <3>2
  <2>5. QED
    BY <1>a, <1>b, <2>1, <2>2, <2>3, <2>4 DEF Staged, EndsItself, Ended, Job, Before
<1>5. CASE WriteLands
  <2>1. \A ref \in Refs : (Pending(ref)' => Pending(ref)) /\ object' = object
    BY <1>5, NobodyWrites
  <2>2. /\ chain[1] \in Writes /\ 1 \in DOMAIN chain /\ Shrinks
        /\ \/ row' = row /\ (suppressed' \/ ~Exists) /\ (suppressed => suppressed')
           \/ ~suppressed /\ ~suppressed' /\ row' = WrittenBy(chain[1])
    BY <1>5, LandsEffect DEF Shrinks
  <2>3. Pending(chain[1].ref)
    BY <2>2 DEF Pending, OnChain
  <2>4. second'.job = second.job /\ (second'.at \in Before => second' = second)
        /\ (second'.at \in {"fresh", "stopping", "ending", "final"} => second' = second)
    BY <1>5, LandsEffect DEF Before
  <2>5. second'.at \in Before => row'.stage \notin JobStages
    BY <2>2, <2>3, <2>4, WrittenStage DEF Staged
  <2>6. ASSUME Undisturbed', second'.at = "over"
        PROVE  (Pending("second")' => Ended("second")') /\ row'.stage \notin JobStages
    <3>1. ~suppressed' /\ ~suppressed /\ Exists /\ Undisturbed /\ row' = WrittenBy(chain[1])
      BY <1>d, <1>f, <2>2, <2>6 DEF Undisturbed
    <3>2. CASE second.at = "over"
      BY <1>a, <2>1, <2>2, <2>3, <3>1, <3>2, WrittenStage DEF Staged, EndsItself, Ended
    <3>3. CASE second.at # "over"
      <4>1. chain[1] \in LaterSaves /\ second.at \notin Saving
        BY <1>5, <2>6, <3>1, <3>3, LandsEffect DEF Saving
      <4>2. \/ chain[1] = Save("fresh") /\ second.at = "final" /\ Job("review")
            \/ chain[1] = Save("second") /\ second.at = "final" /\ Job("offers")
        BY <2>2, <4>1, Names DEF LaterSaves, Ordered, Places
      <4>3. \E ref \in {"second", "fresh"} : chain[1] = Save(ref) /\ Ended(ref)
        BY <2>3, <4>2, Names DEF Staged
      <4>4. row'.stage = "ended"
        <5>1. PICK ref \in {"second", "fresh"} : chain[1] = Save(ref) /\ Ended(ref)
          BY <4>3
        <5>2. chain[1].kind = "save" /\ chain[1].ref = ref /\ object[ref] \in Record
          BY <1>a, <5>1 DEF Save
        <5>3. QED
          BY <3>1, <5>1, <5>2 DEF WrittenBy, Ended, Record
      <4>5. Pending("second")' => Ended("second")'
        <5>1. CASE Job("offers")
          BY <1>a, <2>1, <4>2, <5>1 DEF Staged, Ended, Job
        <5>2. CASE chain[1] = Save("fresh") /\ second.at = "final" /\ Job("review")
          <6>1. \A i \in DOMAIN chain' : chain'[i].ref # "second"
            BY <2>2, <5>2 DEF Shrinks, Ordered, LastSave
          <6>2. throttle' = throttle
            BY <1>5, LandsEffect
          <6>3. QED
            BY <5>2, <6>1, <6>2 DEF Pending, OnChain, Armed, Ordered, LastSave
        <5>3. QED
          BY <4>2, <5>1, <5>2
      <4>6. QED
        BY <4>4, <4>5 DEF JobStages
    <3>4. QED
      BY <3>2, <3>3
  <2>7. QED
    BY <1>a, <1>b, <2>1, <2>4, <2>5, <2>6 DEF Staged, EndsItself, Ended, Job
<1>6. CASE Lifts
  BY <1>6, <1>b, <1>c, <1>e DEF Lifts, Staged, EndsItself, Ended, Pending, OnChain, Armed, Job,
     Before
<1>7. CASE Clears
  <2>1. row'.stage = row.stage
    BY <1>7, <1>a DEF Clears, ClearStop, Record
  <2>2. QED
    BY <1>7, <1>b, <1>c, <1>e, <2>1 DEF Clears, Staged, EndsItself, Ended, Pending, OnChain,
       Armed, Job, Before
<1>8. CASE Continues
  BY <1>8, <1>b, <1>c, <1>e DEF Continues, Staged, EndsItself, Undisturbed, Ended, Pending,
     OnChain, Armed, Job, Before
<1>9. CASE Removes
  BY <1>9, <1>b DEF Removes, NoRow, JobStages, Staged, EndsItself, Undisturbed, Ended, Pending,
     OnChain, Armed, Job
<1>10. CASE StopCommits
  <2>1. row'.stage \in {row.stage, "ended"}
    BY <1>10, <1>a DEF StopCommits, Record
  <2>2. UNCHANGED <<chain, throttle, object, second, suppressed>>
    BY <1>10 DEF StopCommits, process
  <2>3. row.stage \notin JobStages => row'.stage \notin JobStages
    BY <2>1 DEF JobStages
  <2>4. EndsItself'
    BY <1>b, <1>f, <1>g, <2>2, <2>3 DEF Staged, EndsItself, Ended, Pending, OnChain, Armed
  <2>5. QED
    BY <1>b, <2>2, <2>3, <2>4 DEF Staged, Ended, Pending, OnChain, Armed, Job
<1>11. CASE Restart
  <2>1. chain' = <<>> /\ throttle' = NoEntry /\ row' = Interrupted(row) /\ object' = NoObjects
        /\ (row'.stage \in JobStages => cutOff')
        /\ second'.at \in {"idle", "over"} /\ (second'.at = "idle" => second.at = "idle")
    BY <1>11, <1>b DEF Restart, CutsOff
  <2>2. row'.stage \in {row.stage, "ended"}
    BY <1>a, <2>1 DEF Interrupted, Record
  <2>3. \A ref : ~Pending(ref)'
    BY <2>1 DEF Pending, OnChain, Armed, NoEntry
  <2>4. object'["search"].stage \notin JobStages
    BY <2>1 DEF NoObjects, NoRow, Refs, JobStages
  <2>5. second'.at \in Before => row'.stage \notin JobStages
    BY <2>1, <2>2 DEF Staged, Before, JobStages
  <2>6. QED
    BY <1>b, <2>1, <2>3, <2>4, <2>5 DEF Staged, EndsItself, Undisturbed
<1>12. CASE RouteReads \/ BatchReads
  <2>1. /\ object' = [object EXCEPT !["second"] = row]
        /\ UNCHANGED <<row, chain, throttle>>
        /\ second.at \in {"idle", "cleared2"} /\ second'.job = second.job
        /\ second'.at \in {"read", "read2", "over"}
        /\ second'.at = "read" => second.at = "idle"
        /\ second'.at = "over" => ~Exists
    BY <1>12, <1>c DEF RouteReads, BatchReads, store, process
  <2>2. object'["second"] = row /\ object'["search"] = object["search"] /\ object'["fresh"] = object["fresh"]
    BY <1>a, <2>1
  <2>3. second'.at = "over" => ~Undisturbed'
    BY <1>d, <2>1 DEF Undisturbed
  <2>4. QED
    BY <1>b, <1>e, <2>1, <2>2, <2>3 DEF Staged, EndsItself, Pending, OnChain, Armed, Before
<1>13. CASE OffersReads
  <2>1. /\ object' = [object EXCEPT !["second"] = row] /\ UNCHANGED <<row, chain, throttle>>
        /\ second.at = "scheduled" /\ second'.job = second.job
        /\ second'.at \in {"working", "over"}
        /\ second'.at = "over" => ~Exists \/ suppressed'
    <3>1. /\ suppressed' = (suppressed \/ (Exists /\ StoredSuppression))
          /\ Goes("scheduled", IF Exists /\ ~suppressed /\ ~StoredSuppression THEN "working" ELSE "over")
          /\ object' = [object EXCEPT !["second"] = row] /\ UNCHANGED <<row, chain, throttle>>
      BY <1>13 DEF OffersReads, store
    <3>2. Exists \in BOOLEAN /\ StoredSuppression \in BOOLEAN
      BY DEF Exists, StoredSuppression, Record
    <3>3. QED
      BY <1>a, <1>c, <3>1, <3>2
  <2>2. object'["second"] = row /\ object'["search"] = object["search"] /\ object'["fresh"] = object["fresh"]
    BY <1>a, <2>1
  <2>3. second'.at = "over" => ~Undisturbed'
    BY <1>d, <2>1 DEF Undisturbed
  <2>4. QED
    BY <1>b, <1>e, <2>1, <2>2, <2>3 DEF Staged, EndsItself, Pending, OnChain, Armed, Before
<1>13a. CASE OffersRefused
  <2>1. /\ object' = [object EXCEPT !["second"] = [row EXCEPT !.stage = "ended"]]
        /\ UNCHANGED <<row, chain, throttle>>
        /\ second.at = "scheduled" /\ second'.job = second.job
        /\ second'.at \in {"fresh", "over"}
        /\ second'.at = "over" => ~Exists
    BY <1>13a, <1>c DEF OffersRefused, store, process
  <2>2. [row EXCEPT !.stage = "ended"].stage = "ended"
    BY <1>a DEF Record
  <2>3. /\ object'["second"].stage = "ended" /\ object'["search"] = object["search"]
        /\ object'["fresh"] = object["fresh"]
    BY <1>a, <2>1, <2>2
  <2>4. second'.at = "over" => ~Undisturbed'
    BY <1>d, <2>1 DEF Undisturbed
  <2>5. QED
    BY <1>b, <1>e, <2>1, <2>3, <2>4 DEF Staged, EndsItself, Ended, Pending, OnChain, Armed, Before
<1>14. CASE RouteSaves \/ BatchSaves
  <2>1. PICK content : SaveJob("second", content)
    BY <1>14 DEF RouteSaves, BatchSaves
  <2>2. /\ object'["search"] = object["search"] /\ object'["fresh"] = object["fresh"]
        /\ (Pending("fresh")' => Pending("fresh"))
    BY <1>a, <2>1, JobWrites
  <2>3. second'.at \in Saving
    BY <1>14, <1>c DEF RouteSaves, BatchSaves, Saving
  <2>4. QED
    BY <1>b, <2>2, <2>3 DEF Staged, EndsItself, Ended, Saving, Before
<1>15. CASE \/ OffersFinishes
            \/ \E late \in BOOLEAN : SecondReports(late) \/ OffersReport(late) \/ OffersFails(late)
  <2> DEFINE found == object["second"]
  <2>1. PICK content : /\ SaveJob("second", content) \/ \E late : SaveProgress("second", content, late)
                       /\ second'.at = "worked" \/ content.stage = "ended"
    <3>1. CASE OffersFinishes
      <4>1. SaveJob("second", object["second"])
        BY <3>1 DEF OffersFinishes
      <4>2. Ended("second")
        BY <3>1, <1>c DEF OffersFinishes, Staged
      <4>3. QED
        BY <4>1, <4>2 DEF Ended
    <3>2. CASE \E late \in BOOLEAN : SecondReports(late)
      BY <3>2, <1>c DEF SecondReports
    <3>3. CASE \E late \in BOOLEAN : OffersReport(late) \/ OffersFails(late)
      <4>1. [found EXCEPT !.stage = "ended"].stage = "ended"
        BY <1>a DEF Record
      <4>2. QED
        BY <3>3, <4>1 DEF OffersReport, OffersFails
    <3>4. QED
      BY <1>15, <3>1, <3>2, <3>3
  <2>2. /\ object'["second"] = content /\ object'["search"] = object["search"]
        /\ object'["fresh"] = object["fresh"] /\ (Pending("fresh")' => Pending("fresh"))
        /\ chain' # <<>> \/ throttle'.armed
    BY <1>a, <2>1, JobWrites
  <2>3. second'.at \in {"worked", "fresh", "final", "over"}
    BY <1>15, <1>c DEF OffersFinishes, SecondReports, OffersReport, OffersFails
  <2>4. second'.at # "worked" => Ended("second")'
    BY <2>1, <2>2 DEF Ended
  <2>5. QED
    BY <1>b, <2>2, <2>3, <2>4 DEF Staged, EndsItself, Ended, Before
<1>16. CASE BatchRereads
  <2>1. /\ second'.at \in {"fresh", "over"} /\ second'.job = second.job /\ Job("review")
        /\ object' = [object EXCEPT !["fresh"] = row] /\ second.at = "closing"
        /\ UNCHANGED <<row, chain, throttle>>
        /\ second'.at = "over" => ~Exists
    BY <1>16, <1>c DEF BatchRereads, store
  <2>2. object'["fresh"] = row /\ object'["search"] = object["search"] /\ object'["second"] = object["second"]
    BY <1>a, <2>1
  <2>3. second'.at = "over" => ~Undisturbed'
    BY <1>d, <2>1 DEF Undisturbed
  <2>4. QED
    BY <1>b, <1>e, <2>1, <2>2, <2>3 DEF Staged, EndsItself, Pending, OnChain, Armed, Before, Job
<1>17. CASE Job("review") /\ BatchFinishes
  <2> DEFINE found == object["fresh"]
  <2>1. PICK content : /\ SaveJob("fresh", content) /\ content.stage = "ended"
                       /\ second'.at = "final" /\ second'.job = second.job
    <3>1. \A stop : [found EXCEPT !.stage = "ended", !.stop = stop].stage = "ended"
      BY <1>a DEF Record
    <3>2. QED
      BY <1>17, <1>c, <3>1 DEF BatchFinishes
  <2>2. /\ object'["fresh"] = content /\ object'["search"] = object["search"]
    BY <1>a, <2>1, JobWrites
  <2>3. QED
    BY <1>17, <1>b, <2>1, <2>2 DEF Staged, EndsItself, Ended, Before, Job
<1>18. QED
  BY StepCases, <1>1, <1>2, <1>3, <1>4, <1>5, <1>6, <1>7, <1>8, <1>9, <1>10, <1>11, <1>12,
     <1>13, <1>13a, <1>14, <1>15, <1>16, <1>17

-----------------------------------------------------------------------------
(* Once the search is over the row says that it runs only if an object of  *)
(* the later job says so, but while the later job is about to save an      *)
(* older snapshot; and a write that the search left behind, from an object *)
(* that still runs, is either refused or followed by that save.            *)

Snapshot == {"clearing", "cleared", "saving", "clearing2", "cleared2", "read2", "saving2"}

Shown == row.status = "running" => "running" \in {object["second"].status, object["fresh"].status}

LeftRunningObject == search = "over" /\ ~suppressed /\ object["search"].status = "running"

Overwritten ==
  ~Armed("search") /\ \A i, j \in DOMAIN chain : chain[i] = Save("second") /\ j > i => chain[j].ref # "search"

Sound == faults = 0 /\ ~deleted

Settled ==
  Sound =>
    /\ search \in {"final", "failed"} => object["search"].status # "running"
    /\ search \notin {"rescue", "failing"}
    /\ search = "over" /\ ~suppressed /\ second.at \notin Snapshot => Shown
    /\ LeftRunningObject /\ second.at \notin Snapshot => ~Pending("search")
    /\ LeftRunningObject /\ second.at \in Saving => Overwritten

(* A write of the search that is over, or of the later job, shows the run  *)
(* as running only when the later job's object does.                       *)
LEMMA WrittenShown ==
  ASSUME Types, Settled, Sound, ~suppressed, NEW write \in Writes,
         write.kind # "patch" => Pending(write.ref),
         \/ search = "over" /\ second.at \notin Snapshot
         \/ search \in {"final", "failed"} /\ write.ref = "search"
  PROVE  \/ WrittenBy(write).status # "running" \/ (write.kind = "patch" /\ Shown)
         \/ "running" \in {object["second"].status, object["fresh"].status}
<1>a. row \in Record
  BY DEF Types, StoreOK
<1>1. CASE write.kind = "patch"
  <2>1. write.ref \in {"done", "failed"}
    BY <1>1 DEF Writes
  <2>2. QED
    BY <1>1, <2>1 DEF Settled
<1>2. CASE write.kind # "patch"
  <2>1. write.ref \in Refs /\ object[write.ref] \in Record
    BY <1>2, Constant DEF Writes
  <2>2. WrittenBy(write).status = object[write.ref].status
    BY <1>2, <2>1 DEF WrittenBy, Record
  <2>3. write.ref = "search" => object["search"].status # "running"
    BY <1>2 DEF Settled, LeftRunningObject
  <2>4. QED
    BY <2>1, <2>2, <2>3 DEF Refs
<1>3. QED
  BY <1>1, <1>2

LEMMA StepSettled == Types /\ Ordered /\ Alive /\ Settled /\ [Next]_vars => Settled'
<1> SUFFICES ASSUME Types, Ordered, Alive, Settled, [Next]_vars, Sound' PROVE Settled'
  BY DEF Settled
<1>a. /\ Types' /\ {"search", "second", "fresh"} \subseteq Refs
      /\ object \in [Refs -> Record] /\ row \in Record /\ row' \in Record
      /\ suppressed \in BOOLEAN
  BY StepTypes, Constant DEF Types, StoreOK
<1>b. second \in [job : Jobs2, at : SecondPlaces]
  BY JobKnown
<1>c. \A from, to : Goes(from, to) =>
        second.at = from /\ second'.at = to /\ second'.job = second.job
  BY <1>b DEF Goes
<1>d. Sound /\ Exists
  BY Counting DEF Counted, Alive, Sound
<1>e. search \notin {"rescue", "failing"}
  BY <1>d DEF Settled
<1> USE <1>d
<1>1. CASE Watches
  BY <1>1, <1>e DEF Watches, Settled, Shown, LeftRunningObject, Overwritten, Pending, OnChain,
     Armed
<1>2. CASE SearchWorks
  BY <1>2, <1>a DEF SearchWorks, Settled, LeftRunningObject
<1>3. CASE Patches \/ TimerFires
  <2>1. \A ref \in Refs : (Pending(ref)' => Pending(ref)) /\ object' = object
    BY <1>3, NobodyWrites
  <2>2. UNCHANGED <<row, suppressed, search>>
    BY <1>3, <1>e DEF Patches, TimerFires, store
  <2>3. second' = second \/ (second.at = "scheduled" /\ second'.at = "over")
    BY <1>3, <1>c DEF Patches, TimerFires
  <2>4. LeftRunningObject /\ second.at \in Saving => Overwritten'
    <3>1. SUFFICES ASSUME LeftRunningObject, second.at \in Saving PROVE Overwritten'
      OBVIOUS
    <3>2. Overwritten
      BY <3>1 DEF Settled
    <3>3. \E writes : Grows(writes) /\ (\A w \in writes : w.ref # "search" /\ w # Save("second"))
                                 /\ ~throttle'.armed
      <4>1. CASE Patches
        BY <4>1, Names DEF Patches
      <4>2. CASE TimerFires
        <5>1. throttle.armed /\ ~throttle'.armed /\ Grows({Progress(throttle.ref)})
          BY <4>2, TimerEffect DEF Types
        <5>2. throttle.ref # "search"
          BY <3>2, <5>1 DEF Overwritten, Armed
        <5>3. \A w \in {Progress(throttle.ref)} : w.ref # "search" /\ w # Save("second")
          BY <5>2, Names
        <5>4. QED
          BY <5>1, <5>3
      <4>3. QED
        BY <1>3, <4>1, <4>2
    <3>4. QED
      BY <3>2, <3>3 DEF Overwritten, Armed, Grows
  <2>5. QED
    BY <1>a, <2>1, <2>2, <2>3, <2>4 DEF Settled, Shown, LeftRunningObject, Snapshot, Saving
<1>4. CASE WriteFails
  BY <1>4, FailsEffect DEF Sound
<1>5. CASE WriteLands
  <2>1. \A ref \in Refs : (Pending(ref)' => Pending(ref)) /\ object' = object
    BY <1>5, NobodyWrites
  <2>2. /\ chain[1] \in Writes /\ 1 \in DOMAIN chain /\ Shrinks /\ throttle' = throttle
        /\ \/ row' = row /\ suppressed'
           \/ ~suppressed /\ ~suppressed' /\ row' = WrittenBy(chain[1])
    BY <1>5, LandsEffect DEF Shrinks
  <2>3. Pending(chain[1].ref)
    BY <2>2 DEF Pending, OnChain
  <2>4. \/ search' = search
        \/ search \in {"created", "saving"} /\ search' = "loop"
        \/ chain[1] = Save("search") /\ search \in {"final", "failed"} /\ search' = "over"
    BY <1>5, LandsEffect
  <2>5. /\ search' \in {"final", "failed"} => object["search"].status # "running"
        /\ search' \notin {"rescue", "failing"}
    BY <1>e, <2>4 DEF Settled
  <2>6. ASSUME search' = "over", ~suppressed', second'.at \notin Snapshot
        PROVE  Shown'
    <3>1. ~suppressed /\ row' = WrittenBy(chain[1])
      BY <2>2, <2>6
    <3>2. CASE second.at \notin Snapshot \/ search # "over"
      <4>1. \/ search = "over" /\ second.at \notin Snapshot
            \/ search \in {"final", "failed"} /\ chain[1].ref = "search"
        BY <2>4, <2>6, <3>2, Names
      <4>2. \/ row'.status # "running" \/ (chain[1].kind = "patch" /\ Shown)
            \/ "running" \in {object["second"].status, object["fresh"].status}
        BY <2>2, <2>3, <3>1, <4>1, WrittenShown
      <4>3. chain[1].kind = "patch" => row'.status \in {row.status, "failed"}
        BY <1>a, <3>1 DEF WrittenBy, Record
      <4>4. QED
        BY <2>1, <4>2, <4>3, <1>a DEF Shown
    <3>3. CASE second.at \in Snapshot /\ search = "over"
      <4>1. chain[1] \in LaterSaves
        BY <1>5, <2>6, <3>3, LandsEffect
      <4>2. chain[1] = Save("second") \/ chain[1] = Save("fresh")
        BY <4>1 DEF LaterSaves
      <4>3. row'.status \in {object["second"].status, object["fresh"].status}
        BY <1>a, <3>1, <4>2 DEF WrittenBy, Save, Record
      <4>4. QED
        BY <1>a, <2>1, <4>3 DEF Shown
    <3>4. QED
      BY <2>4, <3>2, <3>3
  <2>7. ASSUME LeftRunningObject', second'.at \notin Snapshot
        PROVE  ~Pending("search")'
    <3>1. LeftRunningObject
      BY <1>a, <2>1, <2>2, <2>4, <2>7 DEF LeftRunningObject, Settled
    <3>2. CASE second.at \notin Snapshot
      BY <1>a, <2>1, <3>1, <3>2 DEF Settled
    <3>3. CASE second.at \in Snapshot
      <4>1. chain[1] \in LaterSaves
        BY <1>5, <2>7, <3>3, LandsEffect
      <4>2. chain[1] = Save("second") /\ second.at \in Saving
        BY <2>2, <3>3, <4>1, Names DEF LaterSaves, Ordered, Places, Snapshot
      <4>3. Overwritten
        BY <3>1, <4>2 DEF Settled
      <4>4. \A i \in DOMAIN chain' : chain'[i].ref # "search"
        BY <2>2, <4>2, <4>3 DEF Shrinks, Overwritten
      <4>5. QED
        BY <2>2, <4>3, <4>4 DEF Pending, OnChain, Armed, Overwritten
    <3>4. QED
      BY <3>2, <3>3
  <2>8. ASSUME LeftRunningObject', second'.at \in Saving
        PROVE  Overwritten'
    <3>1. LeftRunningObject /\ second' = second
      BY <1>5, <1>a, <2>1, <2>2, <2>4, <2>8, LandsEffect DEF LeftRunningObject, Settled, Saving
    <3>2. Overwritten
      BY <2>8, <3>1 DEF Settled
    <3>3. DOMAIN chain' \subseteq Nat
      BY <1>a, StepIndexed
    <3>4. \A i, j \in DOMAIN chain' : j > i => j + 1 > i + 1
      BY <3>3
    <3>5. QED
      BY <2>2, <3>2, <3>4 DEF Shrinks, Overwritten, Armed
  <2>9. object' = object
    BY <1>a, <2>1
  <2>10. QED
    BY <2>9, <2>5, <2>6, <2>7, <2>8 DEF Settled
<1>6. CASE Lifts \/ Clears
  <2>1. UNCHANGED <<object, search>> /\ second'.at \in Snapshot /\ second'.at \notin Saving
    BY <1>6, <1>c DEF Lifts, Clears, Snapshot, Saving
  <2>2. QED
    BY <1>e, <2>1 DEF Settled
<1>7. CASE Continues
  BY <1>7, <1>c, <1>e DEF Continues, Settled, Shown, LeftRunningObject, Pending, OnChain, Armed,
     Snapshot, Saving
<1>8. CASE Removes
  BY <1>8 DEF Removes, Sound
<1>9. CASE StopCommits
  <2>1. row'.status # "running"
    BY <1>9, <1>a DEF StopCommits, Record
  <2>2. UNCHANGED <<chain, throttle, object, second, suppressed, search>>
    BY <1>9 DEF StopCommits, process
  <2>3. QED
    BY <2>1, <2>2 DEF Settled, Shown, LeftRunningObject, Overwritten, Pending, OnChain, Armed
<1>10. CASE Restart
  <2>1. chain' = <<>> /\ throttle' = NoEntry /\ row' = Interrupted(row) /\ search' = "over"
        /\ second'.at \in {"idle", "over"}
    BY <1>10, <1>b DEF Restart
  <2>2. row'.status # "running"
    BY <1>a, <2>1 DEF Interrupted, Record
  <2>3. ~Pending("search")'
    BY <2>1 DEF Pending, OnChain, Armed, NoEntry
  <2>4. QED
    BY <2>1, <2>2, <2>3 DEF Settled, Shown, Snapshot, Saving
<1>11. CASE RouteReads \/ BatchReads \/ OffersReads
  <2>1. /\ object' = [object EXCEPT !["second"] = row]
        /\ UNCHANGED <<row, chain, throttle, search>>
        /\ suppressed => suppressed'
        /\ \/ second.at = "idle" /\ second'.at = "read"
           \/ second.at = "scheduled" /\ second'.at \in {"working", "over"}
           \/ second.at = "cleared2" /\ second'.at = "read2"
    <3>1. CASE RouteReads
      BY <3>1, <1>c DEF RouteReads, store, process
    <3>2. CASE BatchReads
      BY <3>2, <1>c DEF BatchReads, store
    <3>3. CASE OffersReads
      BY <3>3, <1>a, <1>c DEF OffersReads, store
    <3>4. QED
      BY <1>11, <3>1, <3>2, <3>3
  <2>2. object'["second"] = row /\ object'["search"] = object["search"]
    BY <1>a, <2>1
  <2>3. QED
    BY <1>e, <2>1, <2>2 DEF Settled, Shown, LeftRunningObject, Pending, OnChain, Armed, Snapshot,
       Saving
<1>11a. CASE OffersRefused
  <2>1. /\ object' = [object EXCEPT !["second"] = [row EXCEPT !.stage = "ended"]]
        /\ UNCHANGED <<row, chain, throttle, search, suppressed>>
        /\ second.at = "scheduled" /\ second'.at \in {"fresh", "over"}
    BY <1>11a, <1>c DEF OffersRefused, store, process
  <2>2. [row EXCEPT !.stage = "ended"].status = row.status
    BY <1>a DEF Record
  <2>3. object'["second"].status = row.status /\ object'["search"] = object["search"]
    BY <1>a, <2>1, <2>2
  <2>4. QED
    BY <1>e, <2>1, <2>3 DEF Settled, Shown, LeftRunningObject, Pending, OnChain, Armed, Snapshot,
       Saving
<1>12. CASE RouteSaves \/ BatchSaves
  <2>1. PICK content : SaveJob("second", content)
    BY <1>12 DEF RouteSaves, BatchSaves
  <2>2. /\ object'["search"] = object["search"]
        /\ ~throttle'.armed /\ Adds(Save("second"))
    BY <1>a, <2>1, JobWrites, SaveJobEffect DEF Types
  <2>3. /\ second.at \in Untouched \ Saving /\ second'.at \in Saving \cap Snapshot
        /\ UNCHANGED search
    BY <1>12, <1>c DEF RouteSaves, BatchSaves, Saving, Snapshot, Untouched, Before
  <2>4. PICK n \in DOMAIN chain' :
          /\ chain'[n] = Save("second") /\ n \notin DOMAIN chain
          /\ \A i \in DOMAIN chain : i \in DOMAIN chain' /\ chain'[i] = chain[i] /\ i < n
          /\ \A i \in DOMAIN chain' : i \in DOMAIN chain \/ i = n
    BY <2>2 DEF Adds
  <2>5. \A i \in DOMAIN chain : chain[i] # Save("second")
    BY <2>3, Names DEF Ordered, Pending, OnChain
  <2>6. \A i, j \in DOMAIN chain' : chain'[i] = Save("second") /\ j > i => FALSE
    <3>1. SUFFICES ASSUME NEW i \in DOMAIN chain', NEW j \in DOMAIN chain',
                          chain'[i] = Save("second"), j > i
                   PROVE  FALSE
      OBVIOUS
    <3>2. i = n
      BY <2>4, <2>5, <3>1
    <3>3. DOMAIN chain' \subseteq Nat
      BY <1>a, StepIndexed
    <3>4. QED
      BY <2>4, <3>1, <3>2, <3>3
  <2>7. Overwritten'
    BY <2>2, <2>6 DEF Overwritten, Armed
  <2>8. QED
    BY <1>e, <2>2, <2>3, <2>7 DEF Settled
<1>13. CASE \/ OffersFinishes
            \/ \E late \in BOOLEAN : SecondReports(late) \/ OffersReport(late) \/ OffersFails(late)
  <2> DEFINE found == object["second"]
  <2>1. PICK content : /\ SaveJob("second", content) \/ \E late : SaveProgress("second", content, late)
                       /\ content.status = found.status
                       /\ UNCHANGED <<row, search, suppressed>>
    <3>a. \A stage : [found EXCEPT !.stage = stage].status = found.status
      BY <1>a DEF Record
    <3>1. CASE OffersFinishes
      BY <3>1 DEF OffersFinishes, store
    <3>2. CASE \E late \in BOOLEAN : SecondReports(late) \/ OffersReport(late) \/ OffersFails(late)
      <4>1. UNCHANGED <<row, search, suppressed>>
        BY <3>2 DEF SecondReports, OffersReport, OffersFails, store
      <4>2. \E late, stage : SaveProgress("second", [found EXCEPT !.stage = stage], late)
        BY <3>2 DEF SecondReports, OffersReport, OffersFails
      <4>3. QED
        BY <3>a, <4>1, <4>2
    <3>3. QED
      BY <1>13, <3>1, <3>2
  <2>2. /\ object'["second"] = content /\ object'["search"] = object["search"]
        /\ object'["fresh"] = object["fresh"] /\ (Pending("search")' => Pending("search"))
    BY <1>a, <2>1, JobWrites
  <2>3. second.at \notin Snapshot /\ second'.at \notin Snapshot /\ second'.at \notin Saving
    BY <1>13, <1>c DEF OffersFinishes, SecondReports, OffersReport, OffersFails, Snapshot, Saving
  <2>4. QED
    BY <1>e, <2>1, <2>2, <2>3 DEF Settled, Shown, LeftRunningObject
<1>14. CASE BatchRereads
  <2>1. /\ second.at = "closing" /\ second'.at \in {"fresh", "over"}
        /\ object' = [object EXCEPT !["fresh"] = row]
        /\ UNCHANGED <<row, chain, throttle, search, suppressed>>
    BY <1>14, <1>c DEF BatchRereads, store
  <2>2. object'["fresh"] = row /\ object'["search"] = object["search"] /\ object'["second"] = object["second"]
    BY <1>a, <2>1
  <2>3. QED
    BY <1>e, <2>1, <2>2 DEF Settled, Shown, LeftRunningObject, Pending, OnChain, Armed, Snapshot,
       Saving
<1>15. CASE Job("review") /\ BatchFinishes
  <2> DEFINE found == object["fresh"]
  <2>1. PICK content : /\ SaveJob("fresh", content) /\ content.status = found.status
                       /\ second.at \in {"stopping", "ending"} /\ second'.at = "final"
                       /\ UNCHANGED <<row, search>>
                       /\ suppressed => suppressed'
    <3>1. \A stop : [found EXCEPT !.stage = "ended", !.stop = stop].status = found.status
      BY <1>a DEF Record
    <3>2. QED
      BY <1>15, <1>c, <3>1 DEF BatchFinishes, store
  <2>2. /\ object'["fresh"] = content /\ object'["search"] = object["search"]
        /\ object'["second"] = object["second"] /\ (Pending("search")' => Pending("search"))
    BY <1>a, <2>1, JobWrites
  <2>3. QED
    BY <1>e, <2>1, <2>2 DEF Settled, Shown, LeftRunningObject, Snapshot, Saving
<1>16. QED
  BY StepCases, <1>1, <1>2, <1>3, <1>4, <1>5, <1>6, <1>7, <1>8, <1>9, <1>10, <1>11, <1>11a, <1>12,
     <1>13, <1>14, <1>15

-----------------------------------------------------------------------------
JobsInv == Alive /\ Staged /\ Settled

LEMMA InitPlaces == Init => JobsInv
<1> SUFFICES ASSUME Init PROVE JobsInv
  OBVIOUS
<1>1. /\ chain = <<>> /\ throttle = NoEntry /\ second.at = "idle" /\ search = "start"
      /\ object = [ref \in Refs |-> NoRow] /\ row = [NoRow EXCEPT !.status = "running", !.stage = "search"]
  BY DEF Init, NoObjects
<1>2. /\ DOMAIN chain = {} /\ ~throttle.armed /\ object["search"].stage = "ended"
      /\ row.stage = "search" /\ row.status = "running"
  BY <1>1 DEF NoEntry, NoRow, Refs
<1>3. \A ref : ~Pending(ref)
  BY <1>2 DEF Pending, OnChain, Armed
<1>4. QED
  BY <1>1, <1>2, <1>3 DEF JobsInv, Alive, Exists, Staged, EndsItself, JobStages, Settled, Saving,
     LeftRunningObject

LEMMA PlacesAlways == Spec => [](Types /\ Ordered /\ Kept /\ JobsInv)
<1>1. Types /\ Ordered /\ JobsInv /\ [Next]_vars => JobsInv'
  BY StepAlive, StepStaged, StepSettled DEF JobsInv
<1>2. Init => Kept
  BY DEF Init, Kept, Guarded, CompetitorsBelong, NoRow
<1>3. QED
  BY <1>1, <1>2, InitTypes, InitOrdered, InitPlaces, StepTypes, StepOrdered, StepKept, PTL
     DEF Spec

(* Who is suppressed with a later job's stage in its row was cut off, or a *)
(* Stop or Delete is about to end it; only a review marks the run, and     *)
(* takes the mark away when it is over.                                    *)
Marked ==
  /\ tomb # 0 => deleted
  /\ second.at = "stopping" => suppressed \/ row.stop \/ deleted
  /\ suppressed /\ row.stage \in JobStages => asked # {} \/ cutOff \/ deleted
  /\ reviewing => Job("review") /\ second.at \notin {"idle", "over"}
  /\ second.at \in {"clearing2", "cleared2"} => Job("review")

LEMMA StepMarked == Types /\ Stopped /\ Alive /\ Marked /\ [Next]_vars => Marked'
<1> SUFFICES ASSUME Types, Stopped, Alive, Marked, [Next]_vars PROVE Marked'
  OBVIOUS
<1>a. row \in Record /\ suppressed \in BOOLEAN /\ reviewing \in BOOLEAN /\ cutOff \in BOOLEAN
      /\ tomb \in Nat /\ second \in [job : Jobs2, at : SecondPlaces]
  BY Bounds DEF Types, StoreOK, PlacesOK
<1>b. row.stop => row.stage \notin JobStages
  BY DEF Stopped, StoppedOK, JobStages
<1>c. \A from, to : Goes(from, to) =>
        second.at = from /\ second'.at = to /\ second'.job = second.job
  BY <1>a DEF Goes
<1>d. cutOff /\ row'.stage \in JobStages => cutOff'
  BY Counting DEF Counted
<1> USE DEF Marked
<1>1. CASE TimerFires
  BY <1>1 DEF TimerFires, store, history, Job
<1>2. CASE WriteLands
  <2>1. /\ UNCHANGED <<tomb, deleted, asked>>
        /\ suppressed' = (suppressed \/ (~(Head(chain).kind = "patch" /\ ~Exists) /\ Refused(Head(chain))))
    BY <1>2 DEF WriteLands, Resumes
  <2>2. \/ row' = row /\ (suppressed => suppressed')
        \/ ~suppressed /\ ~suppressed' /\ ~row.stop
    BY <1>2, LandsEffect
  <2>3. second' = second \/ (second'.job = second.job /\ second'.at \in {"scheduled", "working", "over"})
    BY <1>2, LandsEffect
  <2>4. second'.at = "stopping" => suppressed' \/ row'.stop \/ deleted'
    BY <2>1, <2>2, <2>3 DEF Refused
  <2>5. suppressed' /\ row'.stage \in JobStages => asked' # {} \/ cutOff' \/ deleted'
    BY <1>b, <1>d, <2>1, <2>2 DEF Refused
  <2>6. reviewing' => reviewing /\ second'.at # "over"
    BY <1>2, Zenon DEF WriteLands, Resumes, MarkAfter
  <2>7. second'.at \notin {"clearing2", "cleared2"} \/ second' = second
    BY <2>3
  <2>8. QED
    BY <2>1, <2>3, <2>4, <2>5, <2>6, <2>7 DEF Job
<1>3. CASE WriteFails
  <2>1. UNCHANGED <<row, tomb, suppressed, deleted, asked>>
    BY <1>3 DEF WriteFails, CutsOff, store
  <2>a. reviewing' => reviewing /\ second'.at # "over"
    BY <1>3, Zenon DEF WriteFails, Resumes, MarkAfter
  <2>2. second' = second \/ (second'.job = second.job /\ second'.at = "over")
    BY <1>3, FailsEffect
  <2>3. QED
    BY <1>d, <2>1, <2>a, <2>2 DEF Job
<1>4. CASE SearchIsTold \/ SecondIsTold
  <2>1. /\ UNCHANGED <<row, tomb, reviewing, asked, deleted>> /\ suppressed'
        /\ (row.stage \in JobStages /\ ~suppressed => cutOff')
    BY <1>4, <1>a DEF SearchIsTold, SecondIsTold, CutsOff, store
  <2>2. second' = second \/ Goes("told", AfterWork)
    BY <1>4 DEF SearchIsTold, SecondIsTold
  <2>3. second' = second \/ (second'.at \in {"closing", "over"} /\ second'.job = second.job
                            /\ (second.job = "review" => second'.at = "closing"))
    BY <2>2, <1>c DEF AfterWork, Job
  <2>4. QED
    BY <1>d, <2>1, <2>3 DEF Job
<1>5. CASE \E c \in Found : SearchAccepts(c)
  <2>1. PICK c \in Found : SearchAccepts(c)
    BY <1>5
  <2>2. /\ suppressed' = (suppressed \/ tomb # 0) /\ UNCHANGED <<tomb, reviewing, second, asked, deleted, cutOff>>
        /\ row' = row \/ row' = [row EXCEPT !.roster = @ \cup {c}]
    BY <2>1 DEF SearchAccepts, SaveCompetitor, history
  <2>3. row'.stage = row.stage /\ row'.stop = row.stop
    BY <1>a, <2>2 DEF Record
  <2>4. QED
    BY <2>2, <2>3 DEF Job
<1>6. CASE \/ SearchStarts \/ SearchChecks \/ SearchFinishes \/ SearchFails \/ SearchRescued
           \/ \E late \in BOOLEAN : SearchReports(late) \/ SearchSaves(late)
  <2>1. UNCHANGED <<row, tomb, suppressed, reviewing, second, asked, deleted, cutOff>>
    BY <1>6 DEF SearchStarts, SearchChecks, SearchFinishes, SearchFails, SearchRescued,
       SearchReports, SearchSaves, store, process, history
  <2>2. QED
    BY <2>1 DEF Job
<1>7. CASE RouteLifts
  <2>1. /\ UNCHANGED <<row, tomb, asked, deleted, cutOff>> /\ (suppressed' => suppressed)
        /\ (reviewing' => Job("review")) /\ second'.at \in {"clearing", "cleared"} /\ second'.job = second.job
    BY <1>7, <1>c DEF RouteLifts, LiftSuppression, Forgets, store
  <2>2. QED
    BY <2>1 DEF Job
<1>8. CASE BatchLifts
  <2>1. /\ UNCHANGED <<row, tomb, asked, deleted, cutOff, reviewing>> /\ ~suppressed'
        /\ second'.at = "clearing2" /\ second'.job = second.job /\ Job("review")
        /\ second.at = "scheduled"
    BY <1>8, <1>c DEF BatchLifts, LiftSuppression, Forgets, store
  <2>2. QED
    BY <2>1 DEF Job
<1>9. CASE RouteClears \/ BatchClears
  <2>1. /\ UNCHANGED <<tomb, suppressed, asked, deleted, cutOff, reviewing>>
        /\ row'.stage = row.stage
        /\ second'.at \in {"cleared", "cleared2"} /\ second'.job = second.job
        /\ (second'.at = "cleared2" => second.at = "clearing2")
    BY <1>9, <1>a, <1>c DEF RouteClears, BatchClears, ClearStop, process, history, Record
  <2>2. QED
    BY <2>1 DEF Job
<1>10. CASE \/ RouteReads \/ RouteSaves \/ BatchSaves \/ SecondChecks \/ OffersFinishes
            \/ \E late \in BOOLEAN : SecondReports(late) \/ OffersReport(late) \/ OffersFails(late)
  <2>1. UNCHANGED <<row, tomb, suppressed, reviewing, asked, deleted, cutOff>>
    BY <1>10 DEF RouteReads, RouteSaves, BatchSaves, SecondChecks, OffersFinishes, SecondReports,
       OffersReport, OffersFails, store, process, history
  <2>2. second'.job = second.job /\ second'.at \notin {"stopping", "clearing2", "cleared2"}
        /\ (second.job = "review" => second'.at \notin {"idle", "over"})
    BY <1>10, <1>c DEF RouteReads, RouteSaves, BatchSaves, SecondChecks, OffersFinishes, SecondReports,
       OffersReport, OffersFails, AfterWork, Job
  <2>3. QED
    BY <2>1, <2>2 DEF Job
<1>11. CASE ReviewRefused
  BY <1>11, <1>c DEF ReviewRefused, store, history
<1>12. CASE OffersRefused \/ OffersReads
  <2>1. /\ UNCHANGED <<row, tomb, reviewing, asked, deleted, cutOff>> /\ Job("offers")
        /\ second'.job = second.job /\ second'.at \notin {"stopping", "clearing2", "cleared2"}
        /\ suppressed' => suppressed \/ row.stop \/ tomb # 0
    BY <1>12, <1>a, <1>c DEF OffersRefused, OffersReads, StoredSuppression, store, process, history
  <2>2. QED
    BY <1>b, <2>1 DEF Job
<1>13. CASE BatchReads \/ BatchRereads
  <2>1. /\ UNCHANGED <<row, tomb, suppressed, asked, deleted, cutOff>>
        /\ reviewing' = Exists /\ second'.job = second.job
        /\ second'.at \in {"read2", "fresh", "over"} /\ (Exists => second'.at # "over")
    BY <1>13, <1>c DEF BatchReads, BatchRereads, store, history
  <2>2. Job("review")
    BY <1>13, <1>c DEF BatchReads, BatchRereads
  <2>3. QED
    BY <2>1, <2>2 DEF Job
<1>14. CASE BatchAsks
  <2>1. /\ UNCHANGED <<row, tomb, suppressed, reviewing, asked, deleted, cutOff>>
        /\ second'.job = second.job
        /\ \/ second'.at = "stopping" /\ (suppressed \/ row.stop \/ tomb # 0)
           \/ second'.at = "ending"
    BY <1>14, <1>c DEF BatchAsks, StoredSuppression, store, process, history
  <2>2. QED
    BY <2>1 DEF Job
<1>15. CASE BatchFinishes
  <2>1. /\ UNCHANGED <<row, tomb, reviewing, asked, deleted, cutOff>>
        /\ second'.job = second.job /\ second'.at = "final"
        /\ suppressed' = (suppressed \/ second.at = "stopping")
    BY <1>15, <1>c DEF BatchFinishes, store, history
  <2>2. QED
    BY <1>b, <2>1 DEF Job
<1>16. CASE PressStop \/ PressDelete
  BY <1>16 DEF PressStop, PressDelete, store, history, Job
<1>17. CASE StopCommits
  <2>1. UNCHANGED <<tomb, suppressed, second, deleted, reviewing>>
    BY <1>17 DEF StopCommits, process
  <2>2. IF Exists THEN row'.stop /\ row'.stage = "ended" ELSE row' = row
    BY <1>17, <1>a DEF StopCommits, Record
  <2>3. QED
    BY <1>d, <2>1, <2>2 DEF JobStages, Job, Alive
<1>18. CASE DeleteCommits \/ ClearAllHistory
  <2>1. deleted' /\ UNCHANGED <<second, reviewing>>
    BY <1>18 DEF DeleteCommits, ClearAllHistory, RemoveRun, process
  <2>2. QED
    BY <2>1 DEF Job
<1>19. CASE RequestFails
  <2>1. UNCHANGED <<row, tomb, suppressed, second, deleted, reviewing>> /\ (row.stage \in JobStages => cutOff')
    BY <1>19 DEF RequestFails, CutsOff, store, process
  <2>2. QED
    BY <2>1 DEF Job
<1>20. CASE DeleteOtherRun
  BY <1>20 DEF DeleteOtherRun, Forgets, process, Job
<1>21. CASE PollEndsReview
  BY <1>21 DEF PollEndsReview, store, history, Job
<1>22. CASE Restart
  BY <1>22, <1>a DEF Restart, Forgets
<1>23. CASE UNCHANGED vars
  BY <1>23 DEF vars, store, process, history, Job
<1>24. QED
  BY <1>1, <1>2, <1>3, <1>4, <1>5, <1>6, <1>7, <1>8, <1>9, <1>10, <1>11, <1>12, <1>13, <1>14,
     <1>15, <1>16, <1>17, <1>18, <1>19, <1>20, <1>21, <1>22, <1>23
     DEF Next, Search, Second, Requests, Commits

LEMMA MarkedAlways == Spec => []Marked
<1>1. Init => Marked
  BY DEF Init, Marked
<1>2. Types /\ Stopped /\ JobsInv /\ Marked /\ [Next]_vars => Marked'
  BY StepMarked DEF JobsInv
<1>3. QED
  BY <1>1, <1>2, StoppedAlways, PlacesAlways, PTL DEF Spec

(* At rest the stage of a later job is not left behind in the row (the     *)
(* finally of the batch, failOffers, updateJob), unless it was cut off     *)
(* while it was there, and then nothing keeps the poll from ending it.     *)
THEOREM StagesHaveWorkers == Spec => []StageHasWorker
<1>1. Types /\ Kept /\ JobsInv /\ Marked => StageHasWorker
  <2> SUFFICES ASSUME Types, Kept, JobsInv, Marked, Quiet, row.stage \in JobStages
               PROVE  cutOff /\ ~reviewing
    BY DEF StageHasWorker
  <2>1. ~deleted
    BY DEF Kept, Guarded, Quiet, NoRow, JobStages
  <2>2. ~reviewing
    BY DEF Marked, Quiet
  <2>3. suppressed => cutOff
    BY <2>1 DEF Marked, Quiet
  <2>4. ~suppressed => cutOff
    BY <2>1 DEF JobsInv, Staged, EndsItself, Undisturbed, Quiet, Before
  <2>5. QED
    BY <2>2, <2>3, <2>4 DEF Types, StoreOK
<1>2. QED
  BY <1>1, PlacesAlways, MarkedAlways, PTL

(* Once everything has come to rest no run is shown as running, unless it  *)
(* is suppressed, a write or a request failed, or an older snapshot of the *)
(* later job says so (interrupts, the saves of the search, saveJob).       *)
THEOREM RunsHaveWorkers == Spec => []RunningHasWorker
<1>1. Types /\ Kept /\ JobsInv => RunningHasWorker
  <2> SUFFICES ASSUME Types, Kept, JobsInv, Quiet, row.status = "running",
                      ~suppressed, ~(faults > 0)
               PROVE  "running" \in {object["second"].status, object["fresh"].status}
    BY DEF RunningHasWorker, Types, StoreOK
  <2>1. faults = 0
    BY Bounds DEF Types, PlacesOK
  <2>2. ~deleted
    BY DEF Kept, Guarded, Quiet, NoRow
  <2>3. QED
    BY <2>1, <2>2 DEF JobsInv, Settled, Sound, Shown, Quiet, Snapshot
<1>2. QED
  BY <1>1, PlacesAlways, PTL
====
