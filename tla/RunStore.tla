------------------------------ MODULE RunStore ------------------------------
(***************************************************************************)
(* One search run in the runs repository (runs.ts): its row, the           *)
(* competitors it owns, its tombstone, and what this process keeps of it,  *)
(* the suppressed id, the chain of writes and the progress throttle.  It   *)
(* is written by the search (finder.ts), by one later job on the run, a    *)
(* brand review batch or an offers report, and by the user's Stop and      *)
(* Delete.  Each await ends a step; a write on the chain is one            *)
(* transaction under the run's lock.                                       *)
(*                                                                         *)
(* Data abstraction.  A job object is kept once per pipeline and written   *)
(* by reference: a write takes what the object holds when its transaction  *)
(* runs.  "finished" stands for completed and partial.  The user's other   *)
(* runs appear only as deletions that push the tombstone out of the list.  *)
(***************************************************************************)
EXTENDS Naturals, Sequences, FiniteSets

CONSTANTS Found,          \* the competitors the search may accept
          Jobs2,          \* the later jobs: a subset of {"review", "offers"}
          MaxTombstones,  \* MAX_DELETED_RUN_IDS
          Pages,          \* bound: result pages the search scans
          MaxStops, MaxRestarts, MaxFaults, MaxQueue

ASSUME StoreAssumption ==
  /\ Jobs2 # {} /\ Jobs2 \subseteq {"review", "offers"}
  /\ MaxTombstones \in Nat \ {0} /\ MaxQueue \in Nat \ {0}
  /\ {Pages, MaxStops, MaxRestarts, MaxFaults} \subseteq Nat

VARIABLES
  row,         \* the row of jobs
  stored,      \* the run's rows of competitors
  tomb,        \* its place in deleted_run_ids, newest first; 0: none
  suppressed,  \* is the run in suppressedSearchJobIds?
  chain,       \* the writes of writeChains, the next first
  throttle,    \* the run's entry of pendingSearchProgress
  object,      \* the job objects the pipelines work on
  search,      \* how far the search is
  pages,       \* pages left to scan
  second,      \* which later job the user may start, and how far it is
  reviewing,   \* is the run in brandReviewsInProcess?
  asked,       \* a Stop or Delete whose transaction is under way
  deleted,     \* history: a delete has committed
  forgotten,   \* history: a deleted run had neither tombstone nor suppression
  cutOff,      \* history: was the later job's stage now in the row cut off?
  stops, restarts, faults

store == <<row, stored, tomb>>
process == <<suppressed, chain, throttle, reviewing>>
history == <<deleted, forgotten, cutOff>>
budget == <<stops, restarts, faults>>
vars == <<store, process, object, search, pages, second, asked, history, budget>>

Statuses == {"running", "finished", "failed"}
Stages == {"search", "review", "offers", "ended"}
JobStages == {"review", "offers"}
Record == [status : Statuses \cup {"none"}, stage : Stages, stop : BOOLEAN,
           roster : SUBSET Found]
NoRow == [status |-> "none", stage |-> "ended", stop |-> FALSE, roster |-> {}]

Refs == {"search", "second", "fresh"}
Writes == [kind : {"save", "progress"}, ref : Refs] \cup [kind : {"patch"}, ref : {"done", "failed"}]
NoObjects == [ref \in Refs |-> NoRow]
NoEntry == [present |-> FALSE, armed |-> FALSE, ref |-> "search", stage |-> "ended"]

Exists == row.status # "none"

TypeOK ==
  /\ row \in Record /\ stored \subseteq Found /\ tomb \in 0..MaxTombstones
  /\ suppressed \in BOOLEAN /\ reviewing \in BOOLEAN
  /\ chain \in Seq(Writes) /\ Len(chain) <= MaxQueue
  /\ throttle \in [present : BOOLEAN, armed : BOOLEAN, ref : Refs, stage : Stages]
  /\ object \in [Refs -> Record]
  /\ search \in {"start", "created", "loop", "told", "scanning", "accepted", "saving", "closing",
                 "toldLast", "finishing", "final", "failing", "failed", "rescue", "over"}
  /\ pages \in 0..Pages
  /\ second \in [job : Jobs2,
                 at : {"idle", "read", "clearing", "cleared", "saving", "scheduled", "clearing2",
                       "cleared2", "read2", "saving2", "working", "worked", "told", "closing",
                       "fresh", "stopping", "ending", "final", "over"}]
  /\ asked \subseteq {"stop", "delete"}
  /\ deleted \in BOOLEAN /\ forgotten \in BOOLEAN /\ cutOff \in BOOLEAN
  /\ stops \in 0..MaxStops /\ restarts \in 0..MaxRestarts /\ faults \in 0..MaxFaults

(* The row the POST saved; the pipeline was just dispatched.               *)
Init ==
  /\ row = [NoRow EXCEPT !.status = "running", !.stage = "search"]
  /\ stored = {} /\ tomb = 0
  /\ suppressed = FALSE /\ chain = <<>> /\ throttle = NoEntry /\ reviewing = FALSE
  /\ object = NoObjects
  /\ search = "start" /\ pages = Pages
  /\ second \in [job : Jobs2, at : {"idle"}]
  /\ asked = {} /\ deleted = FALSE /\ forgotten = FALSE /\ cutOff = FALSE
  /\ stops = 0 /\ restarts = 0 /\ faults = 0

-----------------------------------------------------------------------------
(* The chain of writes and the progress throttle.                          *)

Queue(writes) == chain \o writes

Progress(ref) == [kind |-> "progress", ref |-> ref]
Save(ref) == [kind |-> "save", ref |-> ref]
Patch(to) == [kind |-> "patch", ref |-> to]

Room(n) == Len(chain) + n <= MaxQueue

(* Fault: the pending progress write is left armed.                        *)
SettledEntryArmed(status, stage) ==
  IF ~throttle.present THEN NoEntry ELSE [throttle EXCEPT !.stage = stage]

(* settleProgress: a save drops the pending progress write; the save of a  *)
(* run that ended drops the entry.                                         *)
SettledEntry(status, stage) ==
  IF status # "running" \/ ~throttle.present THEN NoEntry
  ELSE [throttle EXCEPT !.armed = FALSE, !.stage = stage]

(* throttleProgress for an object at this stage: written at once when the  *)
(* stage changed or the last write is long ago, otherwise by a timer.      *)
Urgent(stage, late) == ~throttle.present \/ throttle.stage # stage \/ late

EntryAfter(ref, stage, late) ==
  [present |-> TRUE, ref |-> ref, armed |-> ~Urgent(stage, late),
   stage |-> IF Urgent(stage, late) THEN stage ELSE throttle.stage]

Reported(ref, stage, late) == IF Urgent(stage, late) THEN <<Progress(ref)>> ELSE <<>>

(* saveJob: the throttle is settled now, the write waits for its turn.     *)
SaveJob(ref, content) ==
  /\ Room(1)
  /\ object' = [object EXCEPT ![ref] = content]
  /\ throttle' = SettledEntry(content.status, content.stage)
  /\ chain' = Queue(<<Save(ref)>>)

(* saveJobProgress.                                                        *)
SaveProgress(ref, content, late) ==
  /\ Room(1)
  /\ object' = [object EXCEPT ![ref] = content]
  /\ throttle' = EntryAfter(ref, content.stage, late)
  /\ chain' = Queue(Reported(ref, content.stage, late))

(* updateJob(id, patch), with or without a new status.                     *)
UpdateJob(to) ==
  /\ Room(1)
  /\ throttle' = SettledEntry(IF to = "failed" THEN "failed" ELSE "running", "ended")
  /\ chain' = Queue(<<Patch(to)>>)
  /\ UNCHANGED object

TimerFires ==
  /\ throttle.armed /\ Room(1)
  /\ throttle' = [throttle EXCEPT !.armed = FALSE]
  /\ chain' = Queue(<<Progress(throttle.ref)>>)
  /\ UNCHANGED <<store, suppressed, reviewing, object, search, pages, second, asked, history, budget>>

-----------------------------------------------------------------------------
(* A write's transaction.                                                  *)

(* Fault: the write does not look at the stop flag.                        *)
RefusedUnlessStopped(write) == suppressed \/ tomb # 0

(* Fault: the write does not look at the tombstone.                        *)
RefusedUnlessDeleted(write) == suppressed \/ row.stop

(* writeSearchJob, and updateJob on a row that is there.                   *)
Refused(write) == suppressed \/ tomb # 0 \/ row.stop

(* What the write leaves in the row.                                       *)
WrittenBy(write) ==
  IF write.kind = "patch"
  THEN [row EXCEPT !.stage = "ended", !.status = IF write.ref = "failed" THEN "failed" ELSE @]
  ELSE [object[write.ref] EXCEPT !.roster = @ \cup row.roster]

(* What happened while a later job's stage is in the row may keep that     *)
(* job, or a Stop, from taking it out again.                               *)
CutsOff(happened) == cutOff' = (row'.stage \in JobStages /\ (cutOff \/ happened))

(* What the pipeline that awaits a save does next.                         *)
SearchAfter(ok) ==
  CASE search = "created" -> IF ok THEN "loop" ELSE "rescue"
    [] search = "saving"  -> IF ok THEN "loop" ELSE "failing"
    [] search = "final"   -> IF ok THEN "over" ELSE "failing"
    [] search = "failed"  -> IF ok THEN "over" ELSE "rescue"
    [] OTHER -> search

SecondAfter(ok, accepted) ==
  CASE second.at = "saving"  -> IF ok THEN "scheduled" ELSE "over"
    [] second.at = "saving2" -> IF ok /\ accepted THEN "working" ELSE "over"
    [] OTHER -> "over"

(* Fault: a batch that ends does not take its mark away.                   *)
MarkKept(at) == reviewing

(* The finally of runBrandReviewForJob, and the catch of its route.        *)
MarkAfter(at) == reviewing /\ at # "over"

(* The head of the chain ends: ok is false when its transaction throws.    *)
Resumes(write, ok, accepted) ==
  /\ search' = IF write = Save("search") THEN SearchAfter(ok) ELSE search
  /\ second' = IF write \in {Save("second"), Save("fresh")}
               THEN [second EXCEPT !.at = SecondAfter(ok, accepted)] ELSE second
  /\ reviewing' = MarkAfter(second'.at)

WriteLands ==
  /\ chain # <<>>
  /\ LET write == Head(chain)
         noRow == write.kind = "patch" /\ ~Exists
     IN /\ row' = IF noRow \/ Refused(write) THEN row ELSE WrittenBy(write)
        /\ suppressed' = (suppressed \/ (~noRow /\ Refused(write)))
        /\ Resumes(write, TRUE, ~Refused(write))
  /\ chain' = Tail(chain)
  /\ UNCHANGED <<stored, tomb, throttle, object, pages, asked, deleted, forgotten, budget>>
  /\ CutsOff(FALSE)

(* A failed progress write is only logged; a failed save throws.           *)
WriteFails ==
  /\ chain # <<>> /\ faults < MaxFaults
  /\ faults' = faults + 1
  /\ Resumes(Head(chain), FALSE, FALSE)
  /\ chain' = Tail(chain)
  /\ UNCHANGED <<store, suppressed, throttle, object, pages, asked, deleted, forgotten, stops, restarts>>
  /\ CutsOff(TRUE)

-----------------------------------------------------------------------------
(* isSearchJobSuppressed: this process's set, then the database; what the  *)
(* database said is put into the set when the answer comes back.           *)

StoredSuppression == tomb # 0 \/ row.stop

(* clearSearchJobSuppression lifts the suppression before its transaction. *)
LiftSuppression == suppressed' = FALSE

Forgets ==
  /\ forgotten' = (forgotten \/ (deleted /\ tomb' = 0 /\ ~suppressed'))
  /\ UNCHANGED deleted

ClearStop == row' = [row EXCEPT !.stop = FALSE]

-----------------------------------------------------------------------------
(* The search (runCompetitorSearch).                                       *)

SearchStarts ==
  /\ search = "start"
  /\ SaveJob("search", [NoRow EXCEPT !.status = "running", !.stage = "search"])
  /\ search' = "created"
  /\ UNCHANGED <<store, suppressed, reviewing, pages, second, asked, history, budget>>

SearchChecks ==
  /\ search \in {"loop", "closing"}
  /\ search' =
       IF suppressed THEN (IF search = "loop" THEN "closing" ELSE "over")
       ELSE IF StoredSuppression THEN (IF search = "loop" THEN "told" ELSE "toldLast")
       ELSE IF search = "closing" THEN "finishing"
       ELSE IF pages = 0 THEN "closing" ELSE "scanning"
  /\ UNCHANGED <<store, process, object, pages, second, asked, history, budget>>

SearchIsTold ==
  /\ search \in {"told", "toldLast"}
  /\ suppressed' = TRUE
  /\ search' = IF search = "told" THEN "closing" ELSE "over"
  /\ UNCHANGED <<store, chain, throttle, reviewing, object, pages, second, asked, deleted, forgotten, budget>>
  /\ CutsOff(~suppressed)

(* A page is scanned without a find, with its progress reported.           *)
SearchReports(late) ==
  /\ search = "scanning"
  /\ SaveProgress("search", object["search"], late)
  /\ pages' = pages - 1
  /\ search' = "loop"
  /\ UNCHANGED <<store, suppressed, reviewing, second, asked, history, budget>>

(* saveCompetitor: a transaction of its own under the run's lock.          *)
SaveCompetitor(c) ==
  LET refused == suppressed \/ tomb # 0 IN
  /\ suppressed' = refused
  /\ stored' = IF refused \/ ~Exists THEN stored ELSE stored \cup {c}
  /\ row' = IF refused \/ ~Exists THEN row ELSE [row EXCEPT !.roster = @ \cup {c}]
  /\ UNCHANGED tomb

SearchAccepts(c) ==
  /\ search = "scanning"
  /\ c \notin object["search"].roster
  /\ SaveCompetitor(c)
  /\ object' = [object EXCEPT !["search"].roster = @ \cup {c}]
  /\ search' = "accepted"
  /\ UNCHANGED <<chain, throttle, reviewing, pages, second, asked, history, budget>>

(* The progress of an accepted competitor, then the save that settles it.  *)
SearchSaves(late) ==
  /\ search = "accepted"
  /\ Room(2)
  /\ throttle' = [EntryAfter("search", object["search"].stage, late) EXCEPT !.armed = FALSE]
  /\ chain' = Queue(Reported("search", object["search"].stage, late) \o <<Save("search")>>)
  /\ pages' = pages - 1
  /\ search' = "saving"
  /\ UNCHANGED <<store, suppressed, reviewing, object, second, asked, history, budget>>

Outcome(roster) == IF roster = {} THEN "failed" ELSE "finished"

SearchFinishes ==
  /\ search = "finishing"
  /\ SaveJob("search", [object["search"] EXCEPT !.status = Outcome(object["search"].roster),
                                               !.stage = "ended"])
  /\ search' = "final"
  /\ UNCHANGED <<store, suppressed, reviewing, pages, second, asked, history, budget>>

(* The catch of the search, or of the route when the search threw before    *)
(* its try or in its catch.                                                *)
SearchFails ==
  /\ search \in {"scanning", "failing"}
  /\ SaveJob("search", [object["search"] EXCEPT !.status = "failed", !.stage = "ended"])
  /\ search' = "failed"
  /\ UNCHANGED <<store, suppressed, reviewing, pages, second, asked, history, budget>>

SearchRescued ==
  /\ search = "rescue"
  /\ UpdateJob("failed")
  /\ search' = "over"
  /\ UNCHANGED <<store, suppressed, reviewing, pages, second, asked, history, budget>>

-----------------------------------------------------------------------------
(* The later job: a brand review batch (route.ts, brandReview.ts) or an    *)
(* offers report (route.ts, searchOffersReport.ts), once per behaviour.    *)

Goes(from, to) == second.at = from /\ second' = [second EXCEPT !.at = to]

Job(j) == second.job = j

(* The route reads the run; its checks of money and of competitors follow. *)
RouteReads ==
  /\ Goes("idle", "read")
  /\ Exists
  /\ Job("offers") => stored # {} /\ row.stage # "offers"
  /\ object' = [object EXCEPT !["second"] = row]
  /\ UNCHANGED <<store, process, search, pages, asked, history, budget>>

RouteLifts ==
  /\ second.at = "read"
  /\ IF Job("review") \/ object["second"].status # "running"
     THEN LiftSuppression /\ Goes("read", "clearing")
     ELSE Goes("read", "cleared") /\ UNCHANGED suppressed
  /\ reviewing' = Job("review")
  /\ UNCHANGED <<store, chain, throttle, object, search, pages, asked, cutOff, budget>>
  /\ Forgets

RouteClears ==
  /\ Goes("clearing", "cleared")
  /\ ClearStop
  /\ UNCHANGED <<stored, tomb, process, object, search, pages, asked, history, budget>>

RouteSaves ==
  /\ Goes("cleared", "saving")
  /\ SaveJob("second", [object["second"] EXCEPT
       !.stage = second.job,
       !.stop = IF Job("offers") /\ object["second"].status = "running" THEN @ ELSE FALSE])
  /\ UNCHANGED <<store, suppressed, reviewing, search, pages, asked, history, budget>>

(* runBillable refuses the batch: what the route's catch writes.           *)
ReviewRefused ==
  /\ Job("review")
  /\ Goes("scheduled", "over")
  /\ UpdateJob("done")
  /\ reviewing' = FALSE
  /\ UNCHANGED <<store, suppressed, search, pages, asked, history, budget>>

(* It refuses the report: markOffersFailed reads the run, then saves it.   *)
OffersRefused ==
  /\ Job("offers")
  /\ Goes("scheduled", IF Exists THEN "fresh" ELSE "over")
  /\ object' = [object EXCEPT !["second"] = [row EXCEPT !.stage = "ended"]]
  /\ UNCHANGED <<store, process, search, pages, asked, history, budget>>

(* runBrandReviewBatch starts by clearing any prior Stop.                  *)
BatchLifts ==
  /\ Job("review")
  /\ Goes("scheduled", "clearing2")
  /\ LiftSuppression
  /\ UNCHANGED <<store, chain, throttle, reviewing, object, search, pages, asked, cutOff, budget>>
  /\ Forgets

BatchClears ==
  /\ Goes("clearing2", "cleared2")
  /\ ClearStop
  /\ UNCHANGED <<stored, tomb, process, object, search, pages, asked, history, budget>>

BatchReads ==
  /\ Goes("cleared2", IF Exists THEN "read2" ELSE "over")
  /\ object' = [object EXCEPT !["second"] = row]
  /\ reviewing' = Exists
  /\ UNCHANGED <<store, suppressed, chain, throttle, search, pages, asked, history, budget>>

BatchSaves ==
  /\ Goes("read2", "saving2")
  /\ SaveJob("second", [object["second"] EXCEPT !.stage = "review", !.stop = FALSE])
  /\ UNCHANGED <<store, suppressed, reviewing, search, pages, asked, history, budget>>

(* runSearchOffersReportPhase.                                             *)
OffersReads ==
  /\ Job("offers")
  /\ Goes("scheduled", IF Exists /\ ~suppressed /\ ~StoredSuppression THEN "working" ELSE "over")
  /\ suppressed' = (suppressed \/ (Exists /\ StoredSuppression))
  /\ object' = [object EXCEPT !["second"] = row]
  /\ UNCHANGED <<store, chain, throttle, reviewing, search, pages, asked, history, budget>>

(* One competitor is worked on and its progress reported.                  *)
SecondReports(late) ==
  /\ Goes("working", "worked")
  /\ SaveProgress("second", [object["second"] EXCEPT !.stage = second.job], late)
  /\ UNCHANGED <<store, suppressed, reviewing, search, pages, asked, history, budget>>

AfterWork == IF Job("review") THEN "closing" ELSE "over"

SecondChecks ==
  /\ Goes("worked", IF suppressed THEN AfterWork
                    ELSE IF StoredSuppression THEN "told" ELSE "closing")
  /\ UNCHANGED <<store, process, object, search, pages, asked, history, budget>>

SecondIsTold ==
  /\ Goes("told", AfterWork)
  /\ suppressed' = TRUE
  /\ UNCHANGED <<store, chain, throttle, reviewing, object, search, pages, asked, deleted, forgotten, budget>>
  /\ CutsOff(~suppressed)

BatchRereads ==
  /\ Job("review")
  /\ Goes("closing", IF Exists THEN "fresh" ELSE "over")
  /\ object' = [object EXCEPT !["fresh"] = row]
  /\ reviewing' = Exists
  /\ UNCHANGED <<store, suppressed, chain, throttle, search, pages, asked, history, budget>>

(* Whether the batch was stopped is asked, and the run saved when the      *)
(* answer is there.                                                        *)
BatchAsks ==
  /\ Job("review")
  /\ Goes("fresh", IF suppressed \/ StoredSuppression THEN "stopping" ELSE "ending")
  /\ UNCHANGED <<store, process, object, search, pages, asked, history, budget>>

BatchFinishes ==
  /\ Job("review") /\ second.at \in {"stopping", "ending"}
  /\ Goes(second.at, "final")
  /\ SaveJob("fresh", [object["fresh"] EXCEPT !.stage = "ended", !.stop = @ \/ second.at = "stopping"])
  /\ suppressed' = (suppressed \/ second.at = "stopping")
  /\ UNCHANGED <<store, reviewing, search, pages, asked, history, budget>>

(* The report's last progress is awaited; then the run is saved, as        *)
(* markOffersFailed saves the one it read.                                 *)
OffersReport(late) ==
  /\ Job("offers")
  /\ Goes("closing", "fresh")
  /\ SaveProgress("second", [object["second"] EXCEPT !.stage = "ended"], late)
  /\ UNCHANGED <<store, suppressed, reviewing, search, pages, asked, history, budget>>

OffersFinishes ==
  /\ Job("offers")
  /\ \A i \in DOMAIN chain : chain[i] # Progress("second")
  /\ Goes("fresh", "final")
  /\ SaveJob("second", object["second"])
  /\ UNCHANGED <<store, suppressed, reviewing, search, pages, asked, history, budget>>

(* failOffers: the failed report is left to the throttle.                  *)
OffersFails(late) ==
  /\ Job("offers")
  /\ second.at \in {"working", "worked"}
  /\ Goes(second.at, "over")
  /\ SaveProgress("second", [object["second"] EXCEPT !.stage = "ended"], late)
  /\ UNCHANGED <<store, suppressed, reviewing, search, pages, asked, history, budget>>

-----------------------------------------------------------------------------
(* The user: Stop and Delete suppress the run here, then in a transaction. *)

PressStop ==
  /\ stops < MaxStops /\ Exists /\ "stop" \notin asked
  /\ stops' = stops + 1
  /\ asked' = asked \cup {"stop"}
  /\ suppressed' = TRUE
  /\ UNCHANGED <<store, chain, throttle, reviewing, object, search, pages, second, history,
                 restarts, faults>>

(* stopSearchJob.                                                          *)
StopCommits ==
  /\ "stop" \in asked
  /\ asked' = asked \ {"stop"}
  /\ row' = IF ~Exists THEN row
            ELSE [row EXCEPT !.stop = TRUE, !.stage = "ended",
                             !.status = IF row.roster = {} THEN "failed"
                                        ELSE IF @ = "running" THEN "finished" ELSE @]
  /\ UNCHANGED <<stored, tomb, process, object, search, pages, second, deleted, forgotten, budget>>
  /\ CutsOff(FALSE)

PressDelete ==
  /\ Exists /\ "delete" \notin asked
  /\ asked' = asked \cup {"delete"}
  /\ suppressed' = TRUE
  /\ UNCHANGED <<store, chain, throttle, reviewing, object, search, pages, second, history, budget>>

(* deleteHistoryRun; clearAllHistory does the same to every run at once.   *)
RemoveRun ==
  /\ row' = NoRow /\ stored' = {} /\ tomb' = 1
  /\ deleted' = TRUE /\ UNCHANGED forgotten
  /\ CutsOff(FALSE)

DeleteCommits ==
  /\ "delete" \in asked
  /\ asked' = asked \ {"delete"}
  /\ RemoveRun
  /\ UNCHANGED <<process, object, search, pages, second, budget>>

ClearAllHistory ==
  /\ Exists
  /\ RemoveRun
  /\ suppressed' = TRUE
  /\ UNCHANGED <<chain, throttle, reviewing, object, search, pages, second, asked, budget>>

(* The transaction of a Stop or a Delete throws.                           *)
RequestFails ==
  /\ faults < MaxFaults /\ asked # {}
  /\ faults' = faults + 1
  /\ \E request \in asked : asked' = asked \ {request}
  /\ UNCHANGED <<store, process, object, search, pages, second, deleted, forgotten, stops, restarts>>
  /\ CutsOff(TRUE)

PushedOut(place) == IF place = MaxTombstones THEN 0 ELSE place + 1

(* rememberDeletedRuns for another run keeps the newest tombstones only.   *)
DeleteOtherRun ==
  /\ tomb # 0
  /\ tomb' = PushedOut(tomb)
  /\ UNCHANGED <<row, stored, process, object, search, pages, second, asked, cutOff, budget>>
  /\ Forgets

(* The status poll ends a review this process does not run.  The half      *)
(* minute without a write it waits for is left out: it may come any time.  *)
PollEndsReview ==
  /\ row.stage = "review" /\ ~reviewing
  /\ Patch("done") \notin {chain[i] : i \in DOMAIN chain}
  /\ UpdateJob("done")
  /\ UNCHANGED <<store, suppressed, reviewing, search, pages, second, asked, history, budget>>

(* Fault: the start-up leaves the runs it finds running.                   *)
LeftRunning(found) == found

(* interruptedRun.                                                         *)
Interrupted(found) ==
  IF found.status = "running" THEN [found EXCEPT !.status = "failed", !.stage = "ended"] ELSE found

(* A restart loses the process; markInterruptedJobs runs before requests.  *)
Restart ==
  /\ restarts < MaxRestarts
  /\ restarts' = restarts + 1
  /\ row' = Interrupted(row)
  /\ suppressed' = FALSE /\ chain' = <<>> /\ throttle' = NoEntry /\ reviewing' = FALSE
  /\ object' = NoObjects /\ search' = "over" /\ pages' = 0 /\ asked' = {}
  /\ second' = [second EXCEPT !.at = IF @ = "idle" THEN @ ELSE "over"]
  /\ CutsOff(TRUE)
  /\ UNCHANGED <<stored, tomb, stops, faults>>
  /\ Forgets

-----------------------------------------------------------------------------
Search ==
  \/ SearchStarts \/ SearchChecks \/ SearchIsTold \/ SearchFinishes \/ SearchFails \/ SearchRescued
  \/ \E late \in BOOLEAN : SearchReports(late) \/ SearchSaves(late)
  \/ \E c \in Found : SearchAccepts(c)

Second ==
  \/ RouteLifts \/ RouteClears \/ RouteSaves \/ ReviewRefused \/ OffersRefused
  \/ BatchLifts \/ BatchClears \/ BatchReads \/ BatchSaves \/ BatchRereads
  \/ BatchAsks \/ BatchFinishes
  \/ OffersReads \/ OffersFinishes \/ SecondChecks \/ SecondIsTold
  \/ \E late \in BOOLEAN : SecondReports(late) \/ OffersReport(late) \/ OffersFails(late)

Requests ==
  \/ RouteReads \/ PressStop \/ PressDelete \/ ClearAllHistory \/ DeleteOtherRun
  \/ PollEndsReview

Commits == StopCommits \/ DeleteCommits

Next ==
  \/ Search \/ Second \/ Requests \/ Commits \/ RequestFails
  \/ WriteLands \/ WriteFails \/ TimerFires \/ Restart

Spec == Init /\ [][Next]_vars

(* An awaited transaction ends, a timer fires, a pipeline takes its next   *)
(* step, and somebody polls the status of the run.                         *)
Fairness ==
  /\ WF_vars(Search) /\ WF_vars(Second)
  /\ WF_vars(Commits) /\ WF_vars(WriteLands)
  /\ WF_vars(TimerFires) /\ WF_vars(PollEndsReview)

FairSpec == Spec /\ Fairness
-----------------------------------------------------------------------------
(* Properties.                                                             *)

(* No write of a pipeline still running brings a deleted run or one of its *)
(* competitors back (writeSearchJob, saveCompetitor), unless the run was   *)
(* started again after its tombstone had fallen out of the list.           *)
DeletedRunStaysGone == deleted /\ ~forgotten => row = NoRow /\ stored = {}

(* A stored competitor is listed by its run, whichever object was saved    *)
(* last (the merge of writeSearchJob), and goes with it.                   *)
CompetitorsBelong == stored \subseteq row.roster

(* While a run is stopped no late write changes what it shows; only a      *)
(* user's new start lifts the flag, and lifting it changes nothing else.   *)
StoppedRunStaysOut ==
  [][row.stop /\ row'.status # "none" =>
       row'.status = row.status /\ row'.stage = row.stage]_vars

Quiet ==
  /\ search = "over" /\ second.at \in {"idle", "over"}
  /\ chain = <<>> /\ ~throttle.armed /\ asked = {} /\ ~forgotten

(* Once everything has come to rest no run is shown as running, unless it  *)
(* is suppressed, a write or a request failed, or the later job read the   *)
(* run while it was running and saved that older snapshot.                 *)
RunningHasWorker ==
  Quiet /\ row.status = "running" =>
    \/ suppressed \/ faults > 0
    \/ "running" \in {object["second"].status, object["fresh"].status}

(* At rest the stage of a later job is gone from the row, and whatever is  *)
(* left of one can be ended by the status poll or a new start: the run is  *)
(* not marked as reviewed.  A stage is left only if, since it came into    *)
(* the row, the server restarted (and found the run no longer running), a  *)
(* write, a Stop or a Delete failed, or a late answer of                   *)
(* isSearchJobSuppressed put the run back into the suppressed set.         *)
StageHasWorker ==
  Quiet /\ row.stage \in JobStages => cutOff /\ ~reviewing

(* A review that its batch left behind, or a restart cut off, is ended by  *)
(* the status poll, unless a late answer of isSearchJobSuppressed has put  *)
(* the run back into the suppressed set.                                   *)
ReviewsEnd == row.stage = "review" ~> (row.stage # "review" \/ suppressed \/ forgotten)

(* runs.ts: deletion and stop are durable.                                 *)
StopHolds ==
  [][row.stop /\ row'.status # "none" => row'.stop \/ second'.at = "cleared"]_vars
=============================================================================
