---------------------------- MODULE RecreateQueue ----------------------------
(***************************************************************************)
(* The recreate queue of one user: the rows of recreate_jobs, the page of  *)
(* each job's own version, its task at the design agent, and the processes *)
(* of recreateQueue.ts that share them: dispatch, the run of a claimed     *)
(* job, stop, sweep and watch.  A step ends where the code awaits, but a   *)
(* late stop (StopLeftover) and a failure (FailedPage) are one step each;  *)
(* a crash keeps the database and the agent, and loses the rest.           *)
(*                                                                         *)
(* Data abstraction.  A job is its place in the queue (created_at, id).    *)
(* "failed" is a page that failed or completed with an error: outcomeOf    *)
(* does not tell them apart.                                               *)
(***************************************************************************)
EXTENDS Naturals, FiniteSets

CONSTANTS JobCount, Limit,  \* maxConcurrentRecreationsPerUser
          Scenarios         \* bound: what the user and the server may do, one of these

Jobs == 1..JobCount

(* The jobs the user adds, those the user may stop, whether the user also  *)
(* starts a build outside the queue, and how often a write fails or the    *)
(* server restarts.                                                        *)
Scenario == [jobs : SUBSET Jobs, stops : SUBSET Jobs, outside : BOOLEAN, faults : Nat]

ASSUME QueueAssumption ==
  JobCount \in Nat /\ Limit \in Nat \ {0} /\ Scenarios \subseteq Scenario

VARIABLES
  row,       \* recreate_jobs.status
  page,      \* recreatedPage of the job's version, and whether it names a task
  task,      \* the job's task at the design agent
  hold,      \* does this process hold credits for the job's build?
  orphans,   \* open holds of a process that died, until they expire
  outside,   \* the hold of a build started outside the queue
  inFlight,  \* QueueState.inFlight
  claimed,   \* claimed jobs not handed to start yet
  claims,    \* claims the dispatch under way may still make
  retry,     \* is the timer of retryLater armed?
  worker,    \* how far the run of a job (or a resumed follow) is
  aborted,   \* the abort signal of that run
  stopping,  \* how far stopRecreateJob is
  pickup,    \* how far a sweep is with a job
  watched,   \* the jobs of watch
  missed,    \* history: jobs whose task nobody may have stopped, by a failure
  faults,
  scenario

Stored == <<row, page, task>>
Slots == <<hold, orphans, outside>>
Dispatching == <<claimed, claims, retry>>
Sweeper == <<pickup, watched>>
Given == <<missed, faults, scenario>>
vars == <<Stored, Slots, inFlight, Dispatching, worker, aborted, stopping, Sweeper, Given>>

Settled == {"finished", "failed", "stopped"}

TypeOK ==
  /\ row \in [Jobs -> Settled \cup {"unused", "queued", "running", "removed"}]
  /\ page \in [Jobs -> [status : {"none", "pending", "completed", "failed", "deleted"},
                        task : BOOLEAN]]
  /\ task \in [Jobs -> {"none", "working", "delivered", "over", "orphan"}]
  /\ hold \in [Jobs -> BOOLEAN] /\ orphans \in Nat /\ outside \in {"unused", "open", "over"}
  /\ inFlight \subseteq Jobs /\ claimed \subseteq Jobs /\ watched \subseteq Jobs
  /\ missed \subseteq Jobs
  /\ claims \in 0..Limit /\ retry \in BOOLEAN
  /\ worker \in [Jobs -> {"idle", "starting", "refused", "reserved", "wanted", "begun", "sending",
                          "created", "following", "collecting", "returned", "threw", "reading",
                          "error", "leftover"} \cup Settled]
  /\ aborted \in [Jobs -> BOOLEAN]
  /\ stopping \in [Jobs -> {"idle", "removing", "deleting", "rereading", "settling", "reading",
                            "aborting", "saving", "leaving"}]
  /\ pickup \in [Jobs -> {"idle", "listed", "picked", "requeue", "resume"} \cup Settled]
  /\ scenario \in Scenarios /\ faults \in 0..scenario.faults

Init ==
  /\ scenario \in Scenarios
  /\ row = [j \in Jobs |-> "unused"]
  /\ page = [j \in Jobs |-> [status |-> "none", task |-> FALSE]]
  /\ task = [j \in Jobs |-> "none"]
  /\ hold = [j \in Jobs |-> FALSE] /\ orphans = 0
  /\ outside = IF scenario.outside THEN "unused" ELSE "over"
  /\ inFlight = {} /\ claimed = {} /\ claims = 0 /\ retry = FALSE
  /\ worker = [j \in Jobs |-> "idle"]
  /\ aborted = [j \in Jobs |-> FALSE]
  /\ stopping = [j \in Jobs |-> "idle"]
  /\ pickup = [j \in Jobs |-> "idle"] /\ watched = {}
  /\ missed = {} /\ faults = 0

-----------------------------------------------------------------------------
RowsIn(status) == {j \in Jobs : row[j] = status}

OpenHolds ==
  Cardinality({j \in Jobs : hold[j]}) + orphans + (IF outside = "open" THEN 1 ELSE 0)

(* outcomeOf: "none" while the page is still being built.                  *)
OutcomeOf(pg) ==
  CASE pg.status = "pending" -> "none"
    [] pg.status = "completed" -> "finished"
    [] OTHER -> "failed"

(* A write or a request fails, or the server dies.                         *)
Fault == faults < scenario.faults /\ faults' = faults + 1 /\ UNCHANGED scenario

(* Fault: a settlement that does not look whether the job still runs.      *)
SettledRowAnyway(j, status) == [row EXCEPT ![j] = status]

(* settleRunningJob and requeueJob change a running job only.              *)
SettledRow(j, status) == [row EXCEPT ![j] = IF @ = "running" THEN status ELSE @]

Claimable == RowsIn("queued") # {} /\ Cardinality(RowsIn("running")) < Limit

(* stopManusTask(...).catch(() => undefined), where there is a task to     *)
(* stop: a request that fails leaves it at work, and nobody asks again.    *)
EndTask(j, named) ==
  \/ task' = [task EXCEPT ![j] = IF named THEN "over" ELSE @] /\ UNCHANGED Given
  \/ named /\ Fault /\ missed' = missed \cup {j} /\ UNCHANGED task

-----------------------------------------------------------------------------
(* dispatchRecreateQueue.                                                  *)

AddJob(j) ==
  /\ j \in scenario.jobs /\ row[j] = "unused" /\ \A i \in 1..(j - 1) : row[i] # "unused"
  /\ row' = [row EXCEPT ![j] = "queued"]
  /\ claims' = Limit
  /\ UNCHANGED <<page, task, Slots, inFlight, claimed, retry, worker, aborted, stopping,
                 Sweeper, Given>>

ClaimNextQueued ==
  /\ claims > 0
  /\ IF Claimable
     THEN LET j == CHOOSE i \in RowsIn("queued") : \A o \in RowsIn("queued") : i <= o IN
          /\ row' = [row EXCEPT ![j] = "running"]
          /\ claimed' = claimed \cup {j}
          /\ claims' = claims - 1
     ELSE claims' = 0 /\ UNCHANGED <<row, claimed>>
  /\ UNCHANGED <<page, task, Slots, inFlight, retry, worker, aborted, stopping, Sweeper, Given>>

RetryTimer ==
  /\ retry
  /\ retry' = FALSE /\ claims' = Limit
  /\ UNCHANGED <<Stored, Slots, inFlight, claimed, worker, aborted, stopping, Sweeper, Given>>

(* Fault: start does not look whether the job is in flight.                *)
StartAnyway(j) ==
  /\ j \in claimed
  /\ claimed' = claimed \ {j}
  /\ inFlight' = inFlight \cup {j}
  /\ worker' = [worker EXCEPT ![j] = "starting"]
  /\ UNCHANGED <<Stored, Slots, claims, retry, aborted, stopping, Sweeper, Given>>

Start(j) ==
  /\ j \in claimed /\ j \notin inFlight
  /\ claimed' = claimed \ {j}
  /\ inFlight' = inFlight \cup {j}
  /\ worker' = [worker EXCEPT ![j] = "starting"]
  /\ UNCHANGED <<Stored, Slots, claims, retry, aborted, stopping, Sweeper, Given>>

StartInFlight(j) ==
  /\ j \in claimed /\ j \in inFlight
  /\ claimed' = claimed \ {j}
  /\ UNCHANGED <<Stored, Slots, inFlight, claims, retry, worker, aborted, stopping, Sweeper,
                 Given>>

-----------------------------------------------------------------------------
(* runJob: the run of a claimed job.                                       *)

Goes(j, from, to) ==
  /\ worker[j] = from
  /\ worker' = [worker EXCEPT ![j] = to]
  /\ UNCHANGED <<inFlight, claimed, stopping, Sweeper>>

(* The end of start's function: the job leaves inFlight and the queue is   *)
(* dispatched.                                                             *)
Ends(j) ==
  /\ worker' = [worker EXCEPT ![j] = "idle"]
  /\ inFlight' = inFlight \ {j}
  /\ claims' = Limit
  /\ UNCHANGED <<claimed, retry, stopping, Sweeper>>

(* runBillable up to the call of its function.                             *)
ReserveSlot(j, result) ==
  /\ result = "ok" => OpenHolds < Limit
  /\ result = "refused" => OpenHolds >= Limit
  /\ Goes(j, "starting", CASE result = "ok" -> "reserved"
                           [] result = "refused" -> "refused"
                           [] result = "unfunded" -> "error")
  /\ hold' = [hold EXCEPT ![j] = (result = "ok")]
  /\ UNCHANGED <<Stored, orphans, outside, claims, retry, aborted, Given>>

(* TooManyConcurrentRunsError: back to the queue, or failed when stopped.  *)
RequeueRefused(j) ==
  /\ worker[j] = "refused"
  /\ row' = SettledRow(j, "queued")
  /\ IF row[j] = "running"
     THEN /\ worker' = [worker EXCEPT ![j] = "idle"]
          /\ inFlight' = inFlight \ {j}
          /\ retry' = TRUE
     ELSE worker' = [worker EXCEPT ![j] = "error"] /\ UNCHANGED <<inFlight, retry>>
  /\ UNCHANGED <<page, task, Slots, claimed, claims, aborted, stopping, Sweeper, Given>>

CheckWanted(j) ==
  /\ Goes(j, "reserved", IF row[j] = "running" THEN "wanted" ELSE "returned")
  /\ UNCHANGED <<Stored, Slots, claims, retry, aborted, Given>>

(* A job for another website asks again after reading it.                  *)
StillWanted(j) ==
  /\ row[j] # "running"
  /\ Goes(j, "wanted", "returned")
  /\ UNCHANGED <<Stored, Slots, claims, retry, aborted, Given>>

(* No website, no reader, an unreadable page: nothing is written.          *)
BuildRefused(j) ==
  /\ Goes(j, "wanted", "threw")
  /\ UNCHANGED <<Stored, Slots, claims, retry, aborted, Given>>

(* A new build replaces a running one.                                     *)
BeginRun(j) ==
  /\ Goes(j, "wanted", "begun")
  /\ EndTask(j, page[j].status = "pending" /\ page[j].task)
  /\ aborted' = [aborted EXCEPT ![j] = FALSE]
  /\ UNCHANGED <<row, page, Slots, claims, retry>>

WritePage(j) ==
  /\ Goes(j, "begun", "sending")
  /\ page' = [page EXCEPT ![j] = [status |-> "pending", task |-> FALSE]]
  /\ UNCHANGED <<row, task, Slots, claims, retry, aborted, Given>>

CreateTask(j) ==
  /\ Goes(j, "sending", "created")
  /\ task' = [task EXCEPT ![j] = "working"]
  /\ UNCHANGED <<row, page, Slots, claims, retry, aborted, Given>>

(* fail: a run that was aborted leaves the page to whoever aborted it.     *)
FailedPage(j) == [page EXCEPT ![j].status = IF aborted[j] THEN @ ELSE "failed"]

CreateFails(j) ==
  /\ Goes(j, "sending", "returned")
  /\ page' = FailedPage(j)
  /\ UNCHANGED <<row, task, Slots, claims, retry, aborted, Given>>

SaveTask(j) ==
  /\ Goes(j, "created", "following")
  /\ page' = [page EXCEPT ![j].task = TRUE]
  /\ UNCHANGED <<row, task, Slots, claims, retry, aborted, Given>>

(* The write that names the task fails: the page fails, the task works on. *)
SaveTaskFails(j) ==
  /\ Fault
  /\ Goes(j, "created", "returned")
  /\ page' = FailedPage(j)
  /\ missed' = missed \cup {j}
  /\ UNCHANGED <<row, task, Slots, claims, retry, aborted>>

(* follow, by the run or (with no hold) resumed after a restart.           *)
AfterFollow(j) == IF hold[j] THEN "returned" ELSE "idle"

FollowAborted(j) ==
  /\ aborted[j]
  /\ Goes(j, "following", AfterFollow(j))
  /\ UNCHANGED <<Stored, Slots, claims, retry, aborted, Given>>

(* The agent's error, the deadline, which asks the task to end, or a page  *)
(* that cannot be read or written.                                         *)
FollowFails(j) ==
  /\ ~aborted[j]
  /\ Goes(j, "following", AfterFollow(j))
  /\ EndTask(j, TRUE)
  /\ page' = FailedPage(j)
  /\ UNCHANGED <<row, Slots, claims, retry, aborted>>

FollowDelivered(j) ==
  /\ ~aborted[j] /\ task[j] = "delivered"
  /\ Goes(j, "following", "collecting")
  /\ UNCHANGED <<Stored, Slots, claims, retry, aborted, Given>>

(* collectResult does not look at the signal again.                        *)
CollectResult(j) ==
  /\ Goes(j, "collecting", AfterFollow(j))
  /\ page' = [page EXCEPT ![j].status = "completed"]
  /\ UNCHANGED <<row, task, Slots, claims, retry, aborted, Given>>

ReleaseSlot(j) ==
  /\ \/ Goes(j, "returned", "reading")
     \/ Goes(j, "threw", "error")
  /\ hold' = [hold EXCEPT ![j] = FALSE]
  /\ UNCHANGED <<Stored, orphans, outside, claims, retry, aborted, Given>>

(* The release throws: the hold is left to expire, the job has failed.     *)
ReleaseSlotFails(j) ==
  /\ Fault
  /\ Goes(j, "returned", "error") \/ Goes(j, "threw", "error")
  /\ hold' = [hold EXCEPT ![j] = FALSE]
  /\ orphans' = orphans + 1
  /\ UNCHANGED <<Stored, outside, claims, retry, aborted, missed>>

ReadOutcome(j) ==
  /\ Goes(j, "reading", IF OutcomeOf(page[j]) = "none" THEN "stopped" ELSE OutcomeOf(page[j]))
  /\ UNCHANGED <<Stored, Slots, claims, retry, aborted, Given>>

(* An error settles the job as failed, whatever its page says.             *)
SettleJob(j) ==
  /\ worker[j] \in Settled \cup {"error"}
  /\ row' = SettledRow(j, IF worker[j] = "error" THEN "failed" ELSE worker[j])
  /\ IF row[j] = "running"
     THEN Ends(j)
     ELSE Goes(j, worker[j], "leftover") /\ UNCHANGED <<claims, retry>>
  /\ UNCHANGED <<page, task, Slots, aborted, Given>>

(* The outcome cannot be recorded: the sweep finds the job, unless it was  *)
(* stopped, and then nobody looks for a task created after the stop.       *)
SettleJobFails(j) ==
  /\ Fault
  /\ worker[j] \in Settled \cup {"error"}
  /\ Ends(j)
  /\ missed' = IF row[j] = "stopped" THEN missed \cup {j} ELSE missed
  /\ UNCHANGED <<Stored, Slots, aborted>>

(* Fault: a task created after the stop is left alone.                     *)
NoLeftover(j) ==
  /\ worker[j] = "leftover"
  /\ Ends(j)
  /\ UNCHANGED <<Stored, Slots, aborted, Given>>

StopLeftover(j) ==
  /\ worker[j] = "leftover"
  /\ IF row[j] = "stopped" /\ page[j].status \in {"pending", "failed"}
     THEN EndTask(j, page[j].task) /\ page' = [page EXCEPT ![j].status = "failed"]
     ELSE UNCHANGED <<page, task, Given>>
  /\ Ends(j)
  /\ UNCHANGED <<row, Slots, aborted>>

-----------------------------------------------------------------------------
(* stopRecreateJob.                                                        *)

Stops(j, from, to) ==
  /\ stopping[j] = from
  /\ stopping' = [stopping EXCEPT ![j] = to]
  /\ UNCHANGED <<Slots, inFlight, claimed, retry, worker, Sweeper>>

AskStop(j) ==
  /\ j \in scenario.stops
  /\ \/ row[j] = "queued" /\ Stops(j, "idle", "removing")
     \/ row[j] = "running" /\ Stops(j, "idle", "settling")
  /\ UNCHANGED <<Stored, claims, aborted, Given>>

RemoveQueued(j) ==
  /\ Stops(j, "removing", IF row[j] = "queued" THEN "deleting" ELSE "rereading")
  /\ row' = [row EXCEPT ![j] = IF @ = "queued" THEN "removed" ELSE @]
  /\ UNCHANGED <<page, task, claims, aborted, Given>>

(* deleteCompetitor spares a version that holds a page.                    *)
DeleteVersion(j) ==
  /\ Stops(j, "deleting", "idle")
  /\ page' = [page EXCEPT ![j].status = IF @ = "none" THEN "deleted" ELSE @]
  /\ UNCHANGED <<row, task, claims, aborted, Given>>

RereadJob(j) ==
  /\ Stops(j, "rereading", IF row[j] = "running" THEN "settling" ELSE "idle")
  /\ UNCHANGED <<Stored, claims, aborted, Given>>

SettleStopped(j) ==
  /\ Stops(j, "settling", IF row[j] = "running" THEN "reading" ELSE "idle")
  /\ row' = SettledRow(j, "stopped")
  /\ UNCHANGED <<page, task, claims, aborted, Given>>

(* The page is read; a build under way is aborted at once.                 *)
AbortBuild(j) ==
  /\ Stops(j, "reading", IF page[j].status = "pending" THEN "aborting" ELSE "leaving")
  /\ aborted' = [aborted EXCEPT ![j] = @ \/ page[j].status = "pending"]
  /\ UNCHANGED <<Stored, claims, Given>>

StopTask(j) ==
  /\ Stops(j, "aborting", "saving")
  /\ EndTask(j, page[j].task)
  /\ UNCHANGED <<row, page, claims, aborted>>

SaveStopped(j) ==
  /\ Stops(j, "saving", "leaving")
  /\ page' = [page EXCEPT ![j].status = "failed"]
  /\ UNCHANGED <<row, task, claims, aborted, Given>>

LeaveStop(j) ==
  /\ Stops(j, "leaving", "idle")
  /\ claims' = IF j \in inFlight THEN claims ELSE Limit
  /\ UNCHANGED <<Stored, aborted, Given>>

-----------------------------------------------------------------------------
(* sweepRecreateQueue: at start, every few minutes, and with every list,   *)
(* so sweeps overlap; started_at, their order, follows no order of jobs.   *)

ListRunning ==
  /\ \E j \in RowsIn("running") : pickup[j] = "idle"
  /\ pickup' = [j \in Jobs |-> IF row[j] = "running" /\ pickup[j] = "idle" THEN "listed"
                               ELSE pickup[j]]
  /\ UNCHANGED <<Stored, Slots, inFlight, Dispatching, worker, aborted, stopping, watched, Given>>

PickUp(j) ==
  /\ pickup[j] = "listed"
  /\ IF j \in inFlight
     THEN pickup' = [pickup EXCEPT ![j] = "idle"] /\ UNCHANGED inFlight
     ELSE pickup' = [pickup EXCEPT ![j] = "picked"] /\ inFlight' = inFlight \cup {j}
  /\ UNCHANGED <<Stored, Slots, Dispatching, worker, aborted, stopping, watched, Given>>

(* What the sweep does with a job, from its page.                          *)
Decision(pg) ==
  IF pg.status = "none" \/ (pg.status = "pending" /\ ~pg.task) THEN "requeue"
  ELSE IF OutcomeOf(pg) # "none" THEN OutcomeOf(pg) ELSE "resume"

Decide(j) ==
  /\ pickup[j] = "picked"
  /\ pickup' = [pickup EXCEPT ![j] = Decision(page[j])]
  /\ UNCHANGED <<Stored, Slots, inFlight, Dispatching, worker, aborted, stopping, watched,
                 Given>>

(* Fault: the sweep does not let go of a job it is done with.              *)
ActOnAndKeep(j) ==
  /\ pickup[j] \in Settled \cup {"requeue"}
  /\ row' = SettledRow(j, IF pickup[j] = "requeue" THEN "queued" ELSE pickup[j])
  /\ pickup' = [pickup EXCEPT ![j] = "idle"]
  /\ UNCHANGED <<page, task, Slots, inFlight, Dispatching, worker, aborted, stopping, watched,
                 Given>>

ActOn(j) ==
  /\ pickup[j] \in Settled \cup {"requeue"}
  /\ row' = SettledRow(j, IF pickup[j] = "requeue" THEN "queued" ELSE pickup[j])
  /\ pickup' = [pickup EXCEPT ![j] = "idle"]
  /\ inFlight' = inFlight \ {j}
  /\ UNCHANGED <<page, task, Slots, Dispatching, worker, aborted, stopping, watched,
                 Given>>

(* resumeManusRecreation follows the task of a pending page; watch         *)
(* follows the job in any case.                                            *)
Resume(j) ==
  /\ pickup[j] = "resume"
  /\ pickup' = [pickup EXCEPT ![j] = "idle"]
  /\ watched' = watched \cup {j}
  /\ IF page[j].status = "pending" /\ page[j].task /\ worker[j] = "idle"
     THEN /\ worker' = [worker EXCEPT ![j] = "following"]
          /\ aborted' = [aborted EXCEPT ![j] = FALSE]
     ELSE UNCHANGED <<worker, aborted>>
  /\ UNCHANGED <<Stored, Slots, inFlight, Dispatching, stopping, Given>>

(* The sweep has been through its jobs, if it listed any.                   *)
EndSweep ==
  /\ \A j \in Jobs : pickup[j] = "idle"
  /\ claims' = Limit
  /\ UNCHANGED <<Stored, Slots, inFlight, claimed, retry, worker, aborted, stopping, Sweeper,
                 Given>>

(* watch: the job is no longer running, its page has settled, or nothing   *)
(* has changed for longer than a follow may take.                          *)
Watch(j) ==
  /\ j \in watched
  /\ \/ row[j] # "running" /\ UNCHANGED row
     \/ /\ row[j] = "running" /\ OutcomeOf(page[j]) # "none"
        /\ row' = SettledRow(j, OutcomeOf(page[j]))
     \/ /\ row[j] = "running" /\ OutcomeOf(page[j]) = "none" /\ worker[j] = "idle"
        /\ row' = SettledRow(j, "failed")
  /\ watched' = watched \ {j}
  /\ inFlight' = inFlight \ {j}
  /\ claims' = Limit
  /\ UNCHANGED <<page, task, Slots, claimed, retry, worker, aborted, stopping, pickup,
                 Given>>

-----------------------------------------------------------------------------
(* The agent, the clock, the user's other builds and the server.           *)

AgentDelivers(j) ==
  /\ task[j] = "working"
  /\ task' = [task EXCEPT ![j] = "delivered"]
  /\ UNCHANGED <<row, page, Slots, inFlight, Dispatching, worker, aborted, stopping, Sweeper,
                 Given>>

HoldExpires ==
  /\ orphans > 0
  /\ orphans' = orphans - 1
  /\ UNCHANGED <<Stored, hold, outside, inFlight, Dispatching, worker, aborted, stopping, Sweeper,
                 Given>>

OutsideStarts ==
  /\ outside = "unused" /\ OpenHolds < Limit
  /\ outside' = "open"
  /\ UNCHANGED <<Stored, hold, orphans, inFlight, Dispatching, worker, aborted, stopping, Sweeper,
                 Given>>

OutsideEnds ==
  /\ outside = "open"
  /\ outside' = "over"
  /\ UNCHANGED <<Stored, hold, orphans, inFlight, Dispatching, worker, aborted, stopping, Sweeper,
                 Given>>

Crash ==
  /\ Fault
  /\ orphans' = OpenHolds
  /\ hold' = [j \in Jobs |-> FALSE]
  /\ outside' = IF outside = "open" THEN "over" ELSE outside
  /\ task' = [j \in Jobs |-> IF worker[j] = "created" THEN "orphan" ELSE task[j]]
  /\ missed' = missed \cup {j \in RowsIn("stopped") : stopping[j] # "idle" \/ worker[j] # "idle"}
  /\ inFlight' = {} /\ claimed' = {} /\ claims' = 0 /\ retry' = FALSE
  /\ worker' = [j \in Jobs |-> "idle"]
  /\ aborted' = [j \in Jobs |-> FALSE]
  /\ stopping' = [j \in Jobs |-> "idle"]
  /\ pickup' = [j \in Jobs |-> "idle"] /\ watched' = {}
  /\ UNCHANGED <<row, page>>

-----------------------------------------------------------------------------
RunJob(j) ==
  \/ \E result \in {"ok", "refused", "unfunded"} : ReserveSlot(j, result)
  \/ RequeueRefused(j) \/ CheckWanted(j) \/ StillWanted(j) \/ BuildRefused(j)
  \/ BeginRun(j) \/ WritePage(j) \/ CreateTask(j) \/ CreateFails(j) \/ SaveTask(j) \/ SaveTaskFails(j)
  \/ FollowAborted(j) \/ FollowFails(j) \/ FollowDelivered(j) \/ CollectResult(j)
  \/ ReleaseSlot(j) \/ ReleaseSlotFails(j) \/ ReadOutcome(j)
  \/ SettleJob(j) \/ SettleJobFails(j) \/ StopLeftover(j)

StopJob(j) ==
  \/ RemoveQueued(j) \/ DeleteVersion(j) \/ RereadJob(j) \/ SettleStopped(j)
  \/ AbortBuild(j) \/ StopTask(j) \/ SaveStopped(j) \/ LeaveStop(j)

SweepJob(j) == PickUp(j) \/ Decide(j) \/ ActOn(j) \/ Resume(j)

Next ==
  \/ \E j \in Jobs :
       \/ AddJob(j) \/ Start(j) \/ StartInFlight(j) \/ RunJob(j)
       \/ AskStop(j) \/ StopJob(j) \/ SweepJob(j) \/ Watch(j) \/ AgentDelivers(j)
  \/ ClaimNextQueued \/ RetryTimer \/ ListRunning \/ EndSweep
  \/ HoldExpires \/ OutsideStarts \/ OutsideEnds \/ Crash

Spec == Init /\ [][Next]_vars

(* Awaited calls end, timers fire and holds expire.  The user and the      *)
(* agent owe nothing.                                                      *)
Fairness ==
  /\ \A j \in Jobs :
       /\ WF_vars(Start(j)) /\ WF_vars(StartInFlight(j)) /\ WF_vars(RunJob(j))
       /\ WF_vars(StopJob(j)) /\ WF_vars(SweepJob(j)) /\ WF_vars(Watch(j))
  /\ WF_vars(ClaimNextQueued) /\ WF_vars(RetryTimer)
  /\ WF_vars(ListRunning) /\ WF_vars(EndSweep)
  /\ WF_vars(HoldExpires) /\ WF_vars(OutsideEnds)

(* The bad luck of a sweep that handles a job between its claim and its    *)
(* start ends.                                                             *)
LuckTurns == <>[][\A j \in Jobs : j \in claimed => ~SweepJob(j)]_vars

FairSpec == Spec /\ Fairness /\ LuckTurns
-----------------------------------------------------------------------------
(* Properties.                                                             *)

(* However claims, requeues, sweeps and restarts interleave, a user never  *)
(* has more jobs running than the limit (claimNextQueued).                 *)
RunningWithinLimit == Cardinality(RowsIn("running")) <= Limit

(* A finished job has its page: no late write of a stop or of a failed     *)
(* build replaces it, and no other outcome is taken for a finish.          *)
FinishedJobsHaveTheirPage ==
  \A j \in Jobs : row[j] = "finished" => page[j].status = "completed"

(* A run that settles late, a watch or a sweep never overwrites an outcome *)
(* recorded first (settleRunningJob, requeueJob).                          *)
OutcomesStay ==
  [][\A j \in Jobs : row[j] \in Settled => row'[j] = row[j]]_vars

(* No task is created for a job while another task of it is at work, be it *)
(* claimed twice, requeued or picked up by a sweep (inFlight); the two     *)
(* exceptions are a server that died before it saved the task, and a task  *)
(* a failure left at work (see missed).                                    *)
OneTaskAtATime ==
  [][\A j \in Jobs : worker[j] = "sending" /\ worker'[j] = "created" =>
                      task[j] # "working" \/ j \in missed]_vars

(* A job never stays queued or running for ever, whatever fails, is        *)
(* refused or is cut off by a restart.                                     *)
JobsEnd ==
  \A j \in Jobs : row[j] \in {"queued", "running"} ~> row[j] \in Settled \cup {"removed"}

(* The agent does not go on working for a stopped job, also when its task  *)
(* was being created during the stop (stopLeftover), unless the request to *)
(* stop it failed (the code drops that error), the write that names it     *)
(* failed, the job's late settlement failed and the look for a leftover    *)
(* task was skipped, or the server died while the stop or the build was    *)
(* under way.                                                              *)
StoppedTasksEnd ==
  \A j \in Jobs : row[j] = "stopped" ~> (task[j] # "working" \/ j \in missed)
=============================================================================
