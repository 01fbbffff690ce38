------------------------- MODULE RecreateQueueProofs -------------------------
(***************************************************************************)
(* Proofs about the recreate queue, for any number of jobs, any limit and  *)
(* every scenario: its types, the limit on running jobs, that a recorded   *)
(* outcome is never overwritten, that a finished job has its page, and     *)
(* that a job never has two tasks at work.                                 *)
(*                                                                         *)
(* The rows are written by a dispatch, by the run of a job, by a stop, a   *)
(* sweep and a watch, none of which waits for the others; each proof is    *)
(* that no write of theirs can do harm whatever the others have done       *)
(* since it was decided on.                                                *)
(***************************************************************************)
EXTENDS RecreateQueue, FiniteSetTheorems, WellFoundedInduction, TLAPS

-----------------------------------------------------------------------------
(* The numbers of the queue.                                               *)

LEMMA Positive == Limit \in Nat /\ 0 \in 0..Limit /\ Limit \in 0..Limit
BY QueueAssumption

LEMMA FaultCounted ==
  ASSUME TypeOK, Fault
  PROVE  scenario' \in Scenarios /\ faults' \in 0..scenario'.faults
<1>1. scenario.faults \in Nat
  BY QueueAssumption DEF TypeOK, Scenario
<1> QED BY <1>1 DEF TypeOK, Fault

(* A task asked to end is over, or the request failed and was recorded.    *)
LEMMA AskedToEnd ==
  ASSUME TypeOK, NEW j \in Jobs, NEW named \in BOOLEAN, EndTask(j, named)
  PROVE  /\ task' \in [Jobs -> {"none", "working", "delivered", "over", "orphan"}]
         /\ missed' \subseteq Jobs /\ missed \subseteq missed'
         /\ scenario' \in Scenarios /\ faults' \in 0..scenario'.faults
         /\ \A k \in Jobs : task'[k] = task[k] \/ task'[k] = "over"
<1>1. CASE task' = [task EXCEPT ![j] = IF named THEN "over" ELSE @] /\ UNCHANGED Given
  BY <1>1 DEF TypeOK, Given
<1>2. CASE named /\ Fault /\ missed' = missed \cup {j} /\ UNCHANGED task
  BY <1>2, FaultCounted DEF TypeOK
<1> QED BY <1>1, <1>2 DEF EndTask

LEMMA SomeJobs ==
  ASSUME NEW S \in SUBSET Jobs
  PROVE  IsFiniteSet(S) /\ Cardinality(S) \in Nat
<1>1. IsFiniteSet(Jobs)
  BY QueueAssumption, FS_Interval DEF Jobs
<1> QED BY <1>1, FS_Subset, FS_CardinalityType

LEMMA HoldsCounted ==
  ASSUME TypeOK
  PROVE  OpenHolds \in Nat
<1>1. Cardinality({j \in Jobs : hold[j]}) \in Nat
  BY SomeJobs
<1> QED BY <1>1 DEF TypeOK, OpenHolds

(* The oldest of the queued jobs exists.                                   *)
LEMMA OldestQueued ==
  ASSUME RowsIn("queued") # {}
  PROVE  \E i \in RowsIn("queued") : \A o \in RowsIn("queued") : i <= o
<1>1. RowsIn("queued") \subseteq Nat
  BY QueueAssumption DEF RowsIn, Jobs
<1>2. PICK i \in RowsIn("queued") :
        \A o \in RowsIn("queued") : ~(<<o, i>> \in OpToRel(<, Nat))
  BY <1>1, WFMin, NatLessThanWellFounded
<1>3. \A o \in RowsIn("queued") : ~(o < i)
  BY <1>1, <1>2 DEF OpToRel
<1> QED BY <1>1, <1>3

(* A claim takes a queued job, and only while there is a place.            *)
LEMMA ClaimTakesOne ==
  ASSUME ClaimNextQueued, Claimable
  PROVE  /\ Cardinality(RowsIn("running")) < Limit
         /\ \E j \in Jobs : /\ row[j] = "queued" /\ row' = [row EXCEPT ![j] = "running"]
                          /\ claimed' = claimed \cup {j} /\ claims' = claims - 1
<1>1. PICK i \in RowsIn("queued") : \A o \in RowsIn("queued") : i <= o
  BY OldestQueued DEF Claimable
<1>2. PICK j \in RowsIn("queued") : j = CHOOSE n \in RowsIn("queued") :
                                               \A o \in RowsIn("queued") : n <= o
  BY <1>1
<1>3. j \in Jobs /\ row[j] = "queued"
  BY DEF RowsIn
<1>4. /\ row' = [row EXCEPT ![j] = "running"] /\ claimed' = claimed \cup {j}
      /\ claims' = claims - 1
  BY <1>2 DEF ClaimNextQueued
<1> QED BY <1>3, <1>4 DEF Claimable

LEMMA NothingClaimed ==
  ASSUME ClaimNextQueued, ~Claimable
  PROVE  row' = row /\ claimed' = claimed /\ claims' = 0
BY DEF ClaimNextQueued

-----------------------------------------------------------------------------
(* Types.                                                                  *)

(* Every action keeps the types.                                           *)
LEMMA StepType ==
  ASSUME TypeOK, [Next]_vars
  PROVE  TypeOK'
<1> USE DEF Stored, Slots, Dispatching, Sweeper, Given, Settled, Goes, Ends, Stops,
SettledRow,
            FailedPage, AfterFollow, OutcomeOf, Decision
<1>1. ASSUME NEW j \in Jobs, AddJob(j) PROVE TypeOK'
  BY <1>1, Positive DEF AddJob, TypeOK
<1>2. ASSUME NEW j \in Jobs, Start(j) PROVE TypeOK'
  BY <1>2, Positive DEF Start, TypeOK
<1>3. ASSUME NEW j \in Jobs, StartInFlight(j) PROVE TypeOK'
  BY <1>3, Positive DEF StartInFlight, TypeOK
<1>4. ASSUME NEW j \in Jobs, NEW result \in {"ok", "refused", "unfunded"}, ReserveSlot(j, result)
     PROVE  TypeOK'
  BY <1>4, Positive DEF ReserveSlot, TypeOK
<1>5. ASSUME NEW j \in Jobs, RequeueRefused(j) PROVE TypeOK'
  BY <1>5, Positive DEF RequeueRefused, TypeOK
<1>6. ASSUME NEW j \in Jobs, CheckWanted(j) PROVE TypeOK'
  BY <1>6, Positive DEF CheckWanted, TypeOK
<1>7. ASSUME NEW j \in Jobs, StillWanted(j) PROVE TypeOK'
  BY <1>7, Positive DEF StillWanted, TypeOK
<1>8. ASSUME NEW j \in Jobs, BuildRefused(j) PROVE TypeOK'
  BY <1>8, Positive DEF BuildRefused, TypeOK
<1>9. ASSUME NEW j \in Jobs, BeginRun(j) PROVE TypeOK'
  <2>1. EndTask(j, page[j].status = "pending" /\ page[j].task)
    BY <1>9 DEF BeginRun
  <2> QED BY <1>9, <2>1, AskedToEnd, Positive DEF BeginRun, TypeOK
<1>10. ASSUME NEW j \in Jobs, WritePage(j) PROVE TypeOK'
  BY <1>10, Positive DEF WritePage, TypeOK
<1>11. ASSUME NEW j \in Jobs, CreateTask(j) PROVE TypeOK'
  BY <1>11, Positive DEF CreateTask, TypeOK
<1>12. ASSUME NEW j \in Jobs, CreateFails(j) PROVE TypeOK'
  BY <1>12, Positive DEF CreateFails, TypeOK
<1>13. ASSUME NEW j \in Jobs, SaveTask(j) PROVE TypeOK'
  BY <1>13, Positive DEF SaveTask, TypeOK
<1>14. ASSUME NEW j \in Jobs, FollowAborted(j) PROVE TypeOK'
  BY <1>14, Positive DEF FollowAborted, TypeOK
<1>15. ASSUME NEW j \in Jobs, FollowFails(j) PROVE TypeOK'
  <2>1. EndTask(j, TRUE)
    BY <1>15 DEF FollowFails
  <2>2. page' \in [Jobs -> [status : {"none", "pending", "completed", "failed", "deleted"},
                            task : BOOLEAN]]
    BY <1>15 DEF FollowFails, TypeOK
  <2>3. worker' = [worker EXCEPT ![j] = IF hold[j] THEN "returned" ELSE "idle"]
    BY <1>15 DEF FollowFails
  <2>4. UNCHANGED <<row, hold, orphans, outside, inFlight, claimed, claims, retry, watched,
                    stopping, pickup, aborted>>
    BY <1>15 DEF FollowFails
  <2> QED BY <2>1, <2>2, <2>3, <2>4, AskedToEnd DEF TypeOK
<1>16. ASSUME NEW j \in Jobs, FollowDelivered(j) PROVE TypeOK'
  BY <1>16, Positive DEF FollowDelivered, TypeOK
<1>17. ASSUME NEW j \in Jobs, CollectResult(j) PROVE TypeOK'
  BY <1>17, Positive DEF CollectResult, TypeOK
<1>18. ASSUME NEW j \in Jobs, ReleaseSlot(j) PROVE TypeOK'
  BY <1>18, Positive DEF ReleaseSlot, TypeOK
<1>19. ASSUME NEW j \in Jobs, ReleaseSlotFails(j) PROVE TypeOK'
  <2>1. scenario' \in Scenarios /\ faults' \in 0..scenario'.faults
    BY <1>19, FaultCounted DEF ReleaseSlotFails
  <2>2. /\ worker' = [worker EXCEPT ![j] = "error"] /\ hold' = [hold EXCEPT ![j] = FALSE]
        /\ orphans' = orphans + 1
        /\ UNCHANGED <<row, page, task, outside, inFlight, claimed, claims, retry, watched,
                       stopping, pickup, aborted, missed>>
    BY <1>19 DEF ReleaseSlotFails
  <2> QED BY <2>1, <2>2 DEF TypeOK
<1>20. ASSUME NEW j \in Jobs, ReadOutcome(j) PROVE TypeOK'
  BY <1>20, Positive DEF ReadOutcome, TypeOK
<1>21. ASSUME NEW j \in Jobs, SettleJob(j) PROVE TypeOK'
  BY <1>21, Positive DEF SettleJob, TypeOK
<1>22. ASSUME NEW j \in Jobs, SettleJobFails(j) PROVE TypeOK'
  BY <1>22, FaultCounted, Positive DEF SettleJobFails, TypeOK
<1>23. ASSUME NEW j \in Jobs, StopLeftover(j) PROVE TypeOK'
  <2>1. CASE row[j] = "stopped" /\ page[j].status \in {"pending", "failed"}
    <3>1. page' = [page EXCEPT ![j] = [status |-> "failed", task |-> page[j].task]]
      BY <1>23, <2>1 DEF StopLeftover, TypeOK
    <3>2. EndTask(j, page[j].task) /\ page[j].task \in BOOLEAN
      BY <1>23, <2>1 DEF StopLeftover, TypeOK
    <3> QED BY <1>23, <2>1, <3>1, <3>2, AskedToEnd, Positive DEF StopLeftover, TypeOK
  <2>2. CASE ~(row[j] = "stopped" /\ page[j].status \in {"pending", "failed"})
    BY <1>23, <2>2, Positive DEF StopLeftover, TypeOK
  <2> QED BY <2>1, <2>2
<1>24. ASSUME NEW j \in Jobs, AskStop(j) PROVE TypeOK'
  BY <1>24, Positive DEF AskStop, TypeOK
<1>25. ASSUME NEW j \in Jobs, RemoveQueued(j) PROVE TypeOK'
  BY <1>25, Positive DEF RemoveQueued, TypeOK
<1>26. ASSUME NEW j \in Jobs, DeleteVersion(j) PROVE TypeOK'
  BY <1>26, Positive DEF DeleteVersion, TypeOK
<1>27. ASSUME NEW j \in Jobs, RereadJob(j) PROVE TypeOK'
  BY <1>27, Positive DEF RereadJob, TypeOK
<1>28. ASSUME NEW j \in Jobs, SettleStopped(j) PROVE TypeOK'
  BY <1>28, Positive DEF SettleStopped, TypeOK
<1>29. ASSUME NEW j \in Jobs, AbortBuild(j) PROVE TypeOK'
  BY <1>29, Positive DEF AbortBuild, TypeOK
<1>30. ASSUME NEW j \in Jobs, StopTask(j) PROVE TypeOK'
  <2>1. EndTask(j, page[j].task) /\ page[j].task \in BOOLEAN
    BY <1>30 DEF StopTask, TypeOK
  <2> QED BY <1>30, <2>1, AskedToEnd, Positive DEF StopTask, TypeOK
<1>31. ASSUME NEW j \in Jobs, SaveStopped(j) PROVE TypeOK'
  BY <1>31, Positive DEF SaveStopped, TypeOK
<1>32. ASSUME NEW j \in Jobs, LeaveStop(j) PROVE TypeOK'
  BY <1>32, Positive DEF LeaveStop, TypeOK
<1>33. ASSUME NEW j \in Jobs, PickUp(j) PROVE TypeOK'
  BY <1>33, Positive DEF PickUp, TypeOK
<1>34. ASSUME NEW j \in Jobs, Decide(j) PROVE TypeOK'
  BY <1>34, Positive DEF Decide, TypeOK
<1>35. ASSUME NEW j \in Jobs, ActOn(j) PROVE TypeOK'
  BY <1>35, Positive DEF ActOn, TypeOK
<1>36. ASSUME NEW j \in Jobs, Resume(j) PROVE TypeOK'
  BY <1>36, Positive DEF Resume, TypeOK
<1>37. ASSUME NEW j \in Jobs, Watch(j) PROVE TypeOK'
  BY <1>37, Positive DEF Watch, TypeOK
<1>38. ASSUME NEW j \in Jobs, AgentDelivers(j) PROVE TypeOK'
  BY <1>38, Positive DEF AgentDelivers, TypeOK
<1>39. ASSUME ClaimNextQueued PROVE TypeOK'
  <2>1. CASE Claimable
    <3>1. PICK j \in Jobs : /\ row' = [row EXCEPT ![j] = "running"]
                           /\ claimed' = claimed \cup {j} /\ claims' = claims - 1
      BY <1>39, <2>1, ClaimTakesOne
    <3> QED BY <1>39, <3>1, Positive DEF ClaimNextQueued, TypeOK
  <2>2. CASE ~Claimable
    BY <1>39, <2>2, NothingClaimed, Positive DEF ClaimNextQueued, TypeOK
  <2> QED BY <2>1, <2>2
<1>40. ASSUME RetryTimer PROVE TypeOK'
  BY <1>40, Positive DEF RetryTimer, TypeOK
<1>41. ASSUME ListRunning PROVE TypeOK'
  BY <1>41, Positive DEF ListRunning, TypeOK
<1>42. ASSUME EndSweep PROVE TypeOK'
  BY <1>42, Positive DEF EndSweep, TypeOK
<1>43. ASSUME HoldExpires PROVE TypeOK'
  BY <1>43, Positive DEF HoldExpires, TypeOK
<1>44. ASSUME OutsideStarts PROVE TypeOK'
  BY <1>44, Positive DEF OutsideStarts, TypeOK
<1>45. ASSUME OutsideEnds PROVE TypeOK'
  BY <1>45, Positive DEF OutsideEnds, TypeOK
<1>46. ASSUME Crash PROVE TypeOK'
  <2>1. scenario' \in Scenarios /\ faults' \in 0..scenario'.faults
    BY <1>46, FaultCounted DEF Crash
  <2>2. missed' \subseteq Jobs
    BY <1>46 DEF Crash, TypeOK, RowsIn
  <2>3. task' \in [Jobs -> {"none", "working", "delivered", "over", "orphan"}]
    BY <1>46 DEF Crash, TypeOK
  <2>4. row' = row /\ page' = page
    BY <1>46 DEF Crash
  <2> QED BY <1>46, <2>1, <2>2, <2>3, <2>4, HoldsCounted, Positive DEF Crash, TypeOK
<1>47. CASE UNCHANGED vars
  BY <1>47 DEF vars, TypeOK
<1>48. ASSUME NEW j \in Jobs, SaveTaskFails(j) PROVE TypeOK'
  BY <1>48, FaultCounted, Positive DEF SaveTaskFails, TypeOK
<1> QED
  BY <1>1, <1>2, <1>3, <1>4, <1>5, <1>6, <1>7, <1>8, <1>9, <1>10, <1>11, <1>12, <1>13,
     <1>14, <1>15, <1>16, <1>17, <1>18, <1>19, <1>20, <1>21, <1>22, <1>23, <1>24,
     <1>25, <1>26, <1>27, <1>28, <1>29, <1>30, <1>31, <1>32, <1>33, <1>34, <1>35,
     <1>36, <1>37, <1>38, <1>39, <1>40, <1>41, <1>42, <1>43, <1>44, <1>45, <1>46,
     <1>47, <1>48
  DEF Next, RunJob, StopJob, SweepJob

(* The rows, pages and processes of the queue have their types, whatever   *)
(* the scenario.                                                           *)
THEOREM TypeCorrect == Spec => []TypeOK
<1>1. Init => TypeOK
  <2> SUFFICES ASSUME Init PROVE TypeOK
    OBVIOUS
  <2>1. scenario.faults \in Nat /\ scenario \in Scenarios
    BY QueueAssumption DEF Init, Scenario
  <2>2. page \in [Jobs -> [status : {"none", "pending", "completed", "failed", "deleted"},
                         task : BOOLEAN]]
    BY DEF Init
  <2>3. faults \in 0..scenario.faults
    BY <2>1 DEF Init
  <2>4. outside \in {"unused", "open", "over"}
    BY DEF Init
  <2>5. /\ row \in [Jobs -> Settled \cup {"unused", "queued", "running", "removed"}]
        /\ task \in [Jobs -> {"none", "working", "delivered", "over", "orphan"}]
        /\ hold \in [Jobs -> BOOLEAN] /\ orphans \in Nat
    BY DEF Init
  <2> QED BY <2>1, <2>2, <2>3, <2>4, <2>5, Positive DEF Init, TypeOK
<1>2. TypeOK /\ [Next]_vars => TypeOK'
  BY StepType
<1> QED BY <1>1, <1>2, PTL DEF Spec

-----------------------------------------------------------------------------
(* Rows.                                                                   *)

(* A row with an outcome keeps it, and no row becomes running.             *)
NoRowStarts ==
  \A j \in Jobs : /\ row[j] \in Settled => row'[j] = row[j]
                  /\ row'[j] = "running" => row[j] = "running"

(* Only a claim makes a job run: whoever else writes the row looks whether *)
(* the job still runs, in the same statement.                              *)
LEMMA OnlyClaimsStart ==
  ASSUME TypeOK, [Next]_vars, ~ClaimNextQueued
  PROVE  NoRowStarts
<1>1. ASSUME NEW j \in Jobs, AddJob(j) PROVE NoRowStarts
  BY <1>1 DEF AddJob, NoRowStarts, TypeOK, Settled, SettledRow
<1>2. ASSUME NEW j \in Jobs, RequeueRefused(j) PROVE NoRowStarts
  BY <1>2 DEF RequeueRefused, NoRowStarts, TypeOK, Settled, SettledRow
<1>3. ASSUME NEW j \in Jobs, SettleJob(j) PROVE NoRowStarts
  BY <1>3 DEF SettleJob, NoRowStarts, TypeOK, Settled, SettledRow
<1>4. ASSUME NEW j \in Jobs, RemoveQueued(j) PROVE NoRowStarts
  BY <1>4 DEF RemoveQueued, NoRowStarts, TypeOK, Settled, SettledRow
<1>5. ASSUME NEW j \in Jobs, SettleStopped(j) PROVE NoRowStarts
  BY <1>5 DEF SettleStopped, NoRowStarts, TypeOK, Settled, SettledRow
<1>6. ASSUME NEW j \in Jobs, ActOn(j) PROVE NoRowStarts
  BY <1>6 DEF ActOn, NoRowStarts, TypeOK, Settled, SettledRow
<1>7. ASSUME NEW j \in Jobs, Watch(j) PROVE NoRowStarts
  BY <1>7 DEF Watch, NoRowStarts, TypeOK, Settled, SettledRow, OutcomeOf
<1>8. ASSUME row' = row PROVE NoRowStarts
  BY <1>8 DEF NoRowStarts
<1>9. CASE UNCHANGED vars
  BY <1>8, <1>9 DEF vars, Stored
<1>10. ASSUME NEW j \in Jobs, RunJob(j) PROVE NoRowStarts
  BY <1>2, <1>3, <1>8, <1>10
     DEF RunJob, Stored, ReserveSlot, CheckWanted, StillWanted, BuildRefused, BeginRun,
         WritePage, CreateTask, CreateFails, SaveTask, SaveTaskFails, FollowAborted, FollowFails,
         FollowDelivered, CollectResult, ReleaseSlot, ReleaseSlotFails, ReadOutcome,
         SettleJobFails, StopLeftover
<1>11. ASSUME NEW j \in Jobs, AskStop(j) \/ StopJob(j) PROVE NoRowStarts
  BY <1>4, <1>5, <1>8, <1>11
     DEF StopJob, Stored, AskStop, DeleteVersion, RereadJob, AbortBuild, StopTask,
         SaveStopped, LeaveStop
<1>12. ASSUME NEW j \in Jobs, SweepJob(j) \/ Watch(j) PROVE NoRowStarts
  BY <1>6, <1>7, <1>8, <1>12 DEF SweepJob, Stored, PickUp, Decide, Resume
<1>13. ASSUME NEW j \in Jobs, Start(j) \/ StartInFlight(j) \/ AgentDelivers(j)
     PROVE  NoRowStarts
  BY <1>8, <1>13 DEF Start, StartInFlight, AgentDelivers, Stored
<1>14. CASE RetryTimer \/ ListRunning \/ EndSweep \/ HoldExpires
  BY <1>8, <1>14 DEF RetryTimer, ListRunning, EndSweep, HoldExpires, Stored
<1>15. CASE OutsideStarts \/ OutsideEnds \/ Crash
  BY <1>8, <1>15 DEF OutsideStarts, OutsideEnds, Crash, Stored
<1> QED BY <1>1, <1>9, <1>10, <1>11, <1>12, <1>13, <1>14, <1>15 DEF Next

LEMMA StepLimited ==
  ASSUME TypeOK, RunningWithinLimit, [Next]_vars
  PROVE  RunningWithinLimit'
<1> DEFINE running == RowsIn("running")
<1>1. running \in SUBSET Jobs /\ running' \in SUBSET Jobs
  BY DEF RowsIn
<1>2. IsFiniteSet(running) /\ Cardinality(running) \in Nat /\ Cardinality(running') \in Nat
  BY <1>1, SomeJobs
<1>3. CASE running' \subseteq running
  BY <1>2, <1>3, FS_Subset, Positive DEF RunningWithinLimit
<1>4. CASE ClaimNextQueued /\ Claimable
  <2>1. PICK j \in Jobs : row[j] = "queued" /\ row' = [row EXCEPT ![j] = "running"]
    BY <1>4, ClaimTakesOne
  <2>2. running' = running \cup {j}
    BY <2>1 DEF RowsIn, TypeOK
  <2>3. Cardinality(running') <= Cardinality(running) + 1
    BY <1>2, <2>2, FS_AddElement
  <2> QED BY <1>2, <1>4, <2>3, ClaimTakesOne, Positive DEF RunningWithinLimit
<1>5. CASE ~ClaimNextQueued
  BY <1>3, <1>5, OnlyClaimsStart DEF NoRowStarts, RowsIn
<1>6. CASE ClaimNextQueued /\ ~Claimable
  BY <1>3, <1>6, NothingClaimed DEF RowsIn
<1> QED BY <1>4, <1>5, <1>6

(* Never more running jobs than the limit: a claim counts them, and        *)
(* nothing else makes a job run, whatever it was decided on.               *)
THEOREM RunningLimited == Spec => []RunningWithinLimit
<1>1. Init => RunningWithinLimit
  <2>1. SUFFICES ASSUME Init PROVE RunningWithinLimit
    OBVIOUS
  <2>2. RowsIn("running") = {}
    BY <2>1 DEF Init, RowsIn
  <2> QED BY <2>2, FS_EmptySet, Positive DEF RunningWithinLimit
<1>2. TypeOK /\ RunningWithinLimit /\ [Next]_vars => RunningWithinLimit'
  BY StepLimited
<1> QED BY <1>1, <1>2, TypeCorrect, PTL DEF Spec

LEMMA RowsKept ==
  ASSUME TypeOK, [Next]_vars
  PROVE  \A j \in Jobs : row[j] \in Settled => row'[j] = row[j]
<1>1. CASE ~ClaimNextQueued
  BY <1>1, OnlyClaimsStart DEF NoRowStarts
<1>2. CASE ClaimNextQueued /\ Claimable
  BY <1>2, ClaimTakesOne DEF TypeOK, Settled
<1>3. CASE ClaimNextQueued /\ ~Claimable
  BY <1>3, NothingClaimed
<1> QED BY <1>1, <1>2, <1>3

(* A recorded outcome is never overwritten by a run that settles late, a   *)
(* watch, a sweep or a claim.                                              *)
THEOREM OutcomesKept == Spec => OutcomesStay
<1>1. TypeOK /\ [Next]_vars => [\A j \in Jobs : row[j] \in Settled => row'[j] = row[j]]_vars
  BY RowsKept
<1> QED BY <1>1, TypeCorrect, PTL DEF Spec, OutcomesStay

-----------------------------------------------------------------------------
(* Finished jobs.  That a finish is never taken back rests on who may      *)
(* write the page of a job: only the build that has the job in flight, or  *)
(* somebody who has seen it stopped.                                       *)

(* A follow resumed by a sweep has no hold; any other run is a claim's.    *)
Resumed(j) == worker[j] \in {"following", "collecting"} /\ ~hold[j]
Runs(j) == worker[j] # "idle" /\ ~Resumed(j)
Held == {"picked", "requeue", "resume"} \cup Settled

(* Only one of a run, a sweep and a watch has the job in flight.           *)
OneOwner(j) ==
  /\ Runs(j) => j \in inFlight /\ pickup[j] \notin Held /\ j \notin watched
  /\ pickup[j] \in Held => j \in inFlight /\ j \notin watched
  /\ j \in watched => j \in inFlight
  /\ Resumed(j) /\ row[j] = "running" => j \in watched

(* The hold is the run's, from its reservation to its release.             *)
HoldInRun(j) ==
  /\ hold[j] => worker[j] \in {"reserved", "wanted", "begun", "sending", "created",
                               "following", "collecting", "returned", "threw"}
  /\ worker[j] \in {"reserved", "wanted", "begun", "sending", "created"} => hold[j]

(* While a page is written its job is running, or has not finished.        *)
BuildOpen(j) ==
  /\ worker[j] \in {"wanted", "begun"} => row[j] \in {"running", "stopped"}
  /\ worker[j] \in {"sending", "created", "following", "collecting"} =>
       \/ row[j] \in {"stopped", "failed"}
       \/ row[j] = "running" /\ page[j].status = "pending"
  /\ stopping[j] \in {"reading", "aborting", "saving", "leaving"} => row[j] = "stopped"

(* A job whose page names a task is followed or waits for a sweep to       *)
(* resume it: nobody starts it again.                                      *)
TaskFollowed(j) ==
  /\ aborted[j] => row[j] = "stopped"
  /\ page[j].status = "pending" /\ page[j].task /\ row[j] \notin Settled =>
       /\ row[j] = "running" /\ worker[j] \in {"idle", "following", "collecting"}
       /\ pickup[j] # "requeue"
       /\ j \in claimed => j \in inFlight

(* A finish decided on, or recorded, has its page.                         *)
FinishBacked(j) ==
  /\ row[j] \notin {"stopped", "failed"} /\ "finished" \in {worker[j], pickup[j]} =>
       page[j].status = "completed"
  /\ row[j] = "finished" => page[j].status = "completed"

FinishInv ==
  \A j \in Jobs :
    OneOwner(j) /\ HoldInRun(j) /\ BuildOpen(j) /\ TaskFollowed(j) /\ FinishBacked(j)

(* Every action keeps the ownership, and with it the page of a finish.     *)
LEMMA StepFinish ==
  ASSUME TypeOK, FinishInv, [Next]_vars
  PROVE  FinishInv'
<1> USE DEF Stored, Slots, Dispatching, Sweeper, Given, Settled, Goes, Ends, Stops,
SettledRow,
            FailedPage, AfterFollow, OutcomeOf, Decision,
            FinishInv, OneOwner, HoldInRun, BuildOpen, TaskFollowed, FinishBacked,
            Resumed, Runs, Held
<1>1. ASSUME NEW j \in Jobs, AddJob(j) PROVE FinishInv'
  BY <1>1 DEF AddJob, TypeOK
<1>2. ASSUME NEW j \in Jobs, Start(j) PROVE FinishInv'
  BY <1>2 DEF Start, TypeOK
<1>3. ASSUME NEW j \in Jobs, StartInFlight(j) PROVE FinishInv'
  BY <1>3 DEF StartInFlight, TypeOK
<1>4. ASSUME NEW j \in Jobs, NEW result \in {"ok", "refused", "unfunded"}, ReserveSlot(j, result)
     PROVE  FinishInv'
  <2>1. /\ worker[j] = "starting" /\ ~hold[j]
        /\ UNCHANGED <<row, page, stopping, inFlight, pickup, watched, aborted, claimed>>
    BY <1>4 DEF ReserveSlot
  <2>2. CASE result = "ok"
    <3>1. worker' = [worker EXCEPT ![j] = "reserved"] /\ hold' = [hold EXCEPT ![j] = TRUE]
      BY <1>4, <2>2 DEF ReserveSlot
    <3> QED BY <2>1, <3>1 DEF TypeOK
  <2>3. CASE result = "refused"
    BY <1>4, <2>1, <2>3 DEF ReserveSlot, TypeOK
  <2>4. CASE result = "unfunded"
    BY <1>4, <2>1, <2>4 DEF ReserveSlot, TypeOK
  <2> QED BY <2>2, <2>3, <2>4
<1>5. ASSUME NEW j \in Jobs, RequeueRefused(j) PROVE FinishInv'
  BY <1>5 DEF RequeueRefused, TypeOK
<1>6. ASSUME NEW j \in Jobs, CheckWanted(j) PROVE FinishInv'
  BY <1>6 DEF CheckWanted, TypeOK
<1>7. ASSUME NEW j \in Jobs, StillWanted(j) PROVE FinishInv'
  BY <1>7 DEF StillWanted, TypeOK
<1>8. ASSUME NEW j \in Jobs, BuildRefused(j) PROVE FinishInv'
  BY <1>8 DEF BuildRefused, TypeOK
<1>9. ASSUME NEW j \in Jobs, BeginRun(j) PROVE FinishInv'
  BY <1>9 DEF BeginRun, TypeOK
<1>10. ASSUME NEW j \in Jobs, WritePage(j) PROVE FinishInv'
  BY <1>10 DEF WritePage, TypeOK
<1>11. ASSUME NEW j \in Jobs, CreateTask(j) PROVE FinishInv'
  BY <1>11 DEF CreateTask, TypeOK
<1>12. ASSUME NEW j \in Jobs, CreateFails(j) PROVE FinishInv'
  BY <1>12 DEF CreateFails, TypeOK, Fault
<1>13. ASSUME NEW j \in Jobs, SaveTask(j) PROVE FinishInv'
  BY <1>13 DEF SaveTask, TypeOK
<1>14. ASSUME NEW j \in Jobs, FollowAborted(j) PROVE FinishInv'
  BY <1>14 DEF FollowAborted, TypeOK
<1>15. ASSUME NEW j \in Jobs, FollowFails(j) PROVE FinishInv'
  <2>1. page'[j].status = "failed" /\ \A k \in Jobs : k # j => page'[k] = page[k]
    BY <1>15 DEF FollowFails, TypeOK
  <2>2. /\ worker[j] = "following" /\ row[j] # "finished"
        /\ worker' = [worker EXCEPT ![j] = IF hold[j] THEN "returned" ELSE "idle"]
        /\ UNCHANGED <<row, hold, stopping, inFlight, pickup, watched, aborted, claimed>>
    BY <1>15 DEF FollowFails
  <2>3. CASE hold[j]
    BY <2>1, <2>2, <2>3 DEF TypeOK
  <2>4. CASE ~hold[j]
    BY <2>1, <2>2, <2>4 DEF TypeOK
  <2> QED BY <2>3, <2>4
<1>16. ASSUME NEW j \in Jobs, FollowDelivered(j) PROVE FinishInv'
  BY <1>16 DEF FollowDelivered, TypeOK
<1>17. ASSUME NEW j \in Jobs, CollectResult(j) PROVE FinishInv'
  BY <1>17 DEF CollectResult, TypeOK
<1>18. ASSUME NEW j \in Jobs, ReleaseSlot(j) PROVE FinishInv'
  BY <1>18 DEF ReleaseSlot, TypeOK
<1>19. ASSUME NEW j \in Jobs, ReleaseSlotFails(j) PROVE FinishInv'
  BY <1>19 DEF ReleaseSlotFails, TypeOK, Fault
<1>20. ASSUME NEW j \in Jobs, ReadOutcome(j) PROVE FinishInv'
  BY <1>20 DEF ReadOutcome, TypeOK
<1>21. ASSUME NEW j \in Jobs, SettleJob(j) PROVE FinishInv'
  BY <1>21 DEF SettleJob, TypeOK
<1>22. ASSUME NEW j \in Jobs, SettleJobFails(j) PROVE FinishInv'
  BY <1>22 DEF SettleJobFails, TypeOK, Fault
<1>23. ASSUME NEW j \in Jobs, StopLeftover(j) PROVE FinishInv'
  BY <1>23 DEF StopLeftover, TypeOK
<1>24. ASSUME NEW j \in Jobs, AskStop(j) PROVE FinishInv'
  BY <1>24 DEF AskStop, TypeOK
<1>25. ASSUME NEW j \in Jobs, RemoveQueued(j) PROVE FinishInv'
  BY <1>25 DEF RemoveQueued, TypeOK
<1>26. ASSUME NEW j \in Jobs, DeleteVersion(j) PROVE FinishInv'
  BY <1>26 DEF DeleteVersion, TypeOK
<1>27. ASSUME NEW j \in Jobs, RereadJob(j) PROVE FinishInv'
  BY <1>27 DEF RereadJob, TypeOK
<1>28. ASSUME NEW j \in Jobs, SettleStopped(j) PROVE FinishInv'
  BY <1>28 DEF SettleStopped, TypeOK
<1>29. ASSUME NEW j \in Jobs, AbortBuild(j) PROVE FinishInv'
  BY <1>29 DEF AbortBuild, TypeOK
<1>30. ASSUME NEW j \in Jobs, StopTask(j) PROVE FinishInv'
  BY <1>30 DEF StopTask, TypeOK
<1>31. ASSUME NEW j \in Jobs, SaveStopped(j) PROVE FinishInv'
  BY <1>31 DEF SaveStopped, TypeOK
<1>32. ASSUME NEW j \in Jobs, LeaveStop(j) PROVE FinishInv'
  BY <1>32 DEF LeaveStop, TypeOK
<1>33. ASSUME NEW j \in Jobs, PickUp(j) PROVE FinishInv'
  BY <1>33 DEF PickUp, TypeOK
<1>34. ASSUME NEW j \in Jobs, Decide(j) PROVE FinishInv'
  BY <1>34 DEF Decide, TypeOK
<1>35. ASSUME NEW j \in Jobs, ActOn(j) PROVE FinishInv'
  BY <1>35 DEF ActOn, TypeOK
<1>36. ASSUME NEW j \in Jobs, Resume(j) PROVE FinishInv'
  <2>1. CASE page[j].status = "pending" /\ page[j].task /\ worker[j] = "idle"
    <3>1. ~hold[j]
      BY <2>1
    <3>2. /\ worker' = [worker EXCEPT ![j] = "following"] /\ hold' = hold
          /\ pickup' = [pickup EXCEPT ![j] = "idle"] /\ watched' = watched \cup {j}
          /\ pickup[j] = "resume" /\ UNCHANGED <<row, page, stopping, inFlight>>
      BY <1>36, <2>1 DEF Resume
    <3>3. /\ worker'[j] = "following" /\ ~hold'[j] /\ pickup'[j] = "idle" /\ j \in watched'
      BY <3>1, <3>2 DEF TypeOK
    <3>4. OneOwner(j)' /\ HoldInRun(j)'
      BY <3>2, <3>3
    <3>5. row[j] \in Settled \cup {"running"} /\ row[j] # "finished"
      BY <2>1, <3>2
    <3>6. BuildOpen(j)'
      BY <2>1, <3>2, <3>3, <3>5
    <3>7. aborted' = [aborted EXCEPT ![j] = FALSE] /\ UNCHANGED claimed
      BY <1>36, <2>1 DEF Resume
    <3>8. TaskFollowed(j)' /\ FinishBacked(j)'
      BY <2>1, <3>2, <3>3, <3>5, <3>7 DEF TypeOK
    <3> QED BY <3>2, <3>4, <3>6, <3>7, <3>8 DEF TypeOK
  <2>2. CASE ~(page[j].status = "pending" /\ page[j].task /\ worker[j] = "idle")
    BY <1>36, <2>2 DEF Resume, TypeOK
  <2> QED BY <2>1, <2>2
<1>37. ASSUME NEW j \in Jobs, Watch(j) PROVE FinishInv'
  BY <1>37 DEF Watch, TypeOK
<1>38. ASSUME NEW j \in Jobs, AgentDelivers(j) PROVE FinishInv'
  BY <1>38 DEF AgentDelivers, TypeOK
<1>39. ASSUME ClaimNextQueued PROVE FinishInv'
  <2>1. UNCHANGED <<page, hold, worker, stopping, pickup, watched, inFlight, aborted>>
    BY <1>39 DEF ClaimNextQueued
  <2>2. CASE Claimable
    <3>1. PICK j \in Jobs : /\ row[j] = "queued" /\ row' = [row EXCEPT ![j] = "running"]
                           /\ claimed' = claimed \cup {j}
      BY <1>39, <2>2, ClaimTakesOne
    <3> QED BY <2>1, <3>1 DEF TypeOK
  <2>3. CASE ~Claimable
    BY <1>39, <2>1, <2>3, NothingClaimed
  <2> QED BY <2>2, <2>3
<1>40. ASSUME RetryTimer PROVE FinishInv'
  BY <1>40 DEF RetryTimer, TypeOK
<1>41. ASSUME ListRunning PROVE FinishInv'
  BY <1>41 DEF ListRunning, TypeOK
<1>42. ASSUME EndSweep PROVE FinishInv'
  BY <1>42 DEF EndSweep, TypeOK
<1>43. ASSUME HoldExpires PROVE FinishInv'
  BY <1>43 DEF HoldExpires, TypeOK
<1>44. ASSUME OutsideStarts PROVE FinishInv'
  BY <1>44 DEF OutsideStarts, TypeOK
<1>45. ASSUME OutsideEnds PROVE FinishInv'
  BY <1>45 DEF OutsideEnds, TypeOK
<1>46. ASSUME Crash PROVE FinishInv'
  BY <1>46 DEF Crash, TypeOK, Fault
<1>47. CASE UNCHANGED vars
  BY <1>47 DEF vars
<1>48. ASSUME NEW j \in Jobs, SaveTaskFails(j) PROVE FinishInv'
  BY <1>48 DEF SaveTaskFails, TypeOK, Fault
<1> QED
  BY <1>1, <1>2, <1>3, <1>4, <1>5, <1>6, <1>7, <1>8, <1>9, <1>10, <1>11, <1>12, <1>13,
     <1>14, <1>15, <1>16, <1>17, <1>18, <1>19, <1>20, <1>21, <1>22, <1>23, <1>24,
     <1>25, <1>26, <1>27, <1>28, <1>29, <1>30, <1>31, <1>32, <1>33, <1>34, <1>35,
     <1>36, <1>37, <1>38, <1>39, <1>40, <1>41, <1>42, <1>43, <1>44, <1>45, <1>46,
     <1>47, <1>48
  DEF Next, RunJob, StopJob, SweepJob

(* A finished job has its page for ever: no late write of a stop, a failed *)
(* build or a resumed follow replaces it.                                  *)
THEOREM FinishedHaveTheirPage == Spec => []FinishedJobsHaveTheirPage
<1>1. Init => FinishInv
  BY DEF Init, FinishInv, OneOwner, HoldInRun, BuildOpen, TaskFollowed, FinishBacked, 
         Resumed, Runs, Held, Settled
<1>2. TypeOK /\ FinishInv /\ [Next]_vars => FinishInv'
  BY StepFinish
<1>3. FinishInv => FinishedJobsHaveTheirPage
  BY DEF FinishInv, FinishBacked, FinishedJobsHaveTheirPage
<1> QED BY <1>1, <1>2, <1>3, TypeCorrect, PTL DEF Spec

-----------------------------------------------------------------------------
(* Tasks.                                                                  *)

(* A task at work that no failure left there is one being saved, the one   *)
(* the page of the job names, or one of a job with an outcome; none is at  *)
(* work where a build is about to create one.                              *)
TaskKnown(j) ==
  task[j] = "working" /\ j \notin missed =>
    /\ \/ worker[j] = "created"
       \/ page[j].status = "pending" /\ page[j].task
       \/ row[j] \in Settled
    /\ worker[j] \notin {"wanted", "begun", "sending", "collecting"}

TaskInv == \A j \in Jobs : TaskKnown(j)

(* Every action keeps what is known of the tasks.                         *)
LEMMA StepTask ==
  ASSUME TypeOK, FinishInv, TaskInv, [Next]_vars
  PROVE  TaskInv'
<1> SUFFICES ASSUME NEW k \in Jobs PROVE TaskKnown(k)'
  BY DEF TaskInv
<1> USE DEF Stored, Slots, Dispatching, Sweeper, Given, Goes, Ends, Stops, SettledRow,
            FailedPage, AfterFollow, TypeOK, Fault, Settled,
            TaskInv, TaskKnown, BuildOpen, TaskFollowed
<1>0. /\ TaskKnown(k) /\ BuildOpen(k) /\ TaskFollowed(k)
      /\ row[k] \in Settled => row'[k] = row[k]
  BY RowsKept DEF FinishInv
<1>1. ASSUME NEW j \in Jobs, AddJob(j) PROVE TaskKnown(k)'
  BY <1>0, <1>1 DEF AddJob
<1>2. ASSUME NEW j \in Jobs, Start(j) PROVE TaskKnown(k)'
  <2>1. /\ worker' = [worker EXCEPT ![j] = "starting"]
        /\ row' = row /\ page' = page /\ task' = task /\ missed' = missed
    BY <1>2 DEF Start, Stored, Given
  <2>2. worker[j] = "idle" \/ Resumed(j)
    BY <1>2, <2>1 DEF Start, FinishInv, OneOwner, Runs
  <2> QED BY <1>0, <2>1, <2>2 DEF TaskKnown, TypeOK, Resumed
<1>3. ASSUME NEW j \in Jobs, StartInFlight(j) PROVE TaskKnown(k)'
  BY <1>0, <1>3 DEF StartInFlight
<1>4. ASSUME NEW j \in Jobs, RequeueRefused(j) PROVE TaskKnown(k)'
  BY <1>0, <1>4 DEF RequeueRefused
<1>5. ASSUME NEW j \in Jobs, CheckWanted(j) PROVE TaskKnown(k)'
  BY <1>0, <1>5 DEF CheckWanted
<1>6. ASSUME NEW j \in Jobs, StillWanted(j) PROVE TaskKnown(k)'
  BY <1>0, <1>6 DEF StillWanted
<1>7. ASSUME NEW j \in Jobs, BuildRefused(j) PROVE TaskKnown(k)'
  BY <1>0, <1>7 DEF BuildRefused
<1>8. ASSUME NEW j \in Jobs, BeginRun(j) PROVE TaskKnown(k)'
  BY <1>0, <1>8 DEF BeginRun, EndTask
<1>9. ASSUME NEW j \in Jobs, WritePage(j) PROVE TaskKnown(k)'
  BY <1>0, <1>9 DEF WritePage
<1>10. ASSUME NEW j \in Jobs, CreateTask(j) PROVE TaskKnown(k)'
  BY <1>0, <1>10 DEF CreateTask
<1>11. ASSUME NEW j \in Jobs, CreateFails(j) PROVE TaskKnown(k)'
  BY <1>0, <1>11 DEF CreateFails
<1>12. ASSUME NEW j \in Jobs, SaveTask(j) PROVE TaskKnown(k)'
  BY <1>0, <1>12 DEF SaveTask
<1>13. ASSUME NEW j \in Jobs, FollowAborted(j) PROVE TaskKnown(k)'
  BY <1>0, <1>13 DEF FollowAborted
<1>14. ASSUME NEW j \in Jobs, FollowFails(j) PROVE TaskKnown(k)'
  BY <1>0, <1>14 DEF FollowFails, EndTask
<1>15. ASSUME NEW j \in Jobs, FollowDelivered(j) PROVE TaskKnown(k)'
  BY <1>0, <1>15 DEF FollowDelivered
<1>16. ASSUME NEW j \in Jobs, CollectResult(j) PROVE TaskKnown(k)'
  BY <1>0, <1>16 DEF CollectResult
<1>17. ASSUME NEW j \in Jobs, ReleaseSlot(j) PROVE TaskKnown(k)'
  BY <1>0, <1>17 DEF ReleaseSlot
<1>18. ASSUME NEW j \in Jobs, ReleaseSlotFails(j) PROVE TaskKnown(k)'
  BY <1>0, <1>18 DEF ReleaseSlotFails
<1>19. ASSUME NEW j \in Jobs, ReadOutcome(j) PROVE TaskKnown(k)'
  <2>1. /\ row' = row /\ page' = page /\ task' = task /\ missed' = missed
        /\ worker[j] = "reading"
        /\ worker' = [worker EXCEPT ![j] = IF OutcomeOf(page[j]) = "none" THEN "stopped"
                                          ELSE OutcomeOf(page[j])]
    BY <1>19 DEF ReadOutcome, Goes, Stored, Given
  <2>2. OutcomeOf(page[j]) \in {"none", "finished", "failed"}
    BY DEF OutcomeOf
  <2>3. worker'[j] \in Settled /\ \A i \in Jobs : i # j => worker'[i] = worker[i]
    BY <2>1, <2>2 DEF TypeOK
  <2> QED BY <1>0, <2>1, <2>3 DEF TaskKnown
<1>20. ASSUME NEW j \in Jobs, SettleJob(j) PROVE TaskKnown(k)'
  BY <1>0, <1>20 DEF SettleJob
<1>21. ASSUME NEW j \in Jobs, SettleJobFails(j) PROVE TaskKnown(k)'
  BY <1>0, <1>21 DEF SettleJobFails
<1>22. ASSUME NEW j \in Jobs, StopLeftover(j) PROVE TaskKnown(k)'
  BY <1>0, <1>22 DEF StopLeftover, EndTask
<1>23. ASSUME NEW j \in Jobs, AskStop(j) PROVE TaskKnown(k)'
  BY <1>0, <1>23 DEF AskStop
<1>24. ASSUME NEW j \in Jobs, RemoveQueued(j) PROVE TaskKnown(k)'
  BY <1>0, <1>24 DEF RemoveQueued
<1>25. ASSUME NEW j \in Jobs, DeleteVersion(j) PROVE TaskKnown(k)'
  BY <1>0, <1>25 DEF DeleteVersion
<1>26. ASSUME NEW j \in Jobs, RereadJob(j) PROVE TaskKnown(k)'
  BY <1>0, <1>26 DEF RereadJob
<1>27. ASSUME NEW j \in Jobs, SettleStopped(j) PROVE TaskKnown(k)'
  BY <1>0, <1>27 DEF SettleStopped
<1>28. ASSUME NEW j \in Jobs, AbortBuild(j) PROVE TaskKnown(k)'
  BY <1>0, <1>28 DEF AbortBuild
<1>29. ASSUME NEW j \in Jobs, StopTask(j) PROVE TaskKnown(k)'
  BY <1>0, <1>29 DEF StopTask, EndTask
<1>30. ASSUME NEW j \in Jobs, SaveStopped(j) PROVE TaskKnown(k)'
  BY <1>0, <1>30 DEF SaveStopped
<1>31. ASSUME NEW j \in Jobs, LeaveStop(j) PROVE TaskKnown(k)'
  BY <1>0, <1>31 DEF LeaveStop
<1>32. ASSUME NEW j \in Jobs, PickUp(j) PROVE TaskKnown(k)'
  BY <1>0, <1>32 DEF PickUp
<1>33. ASSUME NEW j \in Jobs, Decide(j) PROVE TaskKnown(k)'
  BY <1>0, <1>33 DEF Decide
<1>34. ASSUME NEW j \in Jobs, ActOn(j) PROVE TaskKnown(k)'
  BY <1>0, <1>34 DEF ActOn
<1>35. ASSUME NEW j \in Jobs, Resume(j) PROVE TaskKnown(k)'
  BY <1>0, <1>35 DEF Resume
<1>36. ASSUME NEW j \in Jobs, Watch(j) PROVE TaskKnown(k)'
  BY <1>0, <1>36 DEF Watch
<1>37. ASSUME NEW j \in Jobs, AgentDelivers(j) PROVE TaskKnown(k)'
  BY <1>0, <1>37 DEF AgentDelivers
<1>38. ASSUME NEW j \in Jobs, NEW r \in {"ok", "refused", "unfunded"}, ReserveSlot(j, r)
     PROVE  TaskKnown(k)'
  BY <1>0, <1>38 DEF ReserveSlot
<1>39. ASSUME RetryTimer PROVE TaskKnown(k)'
  BY <1>0, <1>39 DEF RetryTimer
<1>40. ASSUME ListRunning PROVE TaskKnown(k)'
  BY <1>0, <1>40 DEF ListRunning
<1>41. ASSUME EndSweep PROVE TaskKnown(k)'
  BY <1>0, <1>41 DEF EndSweep
<1>42. ASSUME HoldExpires PROVE TaskKnown(k)'
  BY <1>0, <1>42 DEF HoldExpires
<1>43. ASSUME OutsideStarts PROVE TaskKnown(k)'
  BY <1>0, <1>43 DEF OutsideStarts
<1>44. ASSUME OutsideEnds PROVE TaskKnown(k)'
  BY <1>0, <1>44 DEF OutsideEnds
<1>45. ASSUME Crash PROVE TaskKnown(k)'
  BY <1>0, <1>45 DEF Crash
<1>46. ASSUME ClaimNextQueued PROVE TaskKnown(k)'
  BY <1>0, <1>46 DEF ClaimNextQueued
<1>47. CASE UNCHANGED vars
  BY <1>0, <1>47 DEF vars
<1>48. ASSUME NEW j \in Jobs, SaveTaskFails(j) PROVE TaskKnown(k)'
  BY <1>0, <1>48 DEF SaveTaskFails
<1> QED
    BY <1>1, <1>2, <1>3, <1>4, <1>5, <1>6, <1>7, <1>8, <1>9, <1>10, <1>11, <1>12, <1>13, <1>14,
     <1>15, <1>16, <1>17, <1>18, <1>19, <1>20, <1>21, <1>22, <1>23, <1>24, <1>25, <1>26, <1>27,
     <1>28, <1>29, <1>30, <1>31, <1>32, <1>33, <1>34, <1>35, <1>36, <1>37, <1>38, <1>39, <1>40,
     <1>41, <1>42, <1>43, <1>44, <1>45, <1>46, <1>47, <1>48
  DEF Next, RunJob, StopJob, SweepJob

(* runJob, runBillable, beginRun, sweepRecreateQueue and resume: no build  *)
(* creates a task while another one of its job is at work, whoever the job *)
(* was handed to in between and whenever it was stopped, unless a failure  *)
(* left that other one at work.                                            *)
THEOREM TasksOneAtATime == Spec => OneTaskAtATime
<1>1. Init => FinishInv
  BY DEF Init, FinishInv, OneOwner, HoldInRun, BuildOpen, TaskFollowed, FinishBacked,
         Resumed, Runs, Held, Settled
<1>2. Init => TaskInv
  BY DEF Init, TaskInv, TaskKnown
<1>3. TypeOK /\ FinishInv /\ [Next]_vars => FinishInv'
  BY StepFinish
<1>4. TypeOK /\ FinishInv /\ TaskInv /\ [Next]_vars => TaskInv'
  BY StepTask
<1>5. TaskInv => [\A j \in Jobs : worker[j] = "sending" /\ worker'[j] = "created" =>
                                   task[j] # "working" \/ j \in missed]_vars
  BY DEF TaskInv, TaskKnown
<1> QED BY <1>1, <1>2, <1>3, <1>4, <1>5, TypeCorrect, PTL DEF Spec, OneTaskAtATime
=============================================================================
