# AdRival: formal models

AdRival is a Next.js/TypeScript application over Postgres that researches a
competitor's ads and landing pages and rebuilds pages with a design agent. Every
external request it makes for a user costs credits. This directory holds TLA+
models of its core, the TLC instances that check them, and TLAPS proofs.
Paths below are relative to the repository (`src/lib/...`, `docs/...`).

## 1. Inventory

| Component | State it keeps | Operations | What is hard |
|---|---|---|---|
| Credit books: `lib/data/accountingService.ts`, `credits.ts` | `credit_periods` (allowance, consumed, reserved), `credit_reservations`, `provider_calls`, `credit_ledger` | open and roll a period, allowance, adjustment, cadence, recover, reserve, heartbeat, extend, top up, release, settle, reconcile | one transaction may recover other holds, roll the month and then do its own work; a settlement can arrive after the month or its reservation ended |
| Billable runs and metered calls: `lib/accounting/{run,meter,context}.ts`, `lib/manus/usage.ts` | the hold of a run and its calls in flight (in memory), the books | `runBillable`, `meterProviderCall`, `recordIncurredUsage` | parallel calls share one hold; timeouts, crashes, a sweep under a live call, an error between answer and settlement |
| Recreate queue: `lib/pipeline/recreateQueue.ts`, `lib/data/recreateJobs.ts`, builds in `lib/pipeline/manus/run.ts` | `recreate_jobs`, the page of each version, `inFlight` and retry timers, the agent's tasks | add, dispatch and claim, run, requeue, stop, sweep, resume, watch | stop against start, overlapping sweeps, restarts, results arriving after a stop |
| Runs repository: `lib/data/runs.ts`, `competitors.ts`, `lookups.ts` | jobs and their results, suppressed and deleted ids, serial write chains, progress throttle | write, report progress, stop, delete, resume, mark interrupted | a late write reviving a stopped or deleted run; two jobs on one run |
| Page archive: `lib/data/archive.ts`, `recreatedPages.ts` | heavy columns, claim and lease, object storage | claim, upload, read back, swap, release, read, update, delete, import | crash between upload and swap; rewrite or delete of a claimed page; an expired lease |
| Accounts: `lib/data/identity.ts`, `lib/auth/*`, admin routes | users, roles, organisations (sessions, invites) | create, sign up, change, delete, bootstrap | requests that decide from a row another one changes |
| Competitor searches: `lib/pipeline/{finder,googleSearch,manusSearch,searchRings}.ts` | queues of queries, budgets, rivals listed, held and rejected | search, widen, hold, release, review ahead or in parallel, fill, stop | reviews that finish late, at an old bar, or share the list; Stop and failures at any await |
| Backups: `lib/data/backup.ts` | folders of parts and manifests, advisory lock, timer | back up, prune, restore, schedule | two processes in one minute, pruning beside writing, failure half-way |
| Manus usage deltas: `lib/manus/usage.ts` | sum recorded per task | record a delta | the sum is read outside the recording transaction |
| Startup, migrations; spaces, authorization; offer reports and lookups; provider clients; import; UI and exports | rows or nothing of their own | | decisions over one row, sequences of calls, presentation |

How they interact. A pipeline (or the queue's `runJob`) runs inside
`runBillable`, which reserves credits in the books, puts the reservation in the
async context and releases it in a `finally`. Every provider client calls
`meterProviderCall`, which reads that context, tops the hold up, sends the
request and settles it. The queue learns from `TooManyConcurrentRunsError`
(books) that every slot is taken, from the page row how a build ended, and from
`inFlight` which jobs this process owns. A server start sweeps expired holds
and marks interrupted jobs; the queue is swept at start, every three minutes,
and whenever its list is read.

Searches, reviews and offer reports write their job through the runs repository
and ask it before each step whether the run was stopped. The archive moves pages
that the queue's builds and the user's edits write; deleting a run and importing
history delete archived objects after their commit.

What makes each correct: *books*: every balance is explained by its ledger, what
is reserved is what is held, nothing is charged twice, a hold is funded when it
grows; in sum, each user has a purse. *Runs*: how far a user can be overdrawn
and a run exceed its budget is bounded, holds come back, what was sent is
recorded. *Queue*: at most `limit` jobs run, outcomes stay, one task at a time,
every job ends, stopped work stops. *Runs repository*: no late write revives a
run or changes a stopped one, nothing stays running or under review without a
worker. *Archive*: a page's content is in its row or whole in the store, nobody
reads or writes back an old one. *Accounts*: an active administrator remains.
*Searches*: a rival is listed once, nearer ones first, nobody is rejected by a
bar that no longer holds, budgets are kept, the search ends. *Backups*: what
looks complete is, the newest stay, a restore that reports success is whole.

`PROJECT.json` lists every component with its status and every hazard at its
line.

## 2. Modules

| Module | Models | Extends |
|---|---|---|
| `Totals` | the sum over a finite set, as the size of a set, without recursion | |
| `CreditLedger` | the credit books | `Totals` |
| `CreditPurse` | what the books promise: one purse per user | `Totals` |
| `CreditRefinement` | the mapping of the books to the purses | `CreditLedger`, instance of `CreditPurse` |
| `MeteredRun` | runs and their metered calls over the books | `CreditLedger` |
| `RecreateQueue` | the recreate queue of one user | |
| `RunStore` | one run in the runs repository, its search, a later job, Stop and Delete | |
| `PageArchive` | one page between its row and the object store | |
| `Accounts` | the users table and the requests that change administrators | |
| `CompetitorSearch` | one Facebook or Instagram competitor search | |
| `GoogleSearch` | one Google or YouTube competitor search | |
| `Backups` | backups, retention, restore and schedule of several processes | |
| `CreditProofs` | proofs about sums, the books, the purses, and what runs do to them, in that order | `MeteredRun`, `CreditRefinement` |
| `SpendProofs` | proofs about what runs spend | `CreditProofs` |
| `RowProofs` | proofs about the page and the users table, whose requests read a row, wait and write it back | `PageArchive`, `Accounts` |
| `RecreateQueueProofs`, `RunStoreProofs`, `CompetitorSearchProofs`, `GoogleSearchProofs`, `BackupsProofs` | proofs about the module each is named after | |
| `MC...` | definitions for TLC (symmetry, sets of numbers, settings) | |

The components that share state are composed: `MeteredRun` changes the books
only through the actions of `CreditLedger`. The others meet at one fact each,
which both sides model: the queue counts open holds, a search asks whether its
run is suppressed, a build writes a page.

Operators marked `Fault:` are wrong variants of the definition after them; they
are used by no specification, only to confirm that the properties notice them.

### CreditLedger

`period`, `resv`, `call` and `ledger` are the tables; `account` is what
`users.role` and `users.status` permit; `carried` is a history variable: the
held credits that a monthly roll moved without a ledger row. Each exported
transaction of `accountingService.ts` takes the user's advisory key first, so
each is one atomic action. Inside a transaction the code composes helpers
(recover, ensure, roll, save); the model composes the same helpers as operators
on a record of the tables (`Recovered`, `Rolled`, `Ensured`, `Holding`,
`Extended`, `Closed`, `Recorded`), saved once by `Save`. Results the code
returns rather than throws are the `result` parameter of `ReserveCredits` and
`EnsureReservationHold`, each with the branch's condition as its guard.

Abstraction. Amounts are whole subunits. A timestamp is a flag the clock raises:
`reset = "due"` once `nextResetAt` has passed (`ResetFallsDue`), `lapsed` once
the 15-minute expiry has (`ReservationLapses`). The ledger is kept as sums of
deltas per period and row type. `extendReservation` has no caller in the
repository and is modelled all the same.

### MeteredRun

A run is named by its reservation, a call by its idempotency key. `run` says how
far `runBillable` is, `attempt` how far `meterProviderCall` is: authorized
(`PermitCall`), funded and sent (`HoldForCall`), answered (`ProviderAnswers`),
settled (`SettleCall`), each await a step. The books change only through the
actions of `CreditLedger`.

- `SettlementFails`: the settlement throws, with its transaction committed or
  not. For a successful answer the `catch` classifies the database error and
  settles the same key again; for a failed one the error leaves.
- `Rejects`: parallel calls are real (`Promise.all` in
  `lib/pipeline/landingPageAnalysis.ts:574` and `brandReview.ts`); when one
  throws, the run ends while its siblings go on.
- `HoldLapses`: with `LiveHoldsLapse`, also under a live call, since a
  client's timeouts and retries may together exceed 15 minutes.
- `Crash`: what is in memory is lost, the books stay. `Sweep` is the recovery at
  a start or in another run's `runBillable`.
- `RecordIncurredUsage`: what Manus reports after the fact, charged without a
  hold, also after its run returned.
- `ChangeAllowance`, `Grant`, `Correct`, `ChangeCadence`, `ChangeAccount`: what
  an administrator does meanwhile.

Three history variables say what a bound must count. `hand` is what cuts of the
allowance and corrections took from a user. `limited` are the users who were
never unlimited. `covered` are the calls out of whose hold no other settlement
has taken anything since they left.

An answer costs any member of `Costs`. A cost may exceed the ceiling held for
the call: `conversion.ts` expects 30 to 60 credits for a landing page against a
ceiling of 12, and the books bill the rest as overage. So the bounds of
`SpendBounded` assume nothing about costs. They count, in `ChargedUnheld`, the
part of each charge beyond the ceiling and all that Manus reports afterwards;
in the instances every successful call costs more than its ceiling.

Not in it: the arithmetic of the rate tables; reconciliation to amounts other
than all or nothing (the two choices of the route); the hold of a single call
outside any run (no entry point makes one).

### RecreateQueue

`row`, `page` and `task` are the job's row, its version's page and its task at
the agent; they survive `Crash`. `inFlight` and `retry` are `QueueState`;
`claimed` holds jobs between the commit of `claimNextQueued` and `start`;
`claims` is what is left of a dispatch pass. `worker`, `stopping` and `pickup`
are the program counters of `runJob` (with the part of `runManusRecreation`
that touches page and task), `stopRecreateJob` and a sweep; `aborted` is the
build's signal. `hold`, `orphans` and `outside` are the reservations that count
against the user's concurrency: this job's, a dead process's until it expires,
and a build's started on the page itself. A resumed follow is a worker with no
hold; `watch` follows it. Sweeps overlap (timer and list reads), so any running
job may be listed at any time; `inFlight` keeps two sweeps off one job.

Every request that stops the agent's task may fail (`EndTask`): the code drops
that error (`stopManusTask(...).catch(() => undefined)`) and goes on as if the
task had ended, so nobody asks again. So may the write that names a created
task (`SaveTaskFails`), the settlement of a job and the request that stops one.
Each such fault is counted by `faults`, as is a crash. `missed` is a history
variable: the jobs whose task such a failure, or a crash in the middle of a stop
or a build that was stopped, may have left at work.

`StopLeftover` and `FailedPage` merge a read with the write after it. Edits,
questions to the user, image fixes and the reading of other websites are left
out except for their outcomes.

### CreditPurse and CreditRefinement

A user has an allowance, what was spent and holds; no months, tables or ledger.
A hold may grow only within what is free, a new month forgets only what was
spent, abandoned holds end at the start of a step. The mapping reads the purse
off the user's current period; a user without one has an empty purse.

### RunStore

`row`, `stored` and `tomb` are the database; `chain` is the serial chain of the
run, `throttle` its pending progress, `suppressed` its place in the suppressed
set. `search` and `second` are the program counters of the search and of one
later job, a brand review or an offers report; each holds its own `object`, as
the pipelines do, and a write on the chain stores what that object holds when
its transaction runs (`WriteLands`), unless the run was stopped or deleted
(`Refused`). `PressStop` and `PressDelete` are the requests, `StopCommits` and
`DeleteCommits` their transactions, `RequestFails` either failing. `Restart`
loses what is in memory and marks the run interrupted. The user's other runs
appear only as deletions that push the tombstone out of the list. Where the code
awaits `isSearchJobSuppressed` between reading a job and saving it, so does the
model (`BatchAsks` and `BatchFinishes`, `OffersReads` and `OffersRefused`), and
the answer may be late.

`cutOff` is a history variable: since the later job's stage came into the row, a
restart, a failed write, Stop or Delete, or a late suppression has cut that job
off. Only then may a stage be left at rest (`StageHasWorker`), and even then the
run is no longer marked as reviewed, so that the poll or a new start ends it.
The poll's condition that a review is 30 seconds old is left out: the poll may
come at once.

### PageArchive

A content is a version number. `page` is the row with its claim, `object` what
the store holds at the page's path. `archiver` is how far each pass is: claim,
upload, read back, swap, or the ways out (`Release`, `Gone`). `LeaseRunsOut`
frees a claim; the lease is assumed longer than an upload and its read-back but
not than the swap (`SwapOverdue`). `cleaning` is the deletion of objects that a
delete or an import owes after its commit. `reader` and `updater` fetch the
object and look again. `window = "zero"` is the administrator's pass over every
page (`olderThanDays` 0), where a page just written is old at once.

### Accounts

`users` are the rows, `request` what each request has read and decided. A PATCH
or DELETE reads its target, counts administrators for an early answer and ends
in one transaction, whose guard (`GuardRefuses`) looks again; so do creation,
sign-up and the bootstrap.

### CompetitorSearch and GoogleSearch

Each is one loop with its phases. What a provider or a model answers is chosen
freely; what an advertiser *is* (place, ads, bar it passes) is fixed by a
`Setting`, so that an answer cannot contradict another. `CompetitorSearch` keeps
the reviews it starts ahead of its decisions (`ahead`, with the bar each was
made at), the rivals it holds (`held`), those it must not ask again (`rejected`,
`strict`) and the budget of pages. `GoogleSearch` has the agent's rounds, the
web search that takes over when the agent fails or leaves room, the budgets of
sites, and the pool of parallel reviews that share `accepted`. Left out: the
wording of queries, filters on single ads, the order of ranking (any order is
allowed), the writes of the run (they are in `RunStore`). In `CompetitorSearch` a
page may be relevant and yet no agency (`agency`): it is rejected, and not
remembered as one to look at again at the relaxed bar (`StrictAfter`).

### Backups

A content of the database is the number of committed transactions, a table is
one part. `backup` is how far the backup of each process is, with what it has
sent (`sent`), what its retention saw (`seen`), and what it decided on that and
still deletes (`doomed`, in the order it does, each with the number it was seen with).
`deleteFolder` lists a folder before it deletes anything: `left` is what it
listed and has not deleted yet, object 0 being the manifest, which goes first.
`lock` is the advisory lock of the snapshot transaction, `timer` what the
scheduler waits for; `alerting` is the recording of a failed retry, awaited
before the next timer is armed.

Time counts in minutes; `Decide` chooses whether seconds have passed since the
minute in a folder's name, since the code compares milliseconds. A folder
without a manifest is deleted when it is over a day old. So the models assume
that a backup puts its manifest in less than a day from the minute in its name
(`Tick`): a slower one could lose its parts to another process, and
`WritersKeepTheirParts` says nothing of it. A failed restore may leave a part of
the tables restored (`restoreBackup` inserts table by table, without a
transaction around them), so `RestoredIsWhole` is about restores that report
success, also after such a failure.

`shared` is a history variable: the folders that two
backups took in the same minute before either had the lock. The second then
overwrites the parts of the first, and its manifest names them. `FoldersSound` and
`WritersKeepTheirParts` leave such folders out; `RestoredIsWhole`, which does not,
shows that a restore of one fails by its checksums. `NewestKept` holds as long as there is no
such folder, and needs that: of two backups given one folder the slower puts its
manifest late and lowers the number of a folder already complete, and a
retention that saw the higher number then deletes the last other complete
backup. It takes two processes, four backups in one minute and `Keep` 1. The
number of a folder within its minute (`freeFolder`) is bounded by
`MaxSuffix`. The bound `Deleting` keeps a name from
being reused while a retention still deletes its folder: that takes more than
`Keep` backups within a minute.

## 3. Runs

All with two workers, in under four minutes each on a small machine.

| Run | Instance | Question |
|---|---|---|
| `ledger_holds` | 1 user, 3 periods, 2 holds, 1 call | is every hold backed and every call charged once through every order of hold, call, sweep and roll, and do the books implement the purse? |
| `ledger_admin` | 2 users, 3 periods, 1 hold, both scopes, corrections of +1 and -1, promotions | does the ledger explain both users' balances, and is a hold that grows funded, whatever administrators change in between? |
| `metered_sequential` | 2 runs, 2 calls in sequence that cost 3 against a ceiling of 2, 2 periods, allowance cut and credits refunded by hand, live holds lapse | how far can a user be overdrawn and a run exceed its budget? |
| `metered_parallel` | 1 run, 2 parallel calls that cost 3 against a ceiling of 2, usage reported late, promotion to administrator, database errors, crash | the same bounds when calls share a hold; does an unknown outcome keep its hold, do holds come back, are sent calls recorded? |
| `recreate` | 1 job with a stop, a build outside and a fault; 2 jobs for 1 place | does a finished job have its page, is there one task at a time, does every job and every stopped task end? |
| `run_store` | 1 search of 1 page and 1 competitor, 1 later job of either kind, 1 Stop, deletes, 1 restart, 1 failure, a tombstone list of 1 | does a deleted run stay gone, a stopped one out, has every row shown as running somebody at work, and does every review end? |
| `run_store_stop` (violated) | a search and a brand review, 1 Stop | is a Stop durable? |
| `page_archive` | 2 passes, 3 contents, 1 import, 1 failure, 1 crash or overdue swap, both windows | is the content always there, current for updaters, and nothing left behind; is it archived in the end? |
| `accounts` | 4 accounts, 1 organisation, any 2 requests, any mixture of starting rows | does an administrator remain, on the platform and in the organisation? |
| `competitor_search` | 3 advertisers, 2 local and 2 country-wide markets and one with a relevant page that is no agency, target 2 | are the bounds of list, rings and Stop kept (`BoundsKept`), do locals come first, is nobody rejected by a bar to come or left untried, does the search end? |
| `google_search` | 3 advertisers, 2 sites, 2 parallel reviews, with the agent and without, 0, 1 and 2 rings | is the shared list sound (`ListSound`), is no site paid for twice, and the same order, completeness and end as above? |
| `backups` | 2 processes, 2 tables, 3 minutes, a day of 2, one complete backup kept, four sets of limits | is what looks complete whole, do the newest stay, is a restore that reports success whole, does the schedule go on? |

Why the bounds are enough. Three periods let a hold be carried twice and a
charge land two months late. Two holds let one transaction recover the other's.
An allowance of two subunits with holds of one and two makes every comparison
of the code go both ways: enough, just enough, not enough. In the metered runs
the ceiling is two and every call costs three, so each settlement takes its hold
and more; the second call finds what the first left of the hold, the balance and
the budget. Both bounds of `SpendBounded` are attained in both runs, so a smaller
constant is refuted there. Two jobs for one place are what claims
compete for; the per-job properties of the queue relate steps of several
processes on one job, so one job and one fault suffice; what two jobs, a stop
and a fault do together is left to the theorems, which hold in every scenario.
One competitor and one page give a search every step it has, a list of one
tombstone lets a single other deletion forget the run. Three contents are one
archived, one that replaces it and one that replaces that; two requests are
what can cross. Three advertisers with a target of two leave one to be held,
retried or refused. Three backups with one kept leave one to delete and one to
keep beside one being written. `AllowanceBound`, `AdjustmentBound`, `HoldBound`, `HandBound`,
`MaxQueue`, `Requests`, `Limits` and the `Max...` constants cut off behaviours
that only repeat earlier ones. `CHECK_DEADLOCK` is off because every model stops
when its ids, requests or limits are used up, and a search when it has ended.

What `run_store_stop` shows: the brand review route clears an earlier Stop and
replies; the batch it scheduled clears the Stop again when it starts. A Stop
pressed in between is taken back and the batch runs to its end. The header of
`runs.ts` says that a stop is durable.

Where the models follow the code against what a comment or a guide says. These
are allowed by the properties above, each by an exemption or a bound that names
it:

- A charge that arrives after its reservation ended is booked in the month the
  reservation last pointed to, also a closed one (`settleProviderCall`; the
  comment of `maybeRollPeriod` says the closed period keeps its figures).
- Parallel calls of a run each rely on the same hold, so a limited user can go
  below zero (`docs/MULTI_USER.md`: users are blocked when credits cannot cover
  the next step). `OverdraftBounded` says by how much at most.
- A run that rejects gives its hold back while its other parallel calls are
  still out, so all of them are then uncovered and not all but the first
  (`Uncovered`); the proof of `SpendBounded` found that case.
- A timed-out call may keep no hold (the same guide says the hold is kept): when
  the settlement of a parallel sibling took from the hold they share, when the
  hold has expired, or when its run gave it back. `UnknownOutcomeKeepsHold` says
  that it is kept in every other case, with parallel calls too.
- A job is marked stopped, failed or begun again although the request to stop its
  earlier task failed (`manus/run.ts` drops the error three times): the task may
  work on to its end. `StoppedTasksEnd` exempts exactly the jobs that met such a
  failure (`missed`).
- An answered call whose settlement rolls back is settled again as failed at no
  charge (`meterProviderCall` says no code path spends without a ledger entry).
- A stop between a build's check of its job and its first write finds no page
  and stops no build: it runs, and is charged, to its end (`stopRecreateJob`
  says a running job has its build stopped).
- An import deletes the objects of the pages it replaced after its commit; a pass
  with `olderThanDays` 0 may have archived the imported content to the same path
  in between (`importHistory.ts` says the database no longer points there).
  `ArchivedReadable` exempts a crossing import in the window of zero days.
- When the agent fails in a round that holds a ring and the country, the web
  search takes over with `countryWide` on, although its comment says off while
  searching local rings: that ring is searched with nobody held.
- A job saved from a snapshot taken while the search was running shows the run
  as running again with nobody at work (`RunningHasWorker` exempts it); a late
  answer of `isSearchJobSuppressed` suppresses a resumed run again (`ReviewsEnd`
  exempts it); a stop or delete whose transaction fails leaves the run
  suppressed with its row running.

## 4. Fairness

`FairRunSpec`: a request ends by its client's timeout at the latest, an awaited
transaction ends, a function with nothing in flight returns; so weak fairness
on `HoldForCall`, `ProviderAnswers`, `SettleCall`, `ReturnRun` and the release,
whichever way it goes. Crashes, database errors, administrators and the clock
owe nothing.

`FairSpec` of the queue: weak fairness on the steps of every worker, stop, sweep
and watch (each ends an awaited call, and a follow has a deadline), on the
retry timer, on dispatch, on the sweep (a timer) and on the expiry of holds.
`LuckTurns` adds that a sweep does not handle a job between its claim and its
start for ever: nothing in the code excludes it, but the window is the time the
answer of one committed transaction takes. The user and the agent owe nothing.
`StoppedTasksEnd` exempts the jobs in `missed`, and no other: a restart or a
failed write that left no task of the job at work exempts nothing.

`FairSpec` of the runs repository: weak fairness on the next step of each
pipeline, on transactions, on the chain and on the throttle's timer, and on the
status poll, which the page of a run repeats while it is open. Stops, deletes
and restarts owe nothing.

`FairSpec` of the archive: weak fairness on the passes together (an hourly timer
starts one, and each await of it ends) and on the end of a lease. One crash or
failure may break a pass at any step.

The searches: weak fairness on their one thread and, in `GoogleSearch`, on each
parallel review; every await ends, by an answer, an error or a timeout.
`Backups` and `Accounts` state no liveness: that the schedule goes on is the
invariant `ScheduleGoesOn`.

## 5. Proofs

Each theorem holds for every value of the constants that meets its module's
named assumption.

| Module | Theorem | Says |
|---|---|---|
| `CreditProofs` | `InductiveInvariant` | `Spec => []IInv` |
| | `TypeCorrect` | `TypeOK` |
| | `HoldsBacked` | reserved amounts are the sums of the holds |
| | `HoldsCurrent` | whatever is held is held in its owner's current period |
| | `CurrentPeriodUnique` | at most one current period per user |
| | `BalancesExplained` | balances are the sums of their ledger rows |
| | `KeysChargedOnce` | charge rows add up to the charges of the calls |
| | `HoldsFunded` | no hold grows into a negative balance |
| | `PurseImplemented` | the books implement `CreditPurse` |
| | `RunsUseTheBooks` | `RunSpec => Spec`: every step of a run is one of the books or leaves them alone |
| | `RunTypeCorrect` | `RunTypeOK` |
| | `BooksHoldUnderRuns` | the invariants of the books hold beneath the runs |
| | `RunsImplementPurse` | so do the purses |
| `SpendProofs` | `SpendInvariant`, `SpendIsBounded` | how far runs overdraw a user and exceed their budget |
| | `UnknownKeepsHold` | an unknown outcome leaves a hold that pays for it |
| `RecreateQueueProofs` | `TypeCorrect` | `TypeOK` |
| | `RunningLimited` | never more running jobs than the limit |
| | `OutcomesKept` | a recorded outcome is never overwritten |
| | `FinishedHaveTheirPage` | a finished job has its page for ever |
| | `TasksOneAtATime` | one task of a job works at a time |
| `RunStoreProofs` | `TypeCorrect` | `TypeOK` |
| | `DeletedStaysGone` | no write brings a remembered deleted run back |
| | `CompetitorsListed` | stored competitors are listed by their run |
| | `StoppedStaysOut` | no late write changes a stopped run |
| | `StagesHaveWorkers`, `RunsHaveWorkers` | at rest, what is shown as running has somebody at work |
| `RowProofs` | `TypeCorrect` | `TypeOK` of `PageArchive` |
| | `ArchivedAlwaysReadable` | an archived page has its content in the store |
| | `ReadsStayCurrent`, `UpdatesStayCurrent` | readers and updaters use current contents |
| | `DeletedPagesLeaveNothing` | a deleted page leaves no object |
| | `AccountsTypeCorrect` | `AccountsTypeOK` |
| | `BootstrapIsOnce` | one bootstrap makes an administrator |
| | `AdminAlwaysRemains`, `OrgAlwaysKeepsItsAdmin` | the last active administrator stays |
| | `DeletedAlwaysStays` | no request brings a deleted user back |
| `CompetitorSearchProofs` | `InductiveInvariant` | `Spec => []IInv` |
| | `BoundsAreKept` | types, list, the rings' share of the pages, Stop |
| | `LocalsAlwaysFirst` | the rivals of the rings come before the country |
| | `RejectionsAreFinal` | nobody is rejected by a bar to come |
| | `EveryRivalTried` | a short list holds nobody back |
| `GoogleSearchProofs` | `InductiveInvariant` | `Spec => []IInv` |
| | `ListsSound` | types and the list the parallel reviews share |
| | `LocalsAlwaysFirst`, `EveryStepTried` | as above |
| | `SitesArePaidOnce` | no site is paid for twice |
| `BackupsProofs` | `TypesHold` | `TypeOK` |
| | `FoldersAreSound` | what looks complete is whole |
| | `RestoresAreWhole` | a restore that reports success restored one snapshot |
| | `WritersKeepParts`, `NewestAreKept` | what a retention may not delete |
| | `ScheduleNeverEnds` | the nightly schedule goes on |

*The books.* None of the invariants is inductive alone: giving a hold back keeps
`reserved` natural only because it is the sum of the holds, which in turn needs
each hold to point to the period the code locks, which needs that period to be
the only current one of its user. `IInv` is the conjunction of `BooksInv(Books)`,
the type of the accounts and calls, `Unrecorded` (a call not recorded yet names
no period) and `ChargedOnce`. `BooksInv` has the type of the tables, one current
period per user, holds current, holds backed and the ledger's sums, and two
parts only induction needs: `Placed` (a reservation that exists points to a
period that exists, so a late charge has books to go to) and `Blank` (a period
not used yet is empty, so opening it starts from nothing). `BooksInv` speaks of
a *record* of tables because the code's helpers work in the middle of a
transaction: a lemma for each helper says that it turns books in order into
books in order, and the lemma of an action chains those of its helpers. Sums
enter through the lemmas about `Total` at the head of `CreditProofs`. The books
and what runs do to them share that module, and `SpendProofs` extends it, because
each part is built on the lemmas of the one before; no proof about the books
cites what is assumed of the runs.

*The purses.* What each helper does to the purse of every user is one lemma; an
action is then matched with a step of `CreditPurse`. That a hold is funded needs
`HoldsAreBacked` and `HoldsAreCurrent` of the proofs before. The chain
`RunsUseTheBooks`, `PurseImplemented` gives the purses to the runs.

`HoldsFunded` follows each growth of a hold to the one place that checks the
balance after the recovery, the roll and the top-up of its transaction (`Funded`,
`GrowthFunded`).

*What runs spend.* `SpendInv` relates three counts. `Sent`: a call that has left
and is not recorded belongs to a run that has begun. `Flying` and `Counting`:
the calls of a run that are out are at most `MaxParallel`, and one whose hold
covers it is paid for by the hold. `Backing`: an open hold is at least a ceiling
while a call of its run is out. Then the debt a period may still grow by
(`Owed`, summed in `Debts`) is at most a ceiling for each uncovered call, and
`Solvent` says the balance covers the rest; a settlement moves a call's cost from
the debt to the balance, a heartbeat or top-up only takes what is there. What a
charge costs beyond the ceiling is in `ChargedUnheld` the moment it is in the
books, what an administrator takes by hand is in `hand`, and a user who was ever
unlimited is not in `limited`. So the theorems suppose nothing about costs,
parallel calls or administrators. `UnknownKeepsHold` needs `AttemptsOK` and
`CoveredOK`: the reservation of a call in `covered` still holds a ceiling for it,
unless it has expired or was given back.

*The queue.* Only a claim makes a job run, and it counts the running jobs in the
same transaction (`OnlyClaimsStart`, `ClaimTakesOne`); so the limit and the
outcomes need no more than the types. That a finish keeps its page needs
`FinishInv`: one of a run, a sweep and a watch owns the job in flight
(`OneOwner`), the hold tells a run from a resumed follow (`HoldInRun`), a page
is written only for a job that has not finished (`BuildOpen`), a page that names
a task is followed, not built again (`TaskFollowed`), and a finish that was
decided on has its page (`FinishBacked`). `TasksOneAtATime` adds `TaskInv`: a
task that works is known to the job's page or to whoever created it, so that a
sweep that requeues the job hands the task on (`TaskKnown`, `RowsKept`).

*The runs repository.* A deletion leaves the tombstone or the suppressed id
(`Guarded`), and every write looks at both in its own transaction; what a write
stores is merged with the list the row has. The other three theorems need to know
what may still be in the chain of writes: `StepCases` says of every step whether
it adds a write, takes one off or leaves the chain, and `Ordered` where the later
job may be while a write of its own waits. Over that, `Stopped` says that no
object still to be written undoes a Stop that is in the row, and `JobsInv` that
whoever is behind a running row is alive (`Alive`), that a later job which is
over has only its end left to write (`Staged`), and that a search which is over
left nothing that runs (`Settled`); `Marked` says that a later job's stage outlives its job only if
`cutOff` says so, and that the mark of a review goes with it.

*The archive.* A pass holds the claim from its claim to its swap; whoever
changes the page takes the claim away in the same transaction, so bytes uploaded
late belong to no row. The invariant has a part for each window (`DaysInv`,
`ZeroInv`). `Accounted` says who will delete an object no row points to: while
one exists somebody still holds its deletion (`Owed`, `WillDelete`).

*Accounts.* What a request carries to its transaction is guarded whenever it
could take an administrator away (`Carried`), and the transaction counts again;
the count is of a finite set that loses at most the target.

*The Facebook and Instagram search.* Four parts need each other. `OnePlace`:
nobody held is listed or rejected, so every step that lists somebody lists
somebody new. `StepsInOrder`: the rings come before the country, and a step
behind the plan begins with no query left. `LocalsReleased`: a rival held whose
ads could be counted is outside the rings, or is about to get its turn.
`RingsPaid`: a query pays all its pages when it begins, so the pages read, those
the running query may still read and those of the queries to come
(`PagesToPay`) never grow while the rings are searched, except by a ring that
begins below its share. `AskedInTime` and `FilledLast` are what `StopEndsTheSearch`
and `NothingLeftUntried` need of the steps between. The proof needed one thing
said of the settings that the model had left open: the ring an address is in is
one of the market's rings, or the address is farther than all of them, or there
is none. That is so in the code, where an address is matched only with the places
of the rings (`placesUpToRing`).

*The Google search.* `StepsInOrder` says the rounds follow each other without a
gap, whatever the agent's failure hands to the web search; `OnePlace` that nobody
is in two of list, held, pending, batch and the hands of a worker, and all of
them have been seen; `ReviewsAwaited` that workers are busy only while the main
thread waits for them or the run has failed; `ReleasedFirst` that whoever is
inside the area is released before a search; `SitesCounted` that the sites
checked are as many as both allowances have paid; `StepsSearched` that every step
before the present one has been searched.

*Backups.* `FolderInv` says of a folder one backup writes: nobody else writes it
(`Alone`), its parts are what the backup has sent (`SentSound`, `Parts`), all of
one snapshot, and once it has a manifest they are all there. `Sights` and
`DoomedSound` tie what a retention saw to what is there when it acts: the number
of a folder no one shares never changes, so what was older than `Keep` complete
backups then still is (`SeesOnce`, `KeptInv`, `ManifestStep`). A restore inserts
only what it was asked for (`Asked`, `Inserted`).

What the theorems state of an invariant is not checked again by a run where a
run would add nothing: the types of these modules, `OneCurrentPeriod`,
`HoldsAreCurrent`, `RunningWithinLimit`, `OutcomesStay`, `CompetitorsBelong`,
`ReadsCurrent`, `BootstrapOnce` and `DeletedStaysDeleted` are proved only. The
types of the searches and of the backups are parts of `BoundsKept`, `ListSound`
and `FoldersSound`.

Only model-checked is liveness: `HoldsComeBack`, `SentCallsAreRecorded`, `JobsEnd`,
`StoppedTasksEnd`, `ReviewsEnd`, `OldPagesMove` and both `SearchEnds`. It stays
with TLC, as does anything with ENABLED, since the provers have no rule for it,
and so would the result of a recursive definition for every input; none is used.
Every other property of every run is a theorem.

## 6. Plan

Done: the books with runs, refinement and proofs; the metered runs over them;
the queue; the runs repository; the archive; the accounts; both competitor
searches; the backups. What is left, in order of importance:

1. The safety half of the liveness properties as theorems: what a step may never
   undo on the way (a hold on its way back, a stopped task on its way out).
2. The edits, questions and image fixes of `lib/pipeline/manus/run.ts` on one
   page, beside its queued builds.
3. Two reports of the usage of one Manus task at once.
4. The offer reports and lookups, whose tables mirror those of `RunStore`.

## 7. Not modelled

Startup and migrations (their effects are in the modules they touch); spaces and
authorization (decisions over rows read per request; two archivals of one space at
once each stamp it, and restoring compares with the later stamp); the offer reports, lookups and
landing-page analysis (sequences of provider calls over scraped data; that calls
run in parallel and one rejection ends the run is in `MeteredRun`); the provider
clients (external); the history import but for its effect on archived pages (a
one-off script); the user interface, exports and vendored prompt material; of
backups, pulling one to a directory, the keep-alive of the connection and the
sequences of restored tables. A request to the object store that takes effect
after its caller gave up is in no model.
