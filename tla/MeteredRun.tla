----------------------------- MODULE MeteredRun -----------------------------
(***************************************************************************)
(* A billable run and its metered provider calls: runBillable (run.ts)     *)
(* opens a hold, every provider call is authorized, funded, sent and       *)
(* settled by meterProviderCall (meter.ts), and the finally of runBillable *)
(* gives the rest of the hold back.  Each await is a step of its own, so   *)
(* the calls of a run, the runs of a user, the sweep and a crash of the    *)
(* server interleave; the credit books change only by the transactions of  *)
(* CreditLedger.                                                           *)
(*                                                                         *)
(* A run is named by its reservation and a call by its idempotency key.    *)
(***************************************************************************)
EXTENDS CreditLedger

CONSTANTS Ceiling,        \* reservationCeiling of the one provider modelled
          InitialHold,
          Budget,         \* runBudgetSubunits
          Costs,          \* what converting the usage of an answer may give
          Incurred,       \* what a Manus task may report after the fact
          MaxParallel,    \* bound: calls a run has in flight at once
          LiveHoldsLapse, \* may a run go 15 minutes without a heartbeat?
          DatabaseErrs,   \* may a settlement or a release throw?
          HandBound       \* bound: cuts and corrections by hand beyond it are not explored

ASSUME RunAssumption ==
  /\ {Ceiling, InitialHold} \cup Costs \cup Incurred \subseteq Amounts
  /\ Budget \in Budgets /\ InitialHold <= Budget
  /\ Ceiling > 0
  /\ MaxParallel \in Nat \ {0} /\ HandBound \in Nat
  /\ LiveHoldsLapse \in BOOLEAN /\ DatabaseErrs \in BOOLEAN
  /\ "none" \notin ReservationIds

VARIABLES
  run,     \* how far runBillable is; "abandoned": it ended without a release
  attempt, \* the meterProviderCall of each key
  hand,    \* history: what allowance cuts and corrections of a user add up to
  limited, \* history: the users who have always been limited
  covered  \* history: calls out of whose hold no other settlement took since they left

history == <<hand, limited, covered>>

runVars == <<vars, run, attempt, history>>

RunStates == {"idle", "running", "returning", "over", "abandoned"}

(* "unknown": a timeout, or an answer no rate can price.                   *)
Attempt == [run : ReservationIds \cup {"none"},
            step : {"idle", "permitted", "sent", "answered", "settled", "refused", "lost",
                    "incurred"},
            outcome : {"none", "succeeded", "unknown", "failed"},
            cost : Costs \cup {0},
            caught : BOOLEAN]

RunTypeOK ==
  /\ TypeOK
  /\ run \in [ReservationIds -> RunStates]
  /\ attempt \in [CallKeys -> Attempt]
  /\ hand \in [Users -> Nat] /\ limited \subseteq Users /\ covered \subseteq CallKeys

RunInit ==
  /\ Init
  /\ run = [r \in ReservationIds |-> "idle"]
  /\ attempt = [k \in CallKeys |->
       [run |-> "none", step |-> "idle", outcome |-> "none", cost |-> 0, caught |-> FALSE]]
  /\ hand = [u \in Users |-> 0]
  /\ limited = {u \in Users : ~Unlimited(u)}
  /\ covered = {}

-----------------------------------------------------------------------------
Live(r) == run[r] \in {"running", "returning"}

CallsOf(r) == {k \in CallKeys : attempt[k].run = r}

InFlight(k) == attempt[k].step \in {"permitted", "sent", "answered"}

Threw(k) ==
  \/ attempt[k].step \in {"refused", "lost"} \/ attempt[k].caught
  \/ attempt[k].step = "settled" /\ attempt[k].outcome # "succeeded"

(* When one of several parallel calls throws, Promise.all rejects at once: *)
(* the run's function ends and the siblings go on without it.              *)
Rejects(r) == MaxParallel > 1 /\ \E k \in CallsOf(r) : Threw(k)

MayCall(r) == run[r] = "running" \/ (run[r] \in {"returning", "over"} /\ Rejects(r))

-----------------------------------------------------------------------------
(* The account and the run.                                                *)

RegisterUser(u, a) ==
  /\ CurrentOf(period, u) = {}
  /\ InitializeUserCredits(u, a, "monthly")
  /\ UNCHANGED <<run, attempt, history>>

ChangeAccount(u, s) ==
  /\ UpdateUser(u, s)
  /\ limited' = IF s = "admin" THEN limited \ {u} ELSE limited
  /\ UNCHANGED <<run, attempt, hand, covered>>

(* The administrator's credits route.                                      *)
Cut(u, a) ==
  Total([p \in PeriodIds |-> AtLeastZero(period[p].allowance - a)], CurrentOf(period, u))

ByHand(u, x) ==
  /\ hand[u] + x <= HandBound
  /\ hand' = [hand EXCEPT ![u] = @ + x]
  /\ UNCHANGED <<run, attempt, limited, covered>>

ChangeAllowance(u, a) == SetAllowance(u, a) /\ ByHand(u, Cut(u, a))

Grant(u, a) == AddCredits(u, a) /\ UNCHANGED <<run, attempt, history>>

Correct(u, d) == RecordAdjustment(u, d) /\ ByHand(u, Most(d, -d))

ChangeCadence(u, c) == SetResetCadence(u, c) /\ UNCHANGED <<run, attempt, history>>

(* The sweep of any user's runBillable, or of a server start.              *)
Sweep(S) == SweepAbandonedReservations(S) /\ UNCHANGED <<run, attempt, history>>

Reconcile(r, billed) ==
  /\ ResolveReconciliation(r, IF billed THEN resv[r].amount ELSE 0)
  /\ UNCHANGED <<run, attempt, history>>

(* runBillable up to the call of fn; a refused run leaves nothing behind.  *)
StartRun(r, u, scope, limit, result) ==
  /\ run[r] = "idle"
  /\ ReserveCredits(r, u, InitialHold, scope, limit, result)
  /\ run' = [run EXCEPT ![r] = IF result = "ok" THEN "running" ELSE @]
  /\ UNCHANGED <<attempt, history>>

(* Fault: the hold is given back on the success path only.                 *)
ReturnRunOnSuccess(r) ==
  /\ run[r] = "running"
  /\ \A k \in CallsOf(r) : ~InFlight(k) /\ ~Threw(k)
  /\ run' = [run EXCEPT ![r] = "returning"]
  /\ UNCHANGED <<vars, attempt, history>>

(* fn returns when its calls have ended, or rejects while some go on.      *)
ReturnRun(r) ==
  /\ run[r] = "running"
  /\ (\A k \in CallsOf(r) : ~InFlight(k)) \/ Rejects(r)
  /\ run' = [run EXCEPT ![r] = "returning"]
  /\ UNCHANGED <<vars, attempt, history>>

ReleaseRun(r) ==
  /\ run[r] = "returning"
  /\ ReleaseReservation(r, "settled")
  /\ run' = [run EXCEPT ![r] = "over"]
  /\ UNCHANGED <<attempt, history>>

(* The release in the finally throws: the hold stays open.                 *)
ReleaseFails(r) ==
  /\ DatabaseErrs
  /\ run[r] = "returning"
  /\ run' = [run EXCEPT ![r] = "abandoned"]
  /\ UNCHANGED <<vars, attempt, history>>

Crash ==
  /\ \E r \in ReservationIds : Live(r)
  /\ run' = [r \in ReservationIds |-> IF Live(r) THEN "abandoned" ELSE run[r]]
  /\ attempt' = [k \in CallKeys |->
                   IF InFlight(k) THEN [attempt[k] EXCEPT !.step = "lost"] ELSE attempt[k]]
  /\ UNCHANGED <<vars, history>>

-----------------------------------------------------------------------------
(* meterProviderCall.                                                      *)

(* assertProviderPermitted: a disabled capability refuses anybody.         *)
PermitCall(k, r, permitted) ==
  /\ attempt[k].step = "idle"
  /\ MayCall(r)
  /\ Cardinality({j \in CallsOf(r) : InFlight(j)}) < MaxParallel
  /\ permitted => account[resv[r].user] # "inactive"
  /\ attempt' = [attempt EXCEPT ![k].run = r,
                                ![k].step = IF permitted THEN "permitted" ELSE "refused"]
  /\ UNCHANGED <<vars, run, history>>

(* Fault: calls of a run with a hold are sent without a top-up.            *)
SendUnfunded(k, result) ==
  /\ attempt[k].step = "permitted"
  /\ result = "ok"
  /\ attempt' = [attempt EXCEPT ![k].step = "sent"]
  /\ UNCHANGED <<vars, run, history>>

(* ensureHoldForStep, and the request leaves.                              *)
HoldForCall(k, result) ==
  /\ attempt[k].step = "permitted"
  /\ EnsureReservationHold(attempt[k].run, Ceiling, Budget, result)
  /\ attempt' = [attempt EXCEPT ![k].step = IF result = "ok" THEN "sent" ELSE "refused"]
  /\ covered' = IF result = "ok" THEN covered \cup {k} ELSE covered
  /\ UNCHANGED <<run, hand, limited>>

ProviderAnswers(k, outcome, cost) ==
  /\ attempt[k].step = "sent"
  /\ IF outcome = "succeeded" THEN cost \in Costs ELSE cost = 0
  /\ attempt' = [attempt EXCEPT ![k].step = "answered", ![k].outcome = outcome,
                                ![k].cost = cost]
  /\ UNCHANGED <<vars, run, history>>

(* Fault: a settled call does not give its ceiling back.                   *)
SettlementKeepingHold(k) ==
  \/ SettleDuplicate(k)
  \/ SettleAgainst(k, attempt[k].run, attempt[k].cost, attempt[k].outcome = "unknown", 0)

(* What a settlement of k takes from the hold uncovers the calls on it.    *)
Uncovers(k) ==
  LET r == attempt[k].run IN
  /\ covered' = {j \in covered : attempt[j].run = r => resv'[r].amount >= resv[r].amount}
  /\ UNCHANGED <<run, hand, limited>>

(* settle(status, ...) with the outcome and the cost known by now.         *)
Settlement(k) ==
  \/ SettleDuplicate(k)
  \/ SettleAgainst(k, attempt[k].run, attempt[k].cost, attempt[k].outcome = "unknown", Ceiling)

(* Fault: a call that failed is not settled.                               *)
SettleUnlessFailed(k) ==
  /\ attempt[k].step = "answered"
  /\ IF attempt[k].outcome = "failed" THEN UNCHANGED vars ELSE Settlement(k)
  /\ attempt' = [attempt EXCEPT ![k].step = "settled"]
  /\ Uncovers(k)

SettleCall(k) ==
  /\ attempt[k].step = "answered"
  /\ Settlement(k)
  /\ attempt' = [attempt EXCEPT ![k].step = "settled"]
  /\ Uncovers(k)

(* settle throws, with its transaction committed or not.  In the try block *)
(* the catch classifies the error and settles the same key again without   *)
(* the usage; in the catch block the error leaves.                         *)
SettlementFails(k, committed, outcome) ==
  /\ DatabaseErrs
  /\ attempt[k].step = "answered"
  /\ IF committed THEN Settlement(k) ELSE UNCHANGED vars
  /\ attempt' = [attempt EXCEPT ![k] =
       IF @.outcome = "succeeded" /\ ~@.caught
       THEN [@ EXCEPT !.outcome = outcome, !.cost = 0, !.caught = TRUE]
       ELSE [@ EXCEPT !.step = "lost"]]
  /\ Uncovers(k)

(* recordIncurredUsage: a charge with no hold, in the run's context even   *)
(* after the run has returned, or for the user when there is no context.   *)
RecordIncurredUsage(k, r, cost) ==
  /\ attempt[k].step \in {"idle", "incurred"}
  /\ run[r] \in {"running", "returning", "over"}
  /\ SettleDuplicate(k) \/ SettleAgainst(k, r, cost, FALSE, 0)
  /\ attempt' = [attempt EXCEPT ![k].step = "incurred",
                                ![k].run = IF Settled(k) THEN @ ELSE r]
  /\ UNCHANGED <<run, history>>

RecordWithoutContext(k, u, cost) ==
  /\ attempt[k].step \in {"idle", "incurred"}
  /\ SettleDuplicate(k) \/ SettleUnreserved(k, u, cost, FALSE)
  /\ attempt' = [attempt EXCEPT ![k].step = "incurred"]
  /\ UNCHANGED <<run, history>>

-----------------------------------------------------------------------------
(* The clock: HOLD_TTL_MS passes without a heartbeat.                      *)
HoldLapses(r) ==
  /\ LiveHoldsLapse \/ ~Live(r)
  /\ ReservationLapses(r)
  /\ UNCHANGED <<run, attempt, history>>

MonthEnds(p) == ResetFallsDue(p) /\ UNCHANGED <<run, attempt, history>>

-----------------------------------------------------------------------------
Desk ==
  \/ \E u \in Users :
       \/ \E a \in Allowances : RegisterUser(u, a) \/ ChangeAllowance(u, a) \/ Grant(u, a)
       \/ \E d \in Adjustments : Correct(u, d)
       \/ \E c \in Cadences : ChangeCadence(u, c)
       \/ \E s \in Accounts : ChangeAccount(u, s)
  \/ \E S \in SUBSET Lapsed(resv) : Sweep(S)
  \/ \E r \in ReservationIds, billed \in BOOLEAN : Reconcile(r, billed)

RunBillable ==
  \E r \in ReservationIds :
    \/ \E u \in Users, scope \in Scopes, limit \in Limits, result \in ReserveResults :
         StartRun(r, u, scope, limit, result)
    \/ ReturnRun(r)
    \/ ReleaseRun(r)
    \/ ReleaseFails(r)

MeterProviderCall ==
  \E k \in CallKeys :
    \/ \E r \in ReservationIds, permitted \in BOOLEAN : PermitCall(k, r, permitted)
    \/ \E result \in HoldResults : HoldForCall(k, result)
    \/ \E outcome \in {"succeeded", "unknown", "failed"}, cost \in Costs \cup {0} :
         ProviderAnswers(k, outcome, cost)
    \/ SettleCall(k)
    \/ \E committed \in BOOLEAN, outcome \in {"unknown", "failed"} :
         SettlementFails(k, committed, outcome)
    \/ \E cost \in Incurred :
         \/ \E r \in ReservationIds : RecordIncurredUsage(k, r, cost)
         \/ \E u \in Users : RecordWithoutContext(k, u, cost)

Time ==
  \/ \E r \in ReservationIds : HoldLapses(r)
  \/ \E p \in PeriodIds : MonthEnds(p)

RunNext == Desk \/ RunBillable \/ MeterProviderCall \/ Time \/ Crash

RunSpec == RunInit /\ [][RunNext]_runVars

(* A request ends by its client's timeout at the latest, an awaited        *)
(* transaction ends, and a function with nothing in flight returns.        *)
RunFairness ==
  /\ \A r \in ReservationIds :
       /\ WF_runVars(ReturnRun(r))
       /\ WF_runVars(ReleaseRun(r) \/ ReleaseFails(r))
  /\ \A k \in CallKeys :
       /\ WF_runVars(\E result \in HoldResults : HoldForCall(k, result))
       /\ WF_runVars(\E outcome \in {"succeeded", "unknown", "failed"}, cost \in Costs \cup {0} :
                       ProviderAnswers(k, outcome, cost))
       /\ WF_runVars(SettleCall(k))

FairRunSpec == RunSpec /\ RunFairness
-----------------------------------------------------------------------------
(* Properties.                                                             *)

(* What is charged with no hold behind it: all that Manus reports after    *)
(* the fact, and of any other call what it costs beyond the ceiling held   *)
(* for it.                                                                 *)
UnheldOf(cs, at) ==
  [k \in CallKeys |-> IF at[k].step = "incurred" THEN cs[k].charge
                      ELSE AtLeastZero(cs[k].charge - Ceiling)]

ChargedUnheld(S) == Total(UnheldOf(call, attempt), S)

(* The calls of a run that may be in flight without being paid for by its  *)
(* hold alone: all but the first, and the first too once the hold expired  *)
(* or was given back by a run that rejected.                               *)
Uncovered(reservation) ==
  IF \/ reservation.status = "expired"
     \/ MaxParallel > 1 /\ reservation.status = "settled"
  THEN MaxParallel ELSE MaxParallel - 1

(* A user who has always been limited goes below zero by no more than the  *)
(* uncovered calls of the runs, what was charged with no hold, and what an *)
(* administrator cut or corrected by hand: sequential runs whose holds     *)
(* never expire, of calls within their ceiling, do not overdraw            *)
(* (reserveCredits, ensureReservationHold).                                *)
OverdraftBounded ==
  \A p \in PeriodIds :
    period[p].status = "current" /\ period[p].user \in limited =>
      Available(period[p]) + ChargedUnheld(CallsIn(call, p)) + hand[period[p].user]
        >= -Total([r \in ReservationIds |-> Ceiling * Uncovered(resv[r])], ReservationIds)

(* A run of a user who has always been limited spends and holds no more    *)
(* than its budget, but for the calls in flight beyond the first and what  *)
(* was charged with no hold (ensureReservationHold).                       *)
BudgetBounded ==
  \A r \in ReservationIds :
    resv[r].user \in limited =>
      resv[r].settled + resv[r].amount
        <= Budget + (MaxParallel - 1) * Ceiling + ChargedUnheld(CallsOf(r))

(* Whatever holds lapse and settlements are lost, and whatever the calls   *)
(* cost, what the runs of a limited user spend is bounded by the balance   *)
(* and each run's share of it by the budget, up to the ceilings of the     *)
(* calls that passed on one hold and the part of every charge that no      *)
(* ceiling covers.                                                         *)
SpendBounded == OverdraftBounded /\ BudgetBounded

(* Recording a call whose outcome is unknown parks the run's reservation   *)
(* with a ceiling held to pay for that call, also when siblings are in     *)
(* flight or were parked before it, unless the settlement of a sibling     *)
(* took from the hold since the call left, the hold has expired, or it was *)
(* given back by a run that rejected or resolved by an administrator.      *)
UnknownOutcomeKeepsHold ==
  [][\A k \in covered :
       LET r == attempt[k].run IN
       /\ call'[k].status = "pending" /\ ~Settled(k)
       /\ resv[r].status \notin {"expired", "settled"}
       => resv'[r].status = "pending_reconciliation" /\ resv'[r].amount >= Ceiling]_runVars

(* A hold does not outlive its run, however the calls of the run end,      *)
(* unless the server dies or the release itself fails.                     *)
HoldsComeBack ==
  \A r \in ReservationIds :
    resv[r].status = "open" ~> (resv[r].status # "open" \/ run[r] = "abandoned")

(* A request that left is recorded in the books, unless the server dies or *)
(* both settlements of the call fail.                                      *)
SentCallsAreRecorded ==
  \A k \in CallKeys :
    attempt[k].step = "sent" ~> (Settled(k) \/ attempt[k].step = "lost")
=============================================================================
