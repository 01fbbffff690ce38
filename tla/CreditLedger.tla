---------------------------- MODULE CreditLedger ----------------------------
(***************************************************************************)
(* The credit books: allocation periods, reservations (holds), provider    *)
(* calls and the append-only ledger, as rewritten by the transactions of   *)
(* accountingService.ts.  Every transaction that changes a balance takes   *)
(* the owner's credits key first, so each is one atomic action here.       *)
(*                                                                         *)
(* Data abstraction.  Amounts are whole subunits.  A timestamp is a flag   *)
(* raised by the clock: reset = "due" says nextResetAt has passed, lapsed  *)
(* says expiresAt has passed.  The ledger table is kept as the sum of the  *)
(* deltas of its rows, per period and row type.                            *)
(***************************************************************************)
EXTENDS Totals

CONSTANTS Users, PeriodIds, ReservationIds, CallKeys,
          Amounts,        \* what a hold, ceiling, charge or release may be
          Allowances,     \* what an administrator may set or add
          Adjustments,    \* signed corrections, positive refunds
          Limits,         \* maxOpenReservations
          Budgets,        \* runBudgetSubunits
          Scopes,         \* ConcurrencyScope: recreate builds and everything else
          Accounts,       \* the account states explored
          TopUpMultiple,
          AllowanceBound, \* bound: allowances above this are not explored
          AdjustmentBound,\* bound: net corrections beyond it are not explored
          HoldBound       \* bound: no hold is extended by hand beyond it

ASSUME CreditAssumption ==
  /\ IsFiniteSet(Users) /\ IsFiniteSet(PeriodIds)
  /\ IsFiniteSet(ReservationIds) /\ IsFiniteSet(CallKeys)
  /\ Amounts \subseteq Nat /\ Allowances \subseteq Nat /\ Adjustments \subseteq Int
  /\ Limits \subseteq Nat /\ Budgets \subseteq Nat
  /\ Accounts \subseteq {"user", "admin", "inactive"}
  /\ TopUpMultiple \in Nat /\ AllowanceBound \in Nat /\ AdjustmentBound \in Nat
  /\ HoldBound \in Nat
  /\ "nowhere" \notin PeriodIds

VARIABLES
  account,  \* what users.role and users.status allow: an active user, an active admin, nobody else
  period,   \* credit_periods
  resv,     \* credit_reservations
  call,     \* provider_calls, with the period its charge row names
  ledger,   \* credit_ledger, summed per period and row type
  carried   \* history: held credits the monthly roll moved in less those it moved out

vars == <<account, period, resv, call, ledger, carried>>

Cadences == {"none", "monthly"}
HeldStatuses == {"open", "pending_reconciliation"}

Period == [user : Users \cup {"nobody"}, status : {"unused", "current", "closed"},
           allowance : Int, consumed : Int, reserved : Nat,
           reset : {"none", "later", "due"}]
Reservation == [user : Users \cup {"nobody"}, period : PeriodIds \cup {"nowhere"},
                status : HeldStatuses \cup {"unused", "settled", "released", "expired"},
                amount : Nat, settled : Nat, lapsed : BOOLEAN, scope : Scopes \cup {"none"}]
Call == [status : {"unused", "settled", "pending"}, charge : Nat,
         period : PeriodIds \cup {"nowhere"}]
RowSums == [allowance : Int, holds : Int, charges : Int, reconciled : Int, adjustments : Int]

TypeOK ==
  /\ account \in [Users -> Accounts]
  /\ period \in [PeriodIds -> Period]
  /\ resv \in [ReservationIds -> Reservation]
  /\ call \in [CallKeys -> Call]
  /\ ledger \in [PeriodIds -> RowSums]
  /\ carried \in [PeriodIds -> Int]

Init ==
  /\ account \in [Users -> Accounts \ {"inactive"}]
  /\ period = [p \in PeriodIds |->
       [user |-> "nobody", status |-> "unused", allowance |-> 0, consumed |-> 0,
        reserved |-> 0, reset |-> "none"]]
  /\ resv = [r \in ReservationIds |->
       [user |-> "nobody", period |-> "nowhere", status |-> "unused", amount |-> 0,
        settled |-> 0, lapsed |-> FALSE, scope |-> "none"]]
  /\ call = [k \in CallKeys |-> [status |-> "unused", charge |-> 0, period |-> "nowhere"]]
  /\ ledger = [p \in PeriodIds |->
       [allowance |-> 0, holds |-> 0, charges |-> 0, reconciled |-> 0, adjustments |-> 0]]
  /\ carried = [p \in PeriodIds |-> 0]

-----------------------------------------------------------------------------
(* Reading the books.                                                      *)

AtLeastZero(x) == IF x < 0 THEN 0 ELSE x
Least(x, y) == IF x < y THEN x ELSE y
Most(x, y) == IF x < y THEN y ELSE x

Unlimited(u) == account[u] = "admin"

Available(pr) == pr.allowance - pr.consumed - pr.reserved

(* The reservations whose hold counts against period p.                    *)
HeldIn(rs, p) == {r \in ReservationIds : rs[r].status \in HeldStatuses /\ rs[r].period = p}

AmountOf(rs) == [r \in ReservationIds |-> rs[r].amount]

CurrentOf(ps, u) == {p \in PeriodIds : ps[p].status = "current" /\ ps[p].user = u}

Fresh(ps) == {p \in PeriodIds : ps[p].status = "unused"}

OpenIn(rs, u, scope) ==
  {r \in ReservationIds : rs[r].status = "open" /\ rs[r].user = u /\ rs[r].scope = scope}

Lapsed(rs) == {r \in ReservationIds : rs[r].status = "open" /\ rs[r].lapsed}

-----------------------------------------------------------------------------
(* One transaction may rewrite several tables several times: the tables it *)
(* works on are a record of books, saved when it commits.                  *)

Books == [period |-> period, resv |-> resv, ledger |-> ledger, carried |-> carried]

Save(b) ==
  /\ period' = b.period
  /\ resv' = b.resv
  /\ ledger' = b.ledger
  /\ carried' = b.carried

(* openPeriod: a new current period, its allowance written to the ledger.  *)
NewPeriod(u, allowance, reset, reserved) ==
  [user |-> u, status |-> "current", allowance |-> allowance, consumed |-> 0,
   reserved |-> reserved, reset |-> reset]

Opened(b, n, new) ==
  [b EXCEPT
     !.period = [q \in PeriodIds |-> IF q = n THEN new ELSE b.period[q]],
     !.ledger = [q \in PeriodIds |->
                   IF q = n THEN [b.ledger[q] EXCEPT !.allowance = @ + new.allowance]
                            ELSE b.ledger[q]]]

FirstReset(cadence) == IF cadence = "monthly" THEN "later" ELSE "none"

(* Fault: the roll carries the open holds and leaves the parked ones.      *)
RolledOpenOnly(b, p, n, reset) ==
  LET held  == {r \in HeldIn(b.resv, p) : b.resv[r].status = "open"}
      carry == Total(AmountOf(b.resv), held)
  IN Opened([b EXCEPT
               !.period[p] = [@ EXCEPT !.status = "closed", !.reserved = @ - carry],
               !.resv = [r \in ReservationIds |->
                  IF r \in held THEN [b.resv[r] EXCEPT !.period = n] ELSE b.resv[r]],
               !.carried = [b.carried EXCEPT ![p] = @ - carry, ![n] = @ + carry]],
            n, NewPeriod(b.period[p].user, b.period[p].allowance, reset, carry))

(* maybeRollPeriod: p closes and gives what is still held to period n.     *)
(* The carry has no ledger row.  After an idle month n may be due as well. *)
Rolled(b, p, n, reset) ==
  LET old   == b.period[p]
      held  == HeldIn(b.resv, p)
      carry == Total(AmountOf(b.resv), held)
  IN Opened([b EXCEPT
               !.period[p] = [old EXCEPT !.status = "closed", !.reserved = @ - carry],
               !.resv = [r \in ReservationIds |->
                  IF r \in held THEN [b.resv[r] EXCEPT !.period = n] ELSE b.resv[r]],
               !.carried = [b.carried EXCEPT ![p] = @ - carry, ![n] = @ + carry]],
            n, NewPeriod(old.user, old.allowance, reset, carry))

(* ensureCurrentPeriod: the books with u's current period, opened or       *)
(* rolled when necessary, and that period.                                 *)
EnsuredWith(b, u, allowance, cadences) ==
  IF CurrentOf(b.period, u) = {}
  THEN {<<Opened(b, n, NewPeriod(u, allowance, FirstReset(c), 0)), n>> :
          n \in Fresh(b.period), c \in cadences}
  ELSE UNION { IF b.period[p].reset = "due"
               THEN {<<Rolled(b, p, n, reset), n>> :
                       n \in Fresh(b.period), reset \in {"later", "due"}}
               ELSE {<<b, p>>} : p \in CurrentOf(b.period, u) }

(* A period opened on first use starts with no allowance and the cadence   *)
(* of the settings.                                                        *)
Ensured(b, u) == EnsuredWith(b, u, 0, Cadences)

(* A reservation no longer open has no deadline left to pass.              *)
Closed(reservation, status) ==
  [reservation EXCEPT !.amount = 0, !.status = status, !.lapsed = FALSE]

(* Fault: parking frees the hold.                                          *)
ParkedEmpty(reservation) ==
  [reservation EXCEPT !.status = "pending_reconciliation", !.amount = 0, !.lapsed = FALSE]

Parked(reservation) ==
  [reservation EXCEPT !.status = "pending_reconciliation", !.lapsed = FALSE]

Reduced(reservation, released, charge) ==
  [reservation EXCEPT !.amount = @ - released, !.settled = @ + charge]

(* recoverAbandoned: the holds of S return to their periods.               *)
Recovered(b, S) ==
  LET freed(p) == Total(AmountOf(b.resv), {r \in S : b.resv[r].period = p})
  IN [b EXCEPT
       !.period = [p \in PeriodIds |->
                     [b.period[p] EXCEPT !.reserved = AtLeastZero(@ - freed(p))]],
       !.resv = [r \in ReservationIds |->
                   IF r \in S THEN Closed(b.resv[r], "expired")
                              ELSE b.resv[r]],
       !.ledger = [p \in PeriodIds |-> [b.ledger[p] EXCEPT !.holds = @ + freed(p)]]]

(* Fault: the period is written back from a read before the hold.          *)
HoldingStale(b, r, p, x, reservation) ==
  [b EXCEPT !.period[p].reserved = x,
            !.resv[r] = reservation,
            !.ledger[p].holds = @ - x]

(* x more subunits held in period p, by reservation r as it then is.       *)
Holding(b, r, p, x, reservation) ==
  [b EXCEPT !.period[p].reserved = @ + x,
            !.resv[r] = reservation,
            !.ledger[p].holds = @ - x]

(* applyExtension: reservation r grows by x; a ttl renews its heartbeat.   *)
Extended(b, r, x, renewed) ==
  Holding(b, r, b.resv[r].period, x,
          [b.resv[r] EXCEPT !.amount = @ + x, !.lapsed = @ /\ ~renewed])

-----------------------------------------------------------------------------
(* Administration.                                                         *)

(* initializeUserCredits: an account starts with a period of its own.      *)
InitializeUserCredits(u, a, cadence) ==
  /\ \E e \in EnsuredWith(Books, u, a, {cadence}) : Save(e[1])
  /\ UNCHANGED <<account, call>>

(* Fault: the ledger gets the new allowance instead of the difference.     *)
SetAllowanceWhole(u, a) ==
  /\ \E e \in Ensured(Books, u) :
       Save([e[1] EXCEPT !.period[e[2]].allowance = a, !.ledger[e[2]].allowance = @ + a])
  /\ UNCHANGED <<account, call>>

SetAllowance(u, a) ==
  /\ \E e \in Ensured(Books, u) :
       LET b == e[1]  p == e[2] IN
       Save([b EXCEPT !.period[p].allowance = a,
                      !.ledger[p].allowance = @ + a - b.period[p].allowance])
  /\ UNCHANGED <<account, call>>

AddCredits(u, a) ==
  /\ \E e \in Ensured(Books, u) :
       LET b == e[1]  p == e[2] IN
       /\ b.period[p].allowance + a <= AllowanceBound
       /\ Save([b EXCEPT !.period[p].allowance = @ + a, !.ledger[p].allowance = @ + a])
  /\ UNCHANGED <<account, call>>

RecordAdjustment(u, d) ==
  /\ \E e \in Ensured(Books, u) :
       LET b == e[1]  p == e[2] IN
       /\ b.ledger[p].adjustments + d \in -AdjustmentBound..AdjustmentBound
       /\ Save([b EXCEPT !.period[p].consumed = @ - d, !.ledger[p].adjustments = @ + d])
  /\ UNCHANGED <<account, call>>

(* A monthly cadence counts its month from now.                            *)
SetResetCadence(u, cadence) ==
  /\ \E e \in Ensured(Books, u) :
       Save([e[1] EXCEPT !.period[e[2]].reset = FirstReset(cadence)])
  /\ UNCHANGED <<account, call>>

(* A promotion, demotion, suspension or reactivation of the account.       *)
UpdateUser(u, status) ==
  /\ account' = [account EXCEPT ![u] = status]
  /\ UNCHANGED <<period, resv, call, ledger, carried>>

-----------------------------------------------------------------------------
(* Reservations.                                                           *)

(* The transaction reads its clock before it waits for locks: what lapsed  *)
(* in between is left for a later recovery, hence any S.                   *)
SweepAbandonedReservations(S) ==
  /\ S \subseteq Lapsed(resv)
  /\ Save(Recovered(Books, S))
  /\ UNCHANGED <<account, call>>

(* reserveCredits, by result.  A refusal still commits the recovery it     *)
(* began with and the period it opened or rolled.                          *)
ReserveCredits(r, u, x, scope, limit, result) ==
  /\ resv[r].status = "unused"
  /\ \E S \in SUBSET Lapsed(resv) :
       LET b == Recovered(Books, S)
           tooMany == Cardinality(OpenIn(b.resv, u, scope)) >= limit IN
       \/ /\ result = "too_many_concurrent_runs"
          /\ tooMany
          /\ Save(b)
       \/ /\ result = "account_not_active"
          /\ ~tooMany /\ account[u] = "inactive"
          /\ Save(b)
       \/ /\ ~tooMany /\ account[u] # "inactive"
          /\ \E e \in Ensured(b, u) :
               LET funded == Unlimited(u) \/ x <= Available(e[1].period[e[2]]) IN
               \/ result = "insufficient_credits" /\ ~funded /\ Save(e[1])
               \/ /\ result = "ok" /\ funded
                  /\ Save(Holding(e[1], r, e[2], x,
                            [user |-> u, period |-> e[2], status |-> "open", amount |-> x,
                             settled |-> 0, lapsed |-> FALSE, scope |-> scope]))
  /\ UNCHANGED <<account, call>>

(* A heartbeat.                                                            *)
TouchReservation(r) ==
  /\ resv[r].status = "open"
  /\ resv' = [resv EXCEPT ![r].lapsed = FALSE]
  /\ UNCHANGED <<account, period, call, ledger, carried>>

(* Fault: an extension is not checked against the balance.                 *)
ExtendUnfunded(r, x) ==
  /\ resv[r].status = "open"
  /\ resv[r].amount + x <= HoldBound
  /\ Save(Extended(Books, r, x, FALSE))
  /\ UNCHANGED <<account, call>>

ExtendReservation(r, x) ==
  /\ resv[r].status = "open"
  /\ resv[r].amount + x <= HoldBound
  /\ Unlimited(resv[r].user) \/ x <= Available(period[resv[r].period])
  /\ Save(Extended(Books, r, x, FALSE))
  /\ UNCHANGED <<account, call>>

(* ensureReservationHold: what the hold must grow by before a call of at   *)
(* most `ceiling`, as {} when it cannot be funded.                         *)
TopUps(r, ceiling, budget) ==
  LET unlimited == Unlimited(resv[r].user)
      amount  == resv[r].amount
      room    == AtLeastZero(budget - (resv[r].settled + amount))
      want    == IF unlimited THEN ceiling * TopUpMultiple
                              ELSE Least(ceiling * TopUpMultiple, room)
      topUp   == Most(ceiling, want) - amount
      minimum == ceiling - amount
      free    == Available(period[resv[r].period])
  IN IF unlimited THEN {topUp}
     ELSE IF room < ceiling THEN {}
     ELSE IF topUp <= free THEN {topUp}
     ELSE IF minimum <= free THEN {minimum} ELSE {}

EnsureReservationHold(r, ceiling, budget, result) ==
  /\ resv[r].status # "unused"
  /\ \/ /\ result = "reservation_inactive"
        /\ resv[r].status # "open"
        /\ UNCHANGED <<period, resv, ledger, carried>>
     \/ /\ result = "ok"
        /\ resv[r].status = "open" /\ resv[r].amount >= ceiling
        /\ resv' = [resv EXCEPT ![r].lapsed = FALSE]
        /\ UNCHANGED <<period, ledger, carried>>
     \/ /\ result = "ok"
        /\ resv[r].status = "open" /\ resv[r].amount < ceiling
        /\ \E x \in TopUps(r, ceiling, budget) :
             Save(Extended(Books, r, x, TRUE))
     \/ /\ result = "insufficient_credits"
        /\ resv[r].status = "open" /\ resv[r].amount < ceiling
        /\ TopUps(r, ceiling, budget) = {}
        /\ UNCHANGED <<period, resv, ledger, carried>>
  /\ UNCHANGED <<account, call>>

(* releaseReservation does nothing unless the reservation is open; parking *)
(* keeps the hold.                                                         *)
ReleaseReservation(r, final) ==
  LET p == resv[r].period  held == resv[r].amount IN
  /\ resv[r].status # "unused"
  /\ \/ /\ resv[r].status # "open"
        /\ UNCHANGED <<period, resv, ledger, carried>>
     \/ /\ resv[r].status = "open" /\ final = "pending_reconciliation"
        /\ resv' = [resv EXCEPT ![r] = Parked(@)]
        /\ UNCHANGED <<period, ledger, carried>>
     \/ /\ resv[r].status = "open" /\ final \in {"settled", "released"}
        /\ Save([Books EXCEPT !.period[p].reserved = AtLeastZero(@ - held),
                              !.resv[r] = Closed(@, final),
                              !.ledger[p].holds = @ + held])
  /\ UNCHANGED <<account, call>>

(* What an administrator may find was spent on a parked hold.              *)
Billable(r) == Amounts \cup {0, resv[r].amount}

(* resolveReconciliation charges at most what is held and frees the rest.  *)
ResolveReconciliation(r, x) ==
  LET p       == resv[r].period
      held    == resv[r].amount
      charge  == Least(x, held)
      charged == [resv[r] EXCEPT !.settled = @ + charge]
  IN
  /\ resv[r].status = "pending_reconciliation"
  /\ Save([Books EXCEPT !.period[p].reserved = AtLeastZero(@ - held),
                        !.period[p].consumed = @ + charge,
                        !.resv[r] = Closed(charged, "settled"),
                        !.ledger[p].holds = @ + held,
                        !.ledger[p].reconciled = @ - charge])
  /\ UNCHANGED <<account, call>>

-----------------------------------------------------------------------------
(* settleProviderCall.  A key already recorded changes nothing.            *)

(* Fault: the idempotency key is not looked up.                            *)
SettledUnseen(k) == FALSE

Settled(k) == call[k].status # "unused"

SettleDuplicate(k) == Settled(k) /\ UNCHANGED vars

Recorded(pending, charge, p) ==
  [status |-> IF pending THEN "pending" ELSE "settled", charge |-> charge, period |-> p]

(* Against reservation r: the period is the one r points to, whatever its  *)
(* status; the hold gives back at most `release`; an unknown outcome parks *)
(* the reservation with its hold.                                          *)
SettleAgainst(k, r, reported, pending, release) ==
  LET p        == resv[r].period
      open     == resv[r].status = "open"
      charge   == IF pending THEN 0 ELSE reported
      released == IF open /\ ~pending THEN Least(resv[r].amount, release) ELSE 0
      after    == IF ~open THEN resv[r]
                  ELSE IF pending THEN Parked(resv[r])
                  ELSE Reduced(resv[r], released, charge)
  IN
  /\ ~Settled(k)
  /\ resv[r].status # "unused"
  /\ call' = [call EXCEPT ![k] = Recorded(pending, charge, p)]
  /\ Save([Books EXCEPT
       !.period[p].reserved = AtLeastZero(@ - released),
       !.period[p].consumed = @ + charge,
       !.resv[r] = after,
       !.ledger[p].holds = @ + released,
       !.ledger[p].charges = @ - charge])
  /\ UNCHANGED account

(* Without a reservation: the charge goes to the user's current period.    *)
SettleUnreserved(k, u, reported, pending) ==
  LET charge == IF pending THEN 0 ELSE reported IN
  /\ ~Settled(k)
  /\ \E e \in Ensured(Books, u) :
       LET b == e[1]  p == e[2] IN
       /\ call' = [call EXCEPT ![k] = Recorded(pending, charge, p)]
       /\ Save([b EXCEPT !.period[p].consumed = @ + charge,
                         !.ledger[p].charges = @ - charge])
  /\ UNCHANGED account

-----------------------------------------------------------------------------
(* The clock.                                                              *)

ReservationLapses(r) ==
  /\ resv[r].status = "open" /\ ~resv[r].lapsed
  /\ resv' = [resv EXCEPT ![r].lapsed = TRUE]
  /\ UNCHANGED <<account, period, call, ledger, carried>>

ResetFallsDue(p) ==
  /\ period[p].status = "current" /\ period[p].reset = "later"
  /\ period' = [period EXCEPT ![p].reset = "due"]
  /\ UNCHANGED <<account, resv, call, ledger, carried>>

-----------------------------------------------------------------------------
ReserveResults == {"ok", "too_many_concurrent_runs", "account_not_active", "insufficient_credits"}
HoldResults == {"ok", "reservation_inactive", "insufficient_credits"}

Administer ==
  \E u \in Users :
    \/ \E a \in Allowances, c \in Cadences : InitializeUserCredits(u, a, c)
    \/ \E a \in Allowances : SetAllowance(u, a) \/ AddCredits(u, a)
    \/ \E d \in Adjustments : RecordAdjustment(u, d)
    \/ \E c \in Cadences : SetResetCadence(u, c)
    \/ \E s \in Accounts : UpdateUser(u, s)

Reserve ==
  \/ \E S \in SUBSET Lapsed(resv) : SweepAbandonedReservations(S)
  \/ \E r \in ReservationIds, u \in Users, x \in Amounts, scope \in Scopes, limit \in Limits,
        result \in ReserveResults : ReserveCredits(r, u, x, scope, limit, result)
  \/ \E r \in ReservationIds :
       \/ TouchReservation(r)
       \/ \E x \in Amounts : ExtendReservation(r, x)
       \/ \E x \in Billable(r) : ResolveReconciliation(r, x)
       \/ \E x \in Amounts, budget \in Budgets, result \in HoldResults :
            EnsureReservationHold(r, x, budget, result)
       \/ \E final \in {"settled", "released", "pending_reconciliation"} :
            ReleaseReservation(r, final)

SettleProviderCall ==
  \E k \in CallKeys :
    \/ SettleDuplicate(k)
    \/ \E x \in Amounts \cup {0}, pending \in BOOLEAN :
         \/ \E r \in ReservationIds, release \in Amounts \cup {0} :
              SettleAgainst(k, r, x, pending, release)
         \/ \E u \in Users : SettleUnreserved(k, u, x, pending)

Clock ==
  \/ \E r \in ReservationIds : ReservationLapses(r)
  \/ \E p \in PeriodIds : ResetFallsDue(p)

Next == Administer \/ Reserve \/ SettleProviderCall \/ Clock

Spec == Init /\ [][Next]_vars
-----------------------------------------------------------------------------
(* Properties.                                                             *)

(* A user never has two current periods: opening, rolling and settling     *)
(* agree on the one they work on (lockCurrentPeriod, savePeriod).          *)
OneCurrentPeriod ==
  \A p, q \in PeriodIds :
    /\ period[p].status = "current" /\ period[q].status = "current"
    /\ period[p].user = period[q].user
    => p = q

(* Whatever is still held, parked or not, is held in its owner's current   *)
(* period: the roll carries every hold (maybeRollPeriod), so a top-up or a *)
(* release never works on a closed month.                                  *)
HoldsAreCurrent ==
  \A r \in ReservationIds :
    resv[r].status \in HeldStatuses =>
      /\ resv[r].period \in PeriodIds
      /\ period[resv[r].period].status = "current"
      /\ period[resv[r].period].user = resv[r].user

(* reservedSubunits of every period is exactly the sum of the holds that   *)
(* point to it: no path loses a hold or gives one back twice, and the      *)
(* Math.max(0, ...) of the releases never has anything to hide.            *)
HoldsAreBacked ==
  \A p \in PeriodIds : period[p].reserved = Total(AmountOf(resv), HeldIn(resv, p))

(* Every balance is the sum of its ledger rows: allowance and consumption  *)
(* exactly, the reserved amount up to what the monthly roll carries        *)
(* without a row (appendLedgerEntries commits with each balance change).   *)
LedgerExplainsBalances ==
  \A p \in PeriodIds :
    /\ period[p].allowance = ledger[p].allowance
    /\ period[p].consumed = -(ledger[p].charges + ledger[p].reconciled + ledger[p].adjustments)
    /\ period[p].reserved = carried[p] - ledger[p].holds

ChargeOf(cs) == [k \in CallKeys |-> cs[k].charge]
CallsIn(cs, p) == {k \in CallKeys : cs[k].period = p}

(* The charge rows of a period add up to the charges of the provider calls *)
(* recorded in it: each idempotency key is charged once, whatever the      *)
(* retries (settleProviderCall).                                           *)
ChargedOnce ==
  \A p \in PeriodIds : -ledger[p].charges = Total(ChargeOf(call), CallsIn(call, p))

(* A step that grows a hold leaves the balance of a limited user's period  *)
(* at or above zero, also when the same transaction recovered other holds  *)
(* or rolled the month (reserveCredits, ensureReservationHold).            *)
HoldsAreFunded ==
  [][\A r \in ReservationIds :
       resv'[r].amount > resv[r].amount =>
         Unlimited(resv'[r].user) \/ Available(period'[resv'[r].period]) >= 0]_vars
=============================================================================
