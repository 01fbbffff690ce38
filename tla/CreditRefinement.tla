-------------------------- MODULE CreditRefinement --------------------------
(***************************************************************************)
(* The credit books implement one purse per user: the current period is    *)
(* the purse, closed periods and the ledger are not seen, and the reserved *)
(* amount of a period is what the holds in it add up to.                   *)
(***************************************************************************)
EXTENDS CreditLedger

(* A figure of u's current period; a user without one has nothing yet.     *)
Figure(u, of) ==
  IF CurrentOf(period, u) = {} THEN 0 ELSE of[CHOOSE p \in CurrentOf(period, u) : TRUE]

PurseAllowance == [u \in Users |-> Figure(u, [p \in PeriodIds |-> period[p].allowance])]
PurseSpent == [u \in Users |-> Figure(u, [p \in PeriodIds |-> period[p].consumed])]

HoldState(status) ==
  CASE status = "unused" -> "none"
    [] status = "open" -> "open"
    [] status = "pending_reconciliation" -> "parked"
    [] OTHER -> "over"

PurseHold ==
  [r \in ReservationIds |->
     [owner |-> resv[r].user, state |-> HoldState(resv[r].status), amount |-> resv[r].amount]]

Purse == INSTANCE CreditPurse
           WITH allowance <- PurseAllowance, spent <- PurseSpent, hold <- PurseHold

(* Every transaction of the books is a step of the purse or changes no     *)
(* purse: holds, top-ups and reservations are funded by what is free once  *)
(* every hold of the user is counted, through recoveries and month rolls.  *)
ImplementsPurse == Purse!Spec
=============================================================================
