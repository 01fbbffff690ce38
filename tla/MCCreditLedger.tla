--------------------------- MODULE MCCreditLedger ---------------------------
(* Instances of CreditLedger small enough for TLC.                         *)
EXTENDS CreditRefinement, TLC

MCAdjustments == {-1, 1}

(* Period, reservation and call ids are interchangeable.                   *)
IdSymmetry ==
  Permutations(PeriodIds) \cup Permutations(ReservationIds) \cup Permutations(CallKeys)
    \cup Permutations(Users)
=============================================================================
