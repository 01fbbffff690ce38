---------------------------- MODULE MCMeteredRun ----------------------------
(* Instances of MeteredRun small enough for TLC.                           *)
EXTENDS MeteredRun, TLC

MCAmounts == 0..8

MCAdjustments == {1}

(* Period, run and call ids are interchangeable.                           *)
IdSymmetry ==
  Permutations(PeriodIds) \cup Permutations(ReservationIds) \cup Permutations(CallKeys)
=============================================================================
