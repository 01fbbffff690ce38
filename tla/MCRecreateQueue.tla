-------------------------- MODULE MCRecreateQueue ---------------------------
(* Instances of RecreateQueue small enough for TLC.                        *)
EXTENDS RecreateQueue

(* One job with a stop, a build outside the queue and a fault at any step; *)
(* two jobs that compete.                                                  *)
MCScenarios ==
  {[jobs |-> {1}, stops |-> {1}, outside |-> TRUE, faults |-> 1],
   [jobs |-> {1, 2}, stops |-> {}, outside |-> FALSE, faults |-> 0]}
=============================================================================
