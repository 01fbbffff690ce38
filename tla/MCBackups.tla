----------------------------- MODULE MCBackups -----------------------------
(* Instances of Backups: two processes.                                    *)
EXTENDS Backups, TLC

(* The retention of three backups on three days, with a crash or a failed  *)
(* request; a nightly backup and its retry that fail; and restores beside  *)
(* two backups of one minute.                                              *)
MCLimits ==
  {[backups |-> 3, writes |-> 0, minutes |-> 2, restores |-> 0, faults |-> 0, crashes |-> 1],
   [backups |-> 3, writes |-> 0, minutes |-> 2, restores |-> 0, faults |-> 1, crashes |-> 0],
   [backups |-> 2, writes |-> 0, minutes |-> 0, restores |-> 0, faults |-> 2, crashes |-> 0],
   [backups |-> 2, writes |-> 1, minutes |-> 0, restores |-> 2, faults |-> 1, crashes |-> 0]}

MCSymmetry == Permutations(Servers)
=============================================================================
