------------------------------- MODULE Totals -------------------------------
(***************************************************************************)
(* The sum of f[x] over the x of a finite set S, written as the size of a  *)
(* set: every x contributes f[x] distinct units <<x, 1>> ... <<x, f[x]>>.  *)
(* A sum defined this way needs no recursion, so the facts the proofs use  *)
(* about it (CreditProofs) follow from those of Cardinality.               *)
(***************************************************************************)
EXTENDS Integers, FiniteSets

Units(f, x) == {x} \X (1..f[x])

AllUnits(f, S) == UNION {Units(f, x) : x \in S}

Total(f, S) == Cardinality(AllUnits(f, S))
=============================================================================
