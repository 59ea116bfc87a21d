------------------------------ MODULE MCRadio -------------------------------
(* RadioCoordinator on small instances: interchangeable workers and fillers. *)
EXTENDS RadioCoordinator, TLC

CONSTANTS c1, c2, f1, f2   \* model values

RadioSymmetry == Permutations(Coordinators) \cup Permutations(StaticSongs)
=============================================================================
