--------------------------- MODULE MCJobPipeline ----------------------------
(* JobPipeline on small instances: who owns which job, and symmetric loops. *)
EXTENDS JobPipeline, TLC

CONSTANTS u1, u2, d1, d2, i1, i2, s1, s2   \* model values

OneUser == [j \in 1..JobCount |-> u1]
TwoUsers == [j \in 1..JobCount |-> IF j = 1 THEN u1 ELSE u2]

LoopSymmetry ==
  Permutations(Dispatchers) \cup Permutations(Ingesters) \cup Permutations(Sweepers)
=============================================================================
