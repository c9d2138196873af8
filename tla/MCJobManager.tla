---------------------------- MODULE MCJobManager ----------------------------
(* Values of JobManager's constants for TLC.                               *)
EXTENDS JobManager, TLC

CONSTANTS j1, j2, j3, u1, u2

OneUser == [j \in Jobs |-> u1]
TwoUsers == [j \in Jobs |-> IF j = j3 THEN u2 ELSE u1]

Symmetry == Permutations(Workers) \cup Permutations(Callers)
=============================================================================
