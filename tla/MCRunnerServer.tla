--------------------------- MODULE MCRunnerServer ---------------------------
(* Values of RunnerServer's constants for TLC.                             *)
EXTENDS RunnerServer

CONSTANTS j1, j2, u1

OneUser == [j \in Jobs |-> u1]
=============================================================================
