---------------------------- MODULE MCEventStream ----------------------------
(* Values of EventStream's constants for TLC.                              *)
EXTENDS EventStream

CONSTANTS j1, j2, u1

OneUser == [j \in Jobs |-> u1]
=============================================================================
