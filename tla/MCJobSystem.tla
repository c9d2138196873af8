----------------------------- MODULE MCJobSystem -----------------------------
(* Values of JobSystem's constants for TLC.                                *)
EXTENDS JobSystem

CONSTANTS j1, u1

OneUser == [j \in Jobs |-> u1]
=============================================================================
