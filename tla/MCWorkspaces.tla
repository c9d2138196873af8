---------------------------- MODULE MCWorkspaces ----------------------------
(* Values of Workspaces' constants for TLC: the first file is in every     *)
(* version of the template, the second one is new in version 2.            *)
EXTENDS Workspaces

CONSTANTS master, prompt, added, u1, r1

AddedLater == [f \in Files |-> IF f = added THEN 2 ELSE 1]
OneUser == [r \in Uploads |-> u1]

\* Bound: units touch a preserved file only where nothing has been uploaded.  An
\* upgrade leaves these files alone, and uploads do not look at them.
Apart ==
    \/ \A r \in Uploads : import[r] = "none"
    \/ \A u \in Users, f \in Preserved :
          home[u] => {work[u][f], head[u][f]} \subseteq Versions
=============================================================================
