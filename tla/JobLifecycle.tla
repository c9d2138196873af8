---------------------------- MODULE JobLifecycle ----------------------------
(***************************************************************************)
(* What the scheduler promises about jobs and accounts, without queue,     *)
(* workers, locks, Runner or crashes in the middle of a handler: the       *)
(* lifecycle of the rows of `jobs` and of users.is_active.  A user has one *)
(* active job at most and none while inactive; a queued job is run or      *)
(* cancelled, never dropped; what has ended stays as it ended.             *)
(***************************************************************************)
CONSTANTS Users, Jobs, Owner

VARIABLES state, active
vars == <<state, active>>

Moves(j, from, to) ==
    /\ state[j] = from
    /\ state' = [state EXCEPT ![j] = to]
    /\ UNCHANGED active

\* No job of u is queued or running.
Idle(u) == \A j \in Jobs : Owner[j] = u => state[j] \notin {"queued", "running"}

Init ==
    /\ state = [j \in Jobs |-> "none"]
    /\ active = [u \in Users |-> TRUE]

Submit(j) ==
    /\ active[Owner[j]]
    /\ Idle(Owner[j])
    /\ Moves(j, "none", "queued")

Begin(j) == active[Owner[j]] /\ Moves(j, "queued", "running")

End(j, outcome) == Moves(j, "running", outcome)

Cancel(j) == Moves(j, "queued", "cancelled") \/ Moves(j, "running", "cancelled")

\* The service restarts: every running job is interrupted, at once.
Restart ==
    /\ state' = [j \in Jobs |-> IF state[j] = "running" THEN "interrupted"
                                                        ELSE state[j]]
    /\ UNCHANGED active

SetActive(u, on) ==
    /\ on \/ Idle(u)
    /\ active' = [active EXCEPT ![u] = on]
    /\ UNCHANGED state

Next ==
    \/ \E j \in Jobs : Submit(j) \/ Begin(j) \/ Cancel(j)
    \/ \E j \in Jobs, outcome \in {"completed", "failed"} : End(j, outcome)
    \/ Restart
    \/ \E u \in Users, on \in BOOLEAN : SetActive(u, on)

Spec == Init /\ [][Next]_vars
=============================================================================
