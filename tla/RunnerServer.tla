---------------------------- MODULE RunnerServer ----------------------------
(***************************************************************************)
(* The privileged Runner (webapp/runner_server.py): the part of it that    *)
(* starts, watches and stops one transient systemd unit per job.           *)
(*                                                                         *)
(* One asyncio loop serves every connection; `systemctl stop` runs in a    *)
(* blocking subprocess, so stop, disable and enable are single steps.      *)
(* systemd-run is forked by _run and asks systemd for the unit on its own: *)
(* between the fork and the unit's start ("pending") a `systemctl stop` of *)
(* it finds nothing to stop.  A stop may outlast the Runner's patience: the *)
(* unit is then "stopping" and at work until systemd is through with it.   *)
(* The unit's life is systemd's and Claude's; systemctl reaches systemd.   *)
(*                                                                         *)
(* A job's id is never reused, so handlers, units and connections are kept *)
(* by job.                                                                 *)
(***************************************************************************)
EXTENDS Naturals, Sequences, FiniteSets

CONSTANTS Users, Jobs,
          Owner,      \* Owner[j]: the user in the run request of job j
          MaxOutput,  \* bound: output lines per run
          CleanStop   \* TRUE if systemd-run may report success for a unit that
                      \* was stopped by SIGTERM

ASSUME RunnerAssumption ==
    Owner \in [Jobs -> Users] /\ MaxOutput \in Nat /\ CleanStop \in BOOLEAN

VARIABLES
    enabled,     \* the registry in memory: enabled[u]
    stored,      \* ... and in its file
    registered,  \* keys of active_units
    marked,      \* keys of cancelled_jobs
    handler,     \* where _run of each job is
    unit,        \* the transient unit of each job
    lines,       \* output lines sent for each job (bounds the model)
    client,      \* the Web's end of the run's connection
    wire         \* what _run sent and the client has not read

runnerVars ==
    <<enabled, stored, registered, marked, handler, unit, lines, client, wire>>

\* "accepted": the request is in the socket; "spawning": creating the
\* subprocess; "reading": reading its output; "over": the handler returned.
\* "died": the Runner died with it; "reset": the Runner died with the request
\* unread, which resets the connection instead of ending it.
HandlerPcs_Short ==  \* mutant
    {"none", "accepted", "spawning", "reading", "over", "died"}
HandlerPcs ==
    {"none", "accepted", "spawning", "reading", "over", "died", "reset"}
\* "stopping": systemd was asked to stop it and is at it; "done": exited with
\* 0; "failed": another status, or out of time; "killed": stopped.
UnitStates == {"none", "pending", "alive", "stopping", "done", "failed", "killed"}
AtWork(j) == unit[j] \in {"alive", "stopping"}
Live == {j \in Jobs : AtWork(j)}

Init ==
    /\ enabled = [u \in Users |-> TRUE]
    /\ stored = [u \in Users |-> TRUE]
    /\ registered = {}
    /\ marked = {}
    /\ handler = [j \in Jobs |-> "none"]
    /\ unit = [j \in Jobs |-> "none"]
    /\ lines = [j \in Jobs |-> 0]
    /\ client = [j \in Jobs |-> "none"]
    /\ wire = [j \in Jobs |-> <<>>]

\* systemctl stop of the units of the jobs in S.
SystemctlStop(S) ==
    unit' = [j \in Jobs |-> IF j \in S /\ AtWork(j) THEN "killed" ELSE unit[j]]

\* ... of one unit, for longer than the timeout of 30 s: systemctl is given up,
\* TimeoutExpired is raised and systemd goes on.
SystemctlTimesOut(j) ==
    /\ AtWork(j)
    /\ unit' = [unit EXCEPT ![j] = "stopping"]

\* _send: it raises if the client is gone (guards say which).
Open(j) == client[j] = "open"
Sent(j, item) == wire' = [wire EXCEPT ![j] = Append(@, item)]
At(j, pc) == handler' = [handler EXCEPT ![j] = pc]

\* The finally of _run: the job is forgotten.
Forgotten(j) ==
    /\ registered' = registered \ {j}
    /\ marked' = marked \ {j}

\* ... with the process still there: its unit is stopped first.  If that times
\* out, the rest of the finally is skipped.
Finally(j) ==
    \/ SystemctlStop({j}) /\ Forgotten(j)
    \/ SystemctlTimesOut(j) /\ UNCHANGED <<registered, marked>>

-----------------------------------------------------------------------------
(* The handler of one run.                                                 *)

\* The Web connects and sends the request.
RunRequest(j) ==
    /\ client[j] = "none"
    /\ client' = [client EXCEPT ![j] = "open"]
    /\ At(j, "accepted")
    /\ UNCHANGED <<enabled, stored, registered, marked, unit, lines, wire>>

\* _run up to its first await: a disabled user is refused; else the unit's
\* name is registered and "started" is sent.  If that send raises, the handler
\* ends before its try, and the name stays registered.
RunBegin(j) ==
    /\ handler[j] = "accepted"
    /\ IF ~enabled[Owner[j]]
       THEN /\ At(j, "over")
            /\ IF Open(j) THEN Sent(j, "error") ELSE UNCHANGED wire
            /\ UNCHANGED registered
       ELSE /\ registered' = registered \cup {j}
            /\ IF Open(j) THEN Sent(j, "started") /\ At(j, "spawning")
                          ELSE UNCHANGED wire /\ At(j, "over")
    /\ UNCHANGED <<enabled, stored, marked, unit, lines, client>>

\* systemd-run is forked.  A job stopped in the meantime goes no further: its
\* systemd-run is terminated before it was given the prompt.  Else the prompt
\* is written.
RunSpawn_Unmarked(j) ==  \* mutant: does not look for the mark
    /\ handler[j] = "spawning"
    /\ At(j, "reading")
    /\ unit' = [unit EXCEPT ![j] = "pending"]
    /\ UNCHANGED <<enabled, stored, registered, marked, lines, client, wire>>
RunSpawn(j) ==
    /\ handler[j] = "spawning"
    /\ At(j, "reading")
    /\ unit' = [unit EXCEPT ![j] = IF j \in marked THEN "failed" ELSE "pending"]
    /\ UNCHANGED <<enabled, stored, registered, marked, lines, client, wire>>

\* A line of output is passed on; if the client is gone the send raises and
\* the finally stops the unit.
RunOutput_Leaves(j) ==  \* mutant: no stop in the finally
    /\ handler[j] = "reading" /\ AtWork(j)
    /\ lines[j] < MaxOutput
    /\ lines' = [lines EXCEPT ![j] = @ + 1]
    /\ IF Open(j) THEN Sent(j, "output") /\ UNCHANGED <<registered, marked, handler>>
                  ELSE At(j, "over") /\ Forgotten(j) /\ UNCHANGED wire
    /\ UNCHANGED <<enabled, stored, client, unit>>
RunOutput(j) ==
    /\ handler[j] = "reading" /\ AtWork(j)
    /\ lines[j] < MaxOutput
    /\ lines' = [lines EXCEPT ![j] = @ + 1]
    /\ IF Open(j)
       THEN Sent(j, "output") /\ UNCHANGED <<registered, marked, handler, unit>>
       ELSE Finally(j) /\ At(j, "over") /\ UNCHANGED wire
    /\ UNCHANGED <<enabled, stored, client>>

\* Over the turn limit the unit is stopped and the exit code is 124.
RunLimit(j) ==
    /\ handler[j] = "reading" /\ AtWork(j)
    /\ unit' = [unit EXCEPT ![j] = "failed"]
    /\ UNCHANGED <<enabled, stored, registered, marked, handler, lines, client, wire>>

\* A line over the stream limit raises, and so does the stop at the turn limit
\* when it times out: the finally stops the unit and the error is sent.
RunRaises(j) ==
    /\ handler[j] = "reading" /\ AtWork(j)
    /\ Finally(j)
    /\ At(j, "over")
    /\ IF Open(j) THEN Sent(j, "error") ELSE UNCHANGED wire
    /\ UNCHANGED <<enabled, stored, lines, client>>

\* systemd-run has exited: its status is sent and the job forgotten.  If it was
\* gone before it had read the prompt, writing the prompt raises instead.
ExitItems_Code(j) ==  \* mutant: only a failure of Claude counts
    IF unit[j] = "failed" THEN {"exit_bad"} ELSE {"exit_ok"}
ExitItems(j) ==
    IF unit[j] = "done" THEN {"exit_ok"}
    ELSE {"exit_bad", "error"}
         \cup (IF unit[j] = "killed" /\ CleanStop THEN {"exit_ok"} ELSE {})

RunFinish_Blocked(j) ==  \* mutant: waits for a client that is gone
    /\ handler[j] = "reading" /\ Open(j)
    /\ unit[j] \in {"done", "failed", "killed"}
    /\ \E item \in ExitItems(j) : Sent(j, item)
    /\ At(j, "over")
    /\ Forgotten(j)
    /\ UNCHANGED <<enabled, stored, unit, lines, client>>
RunFinish(j) ==
    /\ handler[j] = "reading"
    /\ unit[j] \in {"done", "failed", "killed"}
    /\ IF Open(j) THEN \E item \in ExitItems(j) : Sent(j, item)
                  ELSE UNCHANGED wire
    /\ At(j, "over")
    /\ Forgotten(j)
    /\ UNCHANGED <<enabled, stored, unit, lines, client>>

-----------------------------------------------------------------------------
(* The other operations.                                                   *)

\* _stop marks the job, so that a run still on its way will not start.  Marks
\* over an hour old are dropped; a handler reaches its check of the mark within
\* seconds.
Marked(j) ==
    \E old \in SUBSET {k \in marked : handler[k] \notin {"accepted", "spawning"}} :
        marked' = (marked \ old) \cup {j}

\* _stop: the job is marked and its unit stopped, or that times out.
Stop(j) ==
    /\ Marked(j)
    /\ IF j \in registered THEN SystemctlStop({j}) ELSE UNCHANGED unit
    /\ UNCHANGED <<enabled, stored, registered, handler, lines, client, wire>>
StopFails(j) ==
    /\ Marked(j)
    /\ j \in registered
    /\ SystemctlTimesOut(j)
    /\ UNCHANGED <<enabled, stored, registered, handler, lines, client, wire>>

\* _disable: the registry says no from now on, and the user's units are
\* stopped and forgotten; nothing is marked.
Disable(u) ==
    /\ enabled' = [enabled EXCEPT ![u] = FALSE]
    /\ stored' = enabled'
    /\ SystemctlStop({j \in registered : Owner[j] = u})
    /\ registered' = {j \in registered : Owner[j] # u}
    /\ UNCHANGED <<marked, handler, lines, client, wire>>

\* _enable.
Enable(u) ==
    /\ enabled' = [enabled EXCEPT ![u] = TRUE]
    /\ stored' = enabled'
    /\ UNCHANGED <<registered, marked, handler, unit, lines, client, wire>>

\* _disable and _enable when registry.save raises: the entry is changed in
\* memory only, and nothing more happens.
SaveFails(u, flag) ==
    /\ enabled' = [enabled EXCEPT ![u] = flag]
    /\ UNCHANGED <<stored, registered, marked, handler, unit, lines, client, wire>>

-----------------------------------------------------------------------------
(* The surroundings.                                                       *)

\* systemd creates the unit, or cannot.
UnitStarts(j) ==
    /\ unit[j] = "pending"
    /\ \E s \in {"alive", "failed"} : unit' = [unit EXCEPT ![j] = s]
    /\ UNCHANGED <<enabled, stored, registered, marked, handler, lines, client, wire>>

\* Claude exits, its time is up (RuntimeMaxSec), or systemd has stopped it.
UnitEnds(j) ==
    /\ AtWork(j)
    /\ \E s \in {"done", "failed"} \cup (IF unit[j] = "stopping" THEN {"killed"} ELSE {}) :
          unit' = [unit EXCEPT ![j] = s]
    /\ UNCHANGED <<enabled, stored, registered, marked, handler, lines, client, wire>>

\* A unit is bound to the Runner and the Web (BindsTo): when one of them is
\* gone systemd sets out to stop it, and starts none.
Unbound ==
    unit' = [j \in Jobs |-> CASE unit[j] = "alive" -> "stopping"
                              [] unit[j] = "pending" -> "killed"
                              [] OTHER -> unit[j]]

\* The Web leaves the connections of the jobs in S: a worker is done with the
\* stream, or the process ended.
ClientCloses(S) ==
    client' = [j \in Jobs |-> IF j \in S /\ client[j] = "open" THEN "closed"
                                                                ELSE client[j]]

\* The Runner dies and is started again: its memory is lost and the registry is
\* read from its file.
Crash ==
    /\ enabled' = stored
    /\ registered' = {}
    /\ marked' = {}
    /\ handler' = [j \in Jobs |->
                     CASE handler[j] = "accepted" -> "reset"
                       [] handler[j] \in {"spawning", "reading"} -> "died"
                       [] OTHER -> handler[j]]
    /\ Unbound
    /\ UNCHANGED <<stored, lines, client, wire>>

RunStep(j) ==
    \/ RunBegin(j)
    \/ RunSpawn(j)
    \/ RunOutput(j)
    \/ RunLimit(j)
    \/ RunRaises(j)
    \/ RunFinish(j)

UnitStep(j) == UnitStarts(j) \/ UnitEnds(j)

\* The Runner by itself, called by any client at any time.
Next ==
    \/ \E j \in Jobs : RunRequest(j) \/ RunStep(j) \/ UnitStep(j)
    \/ \E j \in Jobs : Stop(j) \/ StopFails(j)
    \/ \E u \in Users : Disable(u) \/ Enable(u)
    \/ \E u \in Users, flag \in BOOLEAN : SaveFails(u, flag)
    \/ \E j \in Jobs :
          ClientCloses({j}) /\ UNCHANGED <<enabled, stored, registered, marked,
                                           handler, unit, lines, wire>>
    \/ Crash

Spec == Init /\ [][Next]_runnerVars

\* The loop and systemd do what is ready; a unit ends at its runtime limit.
FairSpec ==
    /\ Spec
    /\ \A j \in Jobs : WF_runnerVars(RunStep(j)) /\ WF_runnerVars(UnitStep(j))

-----------------------------------------------------------------------------
(* Properties.                                                             *)

Items == {"started", "output", "exit_ok", "exit_bad", "error"}

\* The shape of the state.
TypeOK ==
    /\ enabled \in [Users -> BOOLEAN]
    /\ stored \in [Users -> BOOLEAN]
    /\ registered \subseteq Jobs
    /\ marked \subseteq Jobs
    /\ handler \in [Jobs -> HandlerPcs]
    /\ unit \in [Jobs -> UnitStates]
    /\ lines \in [Jobs -> 0..MaxOutput]
    /\ client \in [Jobs -> {"none", "open", "closed"}]
    /\ wire \in [Jobs -> Seq(Items)]

\* No orphan: a unit that may start or run has a handler that reads it and
\* will stop it when the client is gone (there is no other watchdog but the
\* runtime limit).  One that is at work without a handler, because the Runner
\* died or gave systemctl up, is being stopped by systemd.
UnitIsWatched ==
    \A j \in Jobs : unit[j] \in {"pending", "alive"} => handler[j] = "reading"

\* A job that was stopped before its process was forked never gets a unit,
\* whatever the order of the handler's steps, other stops, pruning, disabling
\* and a crash (cancelled_jobs is what makes it so).
StoppedNeverStarts ==
    \A j \in Jobs :
        [](j \in marked /\ handler[j] \in {"accepted", "spawning"}
           => [](unit[j] \notin {"pending", "alive"}))

\* The stream ends well formed: an exit or error item is last, there is one at
\* most, and a zero exit is only reported for a unit that ended by itself with
\* 0, or, where a SIGTERM counts as success, was stopped.
ExitIsTrue ==
    \A j \in Jobs : \A i \in DOMAIN wire[j] :
        /\ wire[j][i] \in {"exit_ok", "exit_bad", "error"} =>
              i = Len(wire[j]) /\ handler[j] = "over"
        /\ wire[j][i] = "exit_ok" =>
              unit[j] = "done" \/ (CleanStop /\ unit[j] = "killed")

\* The handler of every run returns, whoever hangs up or stops it.
RunsEnd ==
    \A j \in Jobs :
        handler[j] = "accepted" ~> handler[j] \in {"over", "died", "reset"}
=============================================================================
