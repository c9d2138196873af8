------------------------------ MODULE JobSystem ------------------------------
(***************************************************************************)
(* The Web's scheduler and the Runner joined by the Runner's Unix socket:  *)
(* what a worker sees of a run is what _run sent, and a stop or disable    *)
(* handler waits for what the Runner did.  A stop, disable or enable       *)
(* request travels ("sent"), is carried out and is answered.               *)
(*                                                                         *)
(* With "runner_error" in Faults the Runner may fail at a request, or die  *)
(* ("eof" then lets a worker see its streams end).  file_list always       *)
(* answers.                                                                *)
(***************************************************************************)
EXTENDS JobManager

CONSTANTS CleanStop,
          MaxRunnerCrashes  \* bound

VARIABLES enabled, stored, registered, marked, handler, unit, lines, client, wire,
          asked,      \* the request of each handler in flight, and its answer
          stops,      \* the jobs whose stop request of close is on its way
          runnerCrashes

R == INSTANCE RunnerServer

runner ==
    <<enabled, stored, registered, marked, handler, unit, lines, client, wire>>
socket == <<asked, stops, runnerCrashes>>
systemVars == <<vars, runner, socket>>

SystemInit ==
    /\ Init
    /\ R!Init
    /\ asked = [c \in Callers |-> "none"]
    /\ stops = {}
    /\ runnerCrashes = 0

WebOnly == UNCHANGED <<runner, socket>>
RunnerOnly == UNCHANGED <<vars, socket>>

-----------------------------------------------------------------------------
(* Workers.                                                                *)

\* The jobs whose stream a worker leaves in this step.
Streaming(f, j) == \E w \in Workers : f[w].job = j /\ f[w].pc \in {"stream", "drain"}
Left_Never == {}  \* mutant: the connection is not closed
Left == {j \in Jobs : Streaming(worker, j) /\ ~Streaming(worker', j)}

\* The run request is sent when the first list is in and the job still wanted.
SystemListed(w) ==
    /\ Listed(w, "ok")
    /\ IF worker'[w].pc = "stream"
       THEN R!RunRequest(worker[w].job)
       ELSE UNCHANGED runner
    /\ UNCHANGED socket

\* A worker reads the next item; it hangs up when it leaves the stream.
SystemStream(w) ==
    LET j == worker[w].job IN
    /\ worker[w].pc \in {"stream", "drain"}
    /\ IF wire[j] # <<>>
       THEN /\ IF Head(wire[j]) = "error" THEN StreamRaises(w, "runner_error")
               ELSE \/ StreamItem(w, Head(wire[j]))
                    \/ /\ Head(wire[j]) = "output"
                       /\ StreamItem(w, "failed")
            /\ wire' = [wire EXCEPT ![j] = Tail(@)]
       ELSE /\ \/ handler[j] \in {"over", "died"} /\ StreamEnd(w)
               \/ handler[j] = "reset" /\ StreamRaises(w, "os_error")
            /\ UNCHANGED wire
    /\ R!ClientCloses(Left)
    /\ UNCHANGED <<enabled, stored, registered, marked, handler, unit, lines,
                   socket>>

SystemWorker(w) ==
    \/ /\ \/ Dequeue(w) \/ Claim(w) \/ Announce(w) \/ Done(w) \/ Report(w)
          \/ \E changed \in BOOLEAN : Compare(w, "ok", changed)
       /\ WebOnly
    \/ SystemListed(w)
    \/ SystemStream(w)

-----------------------------------------------------------------------------
(* Handlers.                                                               *)

\* Awaiting the Runner: the request is on its way.
Waits == {"stop_rpc", "disable_rpc", "enable_rpc"}
Request(c) == asked' = [asked EXCEPT ![c] =
                          IF call'[c].pc \in Waits THEN "sent" ELSE "none"]

SystemCall(c) ==
    /\ \/ StopEvent(c)
       \/ DisableBegin(c)
       \/ DisableNext(c)
       \/ \E j \in Jobs : StopBegin(c, j)
       \/ \E u \in Users : DisableLoad(c, u) \/ EnableLoad(c, u)
       \/ asked[c] # "sent" /\ (\/ StopReply(c, asked[c])
                                \/ DisableReply(c, asked[c])
                                \/ EnableReply(c, asked[c]))
    /\ Request(c)
    /\ UNCHANGED <<runner, stops, runnerCrashes>>

\* The Runner carries a handler's request out, or fails at it and says so.
Carried(c) ==
    CASE call[c].pc = "stop_rpc" -> R!Stop(call[c].job)
      [] call[c].pc = "disable_rpc" -> R!Disable(call[c].user)
      [] call[c].pc = "enable_rpc" -> R!Enable(call[c].user)
Failed(c) ==
    CASE call[c].pc = "stop_rpc" -> R!StopFails(call[c].job)
      [] call[c].pc = "disable_rpc" -> R!SaveFails(call[c].user, FALSE)
      [] call[c].pc = "enable_rpc" -> R!SaveFails(call[c].user, TRUE)
Serve(c) ==
    /\ asked[c] = "sent"
    /\ \/ Carried(c) /\ asked' = [asked EXCEPT ![c] = "ok"]
       \/ /\ "runner_error" \in Faults
          /\ Failed(c)
          /\ asked' = [asked EXCEPT ![c] = "runner_error"]
    /\ UNCHANGED <<vars, stops, runnerCrashes>>

-----------------------------------------------------------------------------
(* The processes.                                                          *)

SystemStart == StartStep /\ WebOnly

SystemCloseBegin ==
    /\ CloseBegin
    /\ stops' = todo'.stop
    /\ UNCHANGED <<runner, asked, runnerCrashes>>

\* A stop request of close is carried out or fails, and is answered; close goes
\* on after either.
ServeClose(j) ==
    /\ j \in stops
    /\ R!Stop(j) \/ ("runner_error" \in Faults /\ R!StopFails(j))
    /\ stops' = stops \ {j}
    /\ UNCHANGED <<vars, asked, runnerCrashes>>

SystemCloseReply(j) == j \notin stops /\ CloseReply(j) /\ WebOnly

\* The Web process ends: its connections close and systemd stops its units.
WebGone ==
    /\ R!ClientCloses(Jobs)
    /\ R!Unbound
    /\ asked' = [c \in Callers |-> "none"]
    /\ stops' = {}
    /\ UNCHANGED <<enabled, stored, registered, marked, handler, lines, wire,
                   runnerCrashes>>

SystemHalt_Impatient ==  \* mutant: ends before its stop requests are answered
    /\ \/ Crash
       \/ web = "closing" /\ loop = NoTask /\ Halt /\ UNCHANGED restarts
    /\ WebGone
SystemHalt == (Crash \/ CloseEnd) /\ WebGone

\* The Runner dies and is started again: requests not yet answered are lost
\* and raise RunnerError.
RunnerCrash ==
    /\ "runner_error" \in Faults
    /\ runnerCrashes < MaxRunnerCrashes
    /\ runnerCrashes' = runnerCrashes + 1
    /\ R!Crash
    /\ asked' = [c \in Callers |-> IF asked[c] = "sent" THEN "runner_error"
                                                        ELSE asked[c]]
    /\ stops' = {}
    /\ UNCHANGED vars

RunnerStep(j) == (R!RunStep(j) \/ R!UnitStep(j)) /\ RunnerOnly

SystemNext ==
    \/ SystemStart
    \/ \E j \in Jobs : Send(j) /\ WebOnly
    \/ \E w \in Workers : SystemWorker(w)
    \/ \E c \in Callers : SystemCall(c) \/ Serve(c)
    \/ \E j \in Jobs : RunnerStep(j)
    \/ SystemCloseBegin
    \/ \E j \in Jobs : ServeClose(j) \/ SystemCloseReply(j)
    \/ SystemHalt
    \/ RunnerCrash

SystemSpec == SystemInit /\ [][SystemNext]_systemVars

\* As JobManager and RunnerServer; the Runner serves what it is asked.
SystemFairSpec ==
    /\ SystemSpec
    /\ WF_systemVars(SystemStart)
    /\ \A w \in Workers : SF_systemVars(SystemWorker(w))
    /\ \A c \in Callers :
          /\ SF_systemVars(SystemCall(c) /\ call[c] # IdleCall)
          /\ WF_systemVars(Serve(c))
    /\ \A j \in Jobs :
          /\ WF_systemVars(R!RunStep(j) /\ RunnerOnly)
          /\ WF_systemVars(R!UnitStep(j) /\ RunnerOnly)
          /\ WF_systemVars(ServeClose(j))
          /\ SF_systemVars(SystemCloseReply(j))
    /\ SF_systemVars(SystemHalt /\ web = "closing" /\ todo.stop = {})

-----------------------------------------------------------------------------
(* Properties.                                                             *)

\* Web and Runner together take no step that the scheduler over a free Runner
\* could not take: what holds of JobManager holds here.
ImplementsScheduler == Spec

\* A job is recorded as completed only if its Claude process ended by itself
\* with status 0: nothing else is passed off as success.
CompletedIsReal ==
    \A j \in Jobs : state[j] = "completed" => unit[j] = "done"

\* ... or, if it was not, then either its process was stopped where a SIGTERM
\* counts as success, or the Runner died in the middle of the run: whatever
\* fails and whoever dies, no job is completed for any other reason.
CompletedIsExplained ==
    \A j \in Jobs : state[j] = "completed" =>
        \/ unit[j] = "done"
        \/ CleanStop /\ unit[j] = "killed"
        \/ handler[j] = "died"

\* A process that is still at work belongs to a running job, or the Runner
\* will stop it at its next line because the Web has hung up (or is about to,
\* a worker being still on the stream of a cancelled job; what systemd is
\* stopping counts as at work).  Two of one user may
\* be at work for that long: a stop that finds no unit yet is answered, and the
\* next message starts another.  So may one of a user who is disabled: _disable
\* stops the units that are there.
LiveUnitIsAccountedFor ==
    \A j \in R!Live :
        \/ state[j] = "running"
        \/ client[j] = "closed"
        \/ state[j] = "cancelled" /\ Streaming(worker, j)

\* The connection of every run closes, so that the Runner learns that nobody
\* listens.
ConnectionsClose ==
    \A j \in Jobs : client[j] = "open" ~> client[j] = "closed"
=============================================================================
