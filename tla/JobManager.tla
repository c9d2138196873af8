----------------------------- MODULE JobManager -----------------------------
(***************************************************************************)
(* The job scheduler of the Web process (webapp/jobs.py) with the HTTP     *)
(* handlers that drive it (webapp/chats.py, webapp/admin.py,               *)
(* webapp/files.py).                                                       *)
(*                                                                         *)
(* Everything here runs on one asyncio event loop.  A task keeps the loop  *)
(* until it awaits something, and inside such a segment it may commit      *)
(* several database transactions, each durable on its own.  An action is   *)
(* one transaction (or one step without any); `loop` names the task that   *)
(* still has transactions to run before its next await.  While it is set   *)
(* no other task runs, but the process may be killed.                      *)
(*                                                                         *)
(* The Runner is seen through what its calls return.  A call answers "ok", *)
(* raises RunnerError ("runner_error"), or raises something else           *)
(* ("os_error": a reset while draining, a line that is not JSON or is over *)
(* the limit).  A run's stream delivers items and ends, properly after an  *)
(* exit event, or early ("eof").  Faults is the set of these that can      *)
(* happen.                                                                 *)
(***************************************************************************)
EXTENDS Naturals, Sequences, FiniteSets

CONSTANTS Users, Jobs, Workers, Callers,
          Owner,        \* Owner[j]: the user whose message creates job j
          Faults,       \* what can go wrong on the Runner's socket
          MaxOutput,    \* bound: output events logged per job
          MaxRestarts,  \* bound: crashes and shutdowns of the Web process
          Main,         \* the task that runs JobManager.start
          NoTask, NoJob, NoUser

ASSUME OwnerAssumption == Owner \in [Jobs -> Users]
ASSUME FaultsAssumption == Faults \subseteq {"runner_error", "os_error", "eof"}
ASSUME BoundsAssumption == MaxOutput \in Nat /\ MaxRestarts \in Nat
ASSUME DistinctAssumption ==
    /\ NoJob \notin Jobs /\ NoUser \notin Users
    /\ NoTask \notin Workers \cup Callers \cup {Main}
    /\ Main \notin Workers \cup Callers
    /\ Workers \cap Callers = {}

ActiveStates == {"queued", "running"}
TerminalStates_Short == {"completed", "failed", "cancelled"}  \* mutant
TerminalStates == {"completed", "failed", "cancelled", "interrupted"}
States == {"none"} \cup ActiveStates \cup TerminalStates

\* The kinds of job_events rows the properties tell apart: the two status
\* rows, model output (text_delta and tool), artifact, done and error.
EventKinds == {"running", "cancelled", "output", "artifact", "done", "error"}
ClosingKinds == {"cancelled", "done", "error"}

VARIABLES
    state,     \* database: jobs.state ("none": not created yet)
    log,       \* database: the job_events rows of each job, by seq
    active,    \* database: users.is_active
    web,       \* the Web process: "down", "starting", "up", "closing"
    loop,      \* the task in the middle of a segment of the loop, or NoTask
    queue,     \* JobManager.queue
    lock,      \* user_job_locks: the task that holds each user's lock
    worker,    \* JobManager.workers: where each _worker task is
    call,      \* the HTTP handlers in flight
    todo,      \* start: jobs left to notify and to enqueue; close: jobs whose
               \* stop request is outstanding
    restarts   \* how often the process ended (bounds the model)

database == <<state, log, active>>
vars == <<state, log, active, web, loop, queue, lock, worker, call, todo,
          restarts>>

IdleWorker == [pc |-> "idle", job |-> NoJob]
IdleCall == [pc |-> "idle", op |-> "none", user |-> NoUser, job |-> NoJob,
             jobs |-> {}, seen |-> FALSE, run |-> FALSE]
NoTodo == [notify |-> {}, enqueue |-> {}, stop |-> {}]

ActiveJobs(u) == {j \in Jobs : Owner[j] = u /\ state[j] \in ActiveStates}
Serving == web \in {"up", "closing"}
Replies == {"ok"} \cup (Faults \cap {"runner_error", "os_error"})

\* _event: one more row in a transaction of its own.
Logged(j, kind) == log' = [log EXCEPT ![j] = Append(@, kind)]

Init ==
    /\ state = [j \in Jobs |-> "none"]
    /\ log = [j \in Jobs |-> <<>>]
    /\ active = [u \in Users |-> TRUE]
    /\ web = "down"
    /\ loop = NoTask
    /\ queue = <<>>
    /\ lock = [u \in Users |-> NoTask]
    /\ worker = [w \in Workers |-> IdleWorker]
    /\ call = [c \in Callers |-> IdleCall]
    /\ todo = NoTodo
    /\ restarts = 0

-----------------------------------------------------------------------------
(* The life of the process.                                                *)

\* The state a restart gives a job: what was running is interrupted.
Recovered_Kept(s) == s                                        \* mutant
Recovered(s) == IF s = "running" THEN "interrupted" ELSE s

\* start, first transaction: running jobs are interrupted, queued ones read
\* back.
StartScan ==
    /\ web = "down"
    /\ state' = [j \in Jobs |-> Recovered(state[j])]
    /\ todo' = [NoTodo EXCEPT
                  !.notify = {j \in Jobs : state[j] = "running"},
                  !.enqueue = {j \in Jobs : Recovered(state[j]) = "queued"}]
    /\ web' = "starting"
    /\ loop' = Main
    /\ UNCHANGED <<log, active, queue, lock, worker, call, restarts>>

\* start: one error event per interrupted job, each a transaction.
StartNotify(j) ==
    /\ web = "starting" /\ loop = Main
    /\ j \in todo.notify
    /\ Logged(j, "error")
    /\ todo' = [todo EXCEPT !.notify = @ \ {j}]
    /\ UNCHANGED <<state, active, web, loop, queue, lock, worker, call,
                   restarts>>

\* start: the queued jobs go back on the queue, then the workers are created.
StartEnqueue_Forgets(j) ==  \* mutant: they are read but not put
    /\ web = "starting" /\ loop = Main
    /\ todo.notify = {} /\ j \in todo.enqueue
    /\ todo' = [todo EXCEPT !.enqueue = @ \ {j}]
    /\ UNCHANGED <<database, web, loop, queue, lock, worker, call, restarts>>
StartEnqueue(j) ==
    /\ web = "starting" /\ loop = Main
    /\ todo.notify = {} /\ j \in todo.enqueue
    /\ queue' = Append(queue, j)
    /\ todo' = [todo EXCEPT !.enqueue = @ \ {j}]
    /\ UNCHANGED <<database, web, loop, lock, worker, call, restarts>>

StartServe ==
    /\ web = "starting" /\ loop = Main
    /\ todo = NoTodo
    /\ web' = "up"
    /\ loop' = NoTask
    /\ UNCHANGED <<database, queue, lock, worker, call, todo, restarts>>

\* What ends the process: the memory of every task, lock and queue is gone,
\* the database stays.
Halt ==
    /\ web' = "down"
    /\ loop' = NoTask
    /\ queue' = <<>>
    /\ lock' = [u \in Users |-> NoTask]
    /\ worker' = [w \in Workers |-> IdleWorker]
    /\ call' = [c \in Callers |-> IdleCall]
    /\ todo' = NoTodo
    /\ UNCHANGED database

\* A crash, between any two transactions.
Crash ==
    /\ web # "down"
    /\ restarts < MaxRestarts
    /\ restarts' = restarts + 1
    /\ Halt

\* close: the server has drained its requests; the running jobs are read and a
\* stop request is sent for each, all at once.
CloseBegin ==
    /\ web = "up" /\ loop = NoTask
    /\ \A c \in Callers : call[c] = IdleCall
    /\ restarts < MaxRestarts
    /\ restarts' = restarts + 1
    /\ web' = "closing"
    /\ todo' = [todo EXCEPT !.stop = {j \in Jobs : state[j] = "running"}]
    /\ UNCHANGED <<database, loop, queue, lock, worker, call>>

\* The gather in close: each answer (or exception) is only collected.
CloseReply(j) ==
    /\ web = "closing" /\ loop = NoTask
    /\ j \in todo.stop
    /\ todo' = [todo EXCEPT !.stop = @ \ {j}]
    /\ UNCHANGED <<database, web, loop, queue, lock, worker, call, restarts>>

\* All answered: the workers are cancelled, wherever they are, and the process
\* ends.
CloseEnd ==
    /\ web = "closing" /\ loop = NoTask
    /\ todo.stop = {}
    /\ Halt
    /\ UNCHANGED restarts

-----------------------------------------------------------------------------
(* A message creates a job (send_message, create_job, submit).             *)

\* create_job's checks: the user is active and has no active job.
MayCreate_Stale(j) == state[j] = "none" /\ ActiveJobs(Owner[j]) = {}
    \* mutant: trusts the check made when the request came in
MayCreate(j) ==
    /\ state[j] = "none"
    /\ active[Owner[j]]
    /\ ActiveJobs(Owner[j]) = {}

\* Under the user's lock, without an await: the job is created and put on the
\* queue.  (A crash between the commit and submit leaves what a crash just
\* after this action leaves.)
Send(j) ==
    /\ web = "up" /\ loop = NoTask
    /\ lock[Owner[j]] = NoTask
    /\ MayCreate(j)
    /\ state' = [state EXCEPT ![j] = "queued"]
    /\ queue' = Append(queue, j)
    /\ UNCHANGED <<log, active, web, loop, lock, worker, call, todo, restarts>>

-----------------------------------------------------------------------------
(* A worker (_worker, _execute, _fail).                                    *)

Becomes(w, pc) == worker' = [worker EXCEPT ![w].pc = pc]
Released(w) == worker' = [worker EXCEPT ![w] = IdleWorker]

\* _worker: take the next id; _execute drops it unless it is still queued,
\* else it goes for the user's lock.
Dequeue(w) ==
    /\ Serving /\ loop = NoTask
    /\ worker[w].pc = "idle"
    /\ queue # <<>>
    /\ queue' = Tail(queue)
    /\ worker' = [worker EXCEPT ![w] =
                    IF state[Head(queue)] = "queued"
                    THEN [pc |-> "acquire", job |-> Head(queue)]
                    ELSE IdleWorker]
    /\ UNCHANGED <<database, web, loop, lock, call, todo, restarts>>

\* _execute's recheck under the lock.
StillWanted_Always(j) == TRUE  \* mutant: no recheck after the wait
StillWanted(j) == state[j] = "queued"

\* _execute, under the lock (which is not held across an await): recheck the
\* job and its user, then mark the job running.
Claim(w) ==
    LET j == worker[w].job IN
    /\ Serving /\ loop = NoTask
    /\ worker[w].pc = "acquire"
    /\ lock[Owner[j]] = NoTask
    /\ IF StillWanted(j) /\ active[Owner[j]]
       THEN /\ state' = [state EXCEPT ![j] = "running"]
            /\ Becomes(w, "announce")
            /\ loop' = w
       ELSE /\ state' = IF StillWanted(j)
                        THEN [state EXCEPT ![j] = "failed"] ELSE state
            /\ Released(w)
            /\ UNCHANGED loop
    /\ UNCHANGED <<log, active, web, queue, lock, call, todo, restarts>>

\* _execute: the status event, then await file_list.
Announce(w) ==
    /\ loop = w
    /\ worker[w].pc = "announce"
    /\ Logged(worker[w].job, "running")
    /\ Becomes(w, "list")
    /\ loop' = NoTask
    /\ UNCHANGED <<state, active, web, queue, lock, call, todo, restarts>>

\* _fail, first transaction: any job but a cancelled one becomes failed.
Fail_Always(w) ==  \* mutant: no guard
    /\ state' = [state EXCEPT ![worker[w].job] = "failed"]
    /\ Becomes(w, "report")
    /\ loop' = w
Fail_Stays(w) ==  \* mutant: the stream is read on
    /\ state' = [state EXCEPT ![worker[w].job] =
                    IF @ = "cancelled" THEN @ ELSE "failed"]
    /\ UNCHANGED <<worker, loop>>
Fail(w) ==
    LET j == worker[w].job IN
    IF state[j] = "cancelled"
    THEN /\ Released(w)
         /\ UNCHANGED <<state, loop>>
    ELSE /\ state' = [state EXCEPT ![j] = "failed"]
         /\ Becomes(w, "report")
         /\ loop' = w

\* _fail: its error event.
Report(w) ==
    /\ loop = w
    /\ worker[w].pc = "report"
    /\ Logged(worker[w].job, "error")
    /\ Released(w)
    /\ loop' = NoTask
    /\ UNCHANGED <<state, active, web, queue, lock, call, todo, restarts>>

\* A worker resumes from its await.
Resumed(w, pc) ==
    /\ Serving /\ loop = NoTask
    /\ worker[w].pc = pc
    /\ UNCHANGED <<active, web, queue, lock, call, todo, restarts>>

\* The answer to the first file_list: RunnerError means no list, anything else
\* fails the job; the job is rechecked before the run is started.
Listed(w, reply) ==
    /\ Resumed(w, "list")
    /\ UNCHANGED log
    /\ IF reply = "os_error" THEN Fail(w)
       ELSE /\ IF state[worker[w].job] = "cancelled"
               THEN Released(w) ELSE Becomes(w, "stream")
            /\ UNCHANGED <<state, loop>>

\* A failed result or a non-zero exit fails the job.
Fails_Result(item) == item = "failed"  \* mutant: the exit code is not read
Fails(item) == item \in {"failed", "exit_bad"}

\* An item of the run's stream: the worker leaves if the job was cancelled;
\* else "started" records the unit's name, output is logged, a failed result
\* or a non-zero exit fails the job, and a zero exit is remembered while the
\* stream is read to its end.
StreamItem_Unchecked(w, item) ==  \* mutant: the job is not looked up again
    LET j == worker[w].job IN
    /\ Resumed(w, "stream")
    /\ \/ /\ item = "output"
          /\ Len(SelectSeq(log[j], LAMBDA k : k = "output")) < MaxOutput
          /\ Logged(j, "output")
          /\ UNCHANGED <<state, loop, worker>>
       \/ /\ item \in {"exit_ok", "exit_bad"} /\ ~Fails(item)
          /\ Becomes(w, "drain")
          /\ UNCHANGED <<state, log, loop>>
       \/ /\ Fails(item)
          /\ Fail(w)
          /\ UNCHANGED log
StreamItem(w, item) ==
    LET j == worker[w].job IN
    /\ Resumed(w, "stream")
    /\ IF state[j] = "cancelled"
       THEN Released(w) /\ UNCHANGED <<state, log, loop>>
       ELSE \/ /\ item = "started"
               /\ UNCHANGED <<state, log, loop, worker>>
            \/ /\ item = "output"
               /\ Len(SelectSeq(log[j], LAMBDA k : k = "output")) < MaxOutput
               /\ Logged(j, "output")
               /\ UNCHANGED <<state, loop, worker>>
            \/ /\ item \in {"exit_ok", "exit_bad"} /\ ~Fails(item)
               /\ Becomes(w, "drain")
               /\ UNCHANGED <<state, log, loop>>
            \/ /\ Fails(item)
               /\ Fail(w)
               /\ UNCHANGED log

StreamItems == {"started", "output", "failed", "exit_ok", "exit_bad"}

\* The stream raises: the Runner reports an error or cannot be reached, or the
\* connection breaks.
StreamRaises(w, fault) ==
    /\ \/ fault = "runner_error" /\ Resumed(w, "stream")
       \/ fault = "os_error" /\ (Resumed(w, "stream") \/ Resumed(w, "drain"))
    /\ Fail(w)
    /\ UNCHANGED log

\* The end of the stream, after an exit event or ("eof") without one: the job
\* is completed, whatever happened, unless it was cancelled.
StreamEnd_Unchecked(w) ==  \* mutant: completes a cancelled job
    /\ \/ Resumed(w, "drain")
       \/ "eof" \in Faults /\ Resumed(w, "stream")
    /\ state' = [state EXCEPT ![worker[w].job] = "completed"]
    /\ Becomes(w, "compare")
    /\ UNCHANGED <<log, loop>>
StreamEnd(w) ==
    LET j == worker[w].job IN
    /\ \/ Resumed(w, "drain")
       \/ "eof" \in Faults /\ Resumed(w, "stream")
    /\ IF state[j] = "cancelled"
       THEN Released(w) /\ UNCHANGED state
       ELSE state' = [state EXCEPT ![j] = "completed"] /\ Becomes(w, "compare")
    /\ UNCHANGED <<log, loop>>

\* The answer to the second file_list: artifact events for what changed, none
\* after a RunnerError; anything else raises out of _execute.
Compare(w, reply, changed) ==
    /\ Resumed(w, "compare")
    /\ IF reply = "os_error" THEN Fail(w) /\ UNCHANGED log
       ELSE /\ IF reply = "ok" /\ changed
               THEN Logged(worker[w].job, "artifact") ELSE UNCHANGED log
            /\ Becomes(w, "done")
            /\ loop' = w
            /\ UNCHANGED state

\* The done event; the task is over.
Done(w) ==
    /\ loop = w
    /\ worker[w].pc = "done"
    /\ Logged(worker[w].job, "done")
    /\ Released(w)
    /\ loop' = NoTask
    /\ UNCHANGED <<state, active, web, queue, lock, call, todo, restarts>>

WorkerStep(w) ==
    \/ Dequeue(w)
    \/ Claim(w)
    \/ Announce(w)
    \/ \E reply \in Replies : Listed(w, reply)
    \/ \E item \in StreamItems : StreamItem(w, item)
    \/ \E fault \in Faults : StreamRaises(w, fault)
    \/ StreamEnd(w)
    \/ \E reply \in Replies, changed \in BOOLEAN : Compare(w, reply, changed)
    \/ Done(w)
    \/ Report(w)

-----------------------------------------------------------------------------
(* Handlers that hold a user's lock across their awaits.                   *)

\* stop, first transaction: an active job is cancelled; `run` remembers
\* whether the Runner must be told.
Cancel(c, j, new) ==
    /\ state' = [state EXCEPT ![j] = "cancelled"]
    /\ call' = [call EXCEPT ![c] = [new EXCEPT !.pc = "stop_event", !.job = j,
                                               !.run = state[j] = "running"]]
    /\ loop' = c

\* stop_job and admin_stop_job: under the lock of the job's owner.  (Stopping
\* a job that is already terminal returns without a change.)
StopBegin(c, j) ==
    /\ web = "up" /\ loop = NoTask
    /\ call[c] = IdleCall
    /\ lock[Owner[j]] = NoTask
    /\ state[j] \in ActiveStates
    /\ Cancel(c, j, [IdleCall EXCEPT !.op = "stop", !.user = Owner[j]])
    /\ lock' = [lock EXCEPT ![Owner[j]] = c]
    /\ UNCHANGED <<log, active, web, queue, worker, todo, restarts>>

Return(c) ==
    /\ call' = [call EXCEPT ![c] = IdleCall]
    /\ lock' = [lock EXCEPT ![call[c].user] = NoTask]

\* stop is over: a stop request answers, a disable goes on with its list.
Stopped(c) ==
    IF call[c].op = "disable"
    THEN /\ call' = [call EXCEPT ![c].pc = "disable_next"]
         /\ loop' = c
         /\ UNCHANGED lock
    ELSE Return(c) /\ loop' = NoTask

\* stop: the status event; then the Runner is told if the job was running.
StopEvent(c) ==
    /\ loop = c
    /\ call[c].pc = "stop_event"
    /\ Logged(call[c].job, "cancelled")
    /\ IF call[c].run
       THEN /\ call' = [call EXCEPT ![c].pc = "stop_rpc"]
            /\ loop' = NoTask
            /\ UNCHANGED lock
       ELSE Stopped(c)
    /\ UNCHANGED <<state, active, web, queue, worker, todo, restarts>>

\* stop: a RunnerError is swallowed; anything else ends the request.
StopReply_Leaks(c, reply) ==  \* mutant: the lock is not released on an error
    /\ web = "up" /\ loop = NoTask
    /\ call[c].pc = "stop_rpc"
    /\ IF reply = "ok" THEN Stopped(c)
       ELSE call' = [call EXCEPT ![c] = IdleCall] /\ UNCHANGED <<lock, loop>>
    /\ UNCHANGED <<database, web, queue, worker, todo, restarts>>
StopReply(c, reply) ==
    /\ web = "up" /\ loop = NoTask
    /\ call[c].pc = "stop_rpc"
    /\ IF reply = "os_error" THEN Return(c) /\ UNCHANGED loop ELSE Stopped(c)
    /\ UNCHANGED <<database, web, queue, worker, todo, restarts>>

\* disable_user: the user row is loaded, then the lock is awaited.
DisableLoad(c, u) ==
    /\ web = "up" /\ loop = NoTask
    /\ call[c] = IdleCall
    /\ call' = [call EXCEPT ![c] = [IdleCall EXCEPT
                    !.pc = "disable_lock", !.op = "disable",
                    !.user = u, !.seen = active[u]]]
    /\ UNCHANGED <<database, web, loop, queue, lock, worker, todo, restarts>>

DisableBegin_NoLock(c) ==  \* mutant: reads the jobs without the lock
    /\ web = "up" /\ loop = NoTask
    /\ call[c].pc = "disable_lock"
    /\ call' = [call EXCEPT ![c].pc = "disable_next",
                            ![c].jobs = ActiveJobs(call[c].user)]
    /\ loop' = c
    /\ UNCHANGED <<database, web, queue, lock, worker, todo, restarts>>
DisableBegin(c) ==
    LET u == call[c].user IN
    /\ web = "up" /\ loop = NoTask
    /\ call[c].pc = "disable_lock"
    /\ lock[u] = NoTask
    /\ lock' = [lock EXCEPT ![u] = c]
    /\ call' = [call EXCEPT ![c].pc = "disable_next", ![c].jobs = ActiveJobs(u)]
    /\ loop' = c
    /\ UNCHANGED <<database, web, queue, worker, todo, restarts>>

\* disable_user: stop the listed jobs one after the other, then tell the
\* Runner.
DisableNext(c) ==
    /\ loop = c
    /\ call[c].pc = "disable_next"
    /\ IF call[c].jobs = {}
       THEN /\ call' = [call EXCEPT ![c].pc = "disable_rpc"]
            /\ loop' = NoTask
            /\ UNCHANGED state
       ELSE \E j \in call[c].jobs :
              IF state[j] \in ActiveStates
              THEN Cancel(c, j, [call[c] EXCEPT !.jobs = @ \ {j}])
              ELSE /\ call' = [call EXCEPT ![c].jobs = @ \ {j}]
                   /\ UNCHANGED <<state, loop>>
    /\ UNCHANGED <<log, active, web, queue, lock, worker, todo, restarts>>

\* disable_user: only if the Runner agreed is the user made inactive.  The row
\* was loaded before the lock: if it said inactive then, the assignment is no
\* change and nothing is written.
DisableReply(c, reply) ==
    /\ web = "up" /\ loop = NoTask
    /\ call[c].pc = "disable_rpc"
    /\ active' = [active EXCEPT ![call[c].user] =
                    IF reply = "ok" /\ call[c].seen THEN FALSE ELSE @]
    /\ Return(c)
    /\ UNCHANGED <<state, log, web, loop, queue, worker, todo, restarts>>

\* enable_user: no lock; the same stale row.
EnableLoad(c, u) ==
    /\ web = "up" /\ loop = NoTask
    /\ call[c] = IdleCall
    /\ call' = [call EXCEPT ![c] = [IdleCall EXCEPT
                    !.pc = "enable_rpc", !.op = "enable",
                    !.user = u, !.seen = active[u]]]
    /\ UNCHANGED <<database, web, loop, queue, lock, worker, todo, restarts>>

EnableReply(c, reply) ==
    /\ web = "up" /\ loop = NoTask
    /\ call[c].pc = "enable_rpc"
    /\ active' = [active EXCEPT ![call[c].user] =
                    IF reply = "ok" /\ ~call[c].seen THEN TRUE ELSE @]
    /\ call' = [call EXCEPT ![c] = IdleCall]
    /\ UNCHANGED <<state, log, web, loop, queue, lock, worker, todo, restarts>>

\* upload_file and upgrade_template: refused while the user has an active job,
\* else they work on the workspace while they hold the lock.
MaintainBegin(c, u) ==
    /\ web = "up" /\ loop = NoTask
    /\ call[c] = IdleCall
    /\ lock[u] = NoTask
    /\ ActiveJobs(u) = {}
    /\ lock' = [lock EXCEPT ![u] = c]
    /\ call' = [call EXCEPT ![c] = [IdleCall EXCEPT
                    !.pc = "maintain", !.op = "maintain", !.user = u]]
    /\ UNCHANGED <<database, web, loop, queue, worker, todo, restarts>>

MaintainReply(c) ==
    /\ web = "up" /\ loop = NoTask
    /\ call[c].pc = "maintain"
    /\ Return(c)
    /\ UNCHANGED <<database, web, loop, queue, worker, todo, restarts>>

\* What a handler in flight does next.
CallStep(c) ==
    \/ StopEvent(c)
    \/ \E reply \in Replies : StopReply(c, reply)
    \/ DisableBegin(c)
    \/ DisableNext(c)
    \/ \E reply \in Replies : DisableReply(c, reply)
    \/ \E reply \in Replies : EnableReply(c, reply)
    \/ MaintainReply(c)

\* A request arrives.
Arrive(c) ==
    \/ \E j \in Jobs : StopBegin(c, j)
    \/ \E u \in Users : DisableLoad(c, u)
    \/ \E u \in Users : EnableLoad(c, u)
    \/ \E u \in Users : MaintainBegin(c, u)

StartStep ==
    \/ StartScan
    \/ \E j \in Jobs : StartNotify(j)
    \/ \E j \in Jobs : StartEnqueue(j)
    \/ StartServe

CloseStep ==
    \/ \E j \in Jobs : CloseReply(j)
    \/ CloseEnd

Next ==
    \/ StartStep
    \/ CloseBegin
    \/ CloseStep
    \/ Crash
    \/ \E j \in Jobs : Send(j)
    \/ \E w \in Workers : WorkerStep(w)
    \/ \E c \in Callers : CallStep(c) \/ Arrive(c)

Spec == Init /\ [][Next]_vars

(***************************************************************************)
(* Fairness.  systemd starts the process again (weak fairness of start).   *)
(* The loop's ready queue and the waiters of an asyncio.Lock are served in *)
(* order, so a task that can run again and again does run: strong fairness *)
(* per task, since a step is disabled while another task holds the loop or *)
(* the user's lock.  An answer is always due, because request() gives up   *)
(* after 180 seconds and the Runner ends a run at its runtime limit.       *)
(* Nothing makes users send or administrators click.                       *)
(***************************************************************************)
Fairness ==
    /\ WF_vars(StartStep)
    /\ SF_vars(CloseStep)
    /\ \A w \in Workers : SF_vars(WorkerStep(w))
    /\ \A c \in Callers : SF_vars(CallStep(c))

FairSpec == Spec /\ Fairness
-----------------------------------------------------------------------------
(* Properties.                                                             *)

WorkerPcs == {"idle", "acquire", "announce", "list", "stream", "drain",
              "compare", "done", "report"}
CallPcs == {"idle", "stop_event", "stop_rpc", "disable_lock", "disable_next",
            "disable_rpc", "enable_rpc", "maintain"}

\* The shape of the state.
TypeOK ==
    /\ state \in [Jobs -> States]
    /\ log \in [Jobs -> Seq(EventKinds)]
    /\ active \in [Users -> BOOLEAN]
    /\ web \in {"down", "starting", "up", "closing"}
    /\ loop \in Workers \cup Callers \cup {Main, NoTask}
    /\ queue \in Seq(Jobs)
    /\ lock \in [Users -> Callers \cup {NoTask}]
    /\ worker \in [Workers -> [pc : WorkerPcs, job : Jobs \cup {NoJob}]]
    /\ call \in [Callers -> [pc : CallPcs,
                             op : {"none", "stop", "disable", "enable",
                                   "maintain"},
                             user : Users \cup {NoUser},
                             job : Jobs \cup {NoJob},
                             jobs : SUBSET Jobs, seen : BOOLEAN,
                             run : BOOLEAN]]
    /\ todo \in [notify : SUBSET Jobs, enqueue : SUBSET Jobs,
                 stop : SUBSET Jobs]
    /\ restarts \in 0..MaxRestarts

\* A user never has two jobs queued or running, whatever the order of
\* messages, stops, restarts and workers (create_job's check, which has only
\* the user's lock and the loop to rely on).
OneActivePerUser ==
    \A j, k \in Jobs :
        /\ Owner[j] = Owner[k]
        /\ state[j] \in ActiveStates
        /\ state[k] \in ActiveStates
        => j = k

\* An inactive user has nothing queued or running: what disable_user cancelled
\* before its two Runner calls is still all there was when it commits.
InactiveUserIsIdle ==
    \A u \in Users : ~active[u] => ActiveJobs(u) = {}

\* While a file is imported or the template upgraded, no job of that user is
\* queued or running (upload_file, upgrade_template).
MaintenanceIsAlone ==
    \A c \in Callers :
        call[c].pc = "maintain" => ActiveJobs(call[c].user) = {}

\* A handler in the middle of its work holds its user's lock, so nothing new
\* appears behind its back: what disable_user listed is, but for the jobs it has
\* dealt with, still all the user has active when it answers, and a user whose
\* workspace is being changed stays idle.
LockedPcs == {"stop_event", "stop_rpc", "disable_next", "disable_rpc", "maintain"}
Covered(c) ==
    LET r == call[c] IN
    /\ r.pc \in LockedPcs => r.user \in Users /\ lock[r.user] = c
    /\ r.pc \in {"disable_lock", "enable_rpc"} => r.user \in Users
    /\ r.pc \in {"disable_lock", "disable_next", "disable_rpc"} => r.op = "disable"
    /\ r.op = "disable" /\ r.pc \in LockedPcs => ActiveJobs(r.user) \subseteq r.jobs
    /\ r.pc = "disable_rpc" => r.jobs = {}
    /\ r.pc = "maintain" => ActiveJobs(r.user) = {}
LockProtects == \A c \in Callers : Covered(c)

\* The four guarantees of the user's lock together.
UserLock ==
    OneActivePerUser /\ InactiveUserIsIdle /\ MaintenanceIsAlone /\ LockProtects

\* A queued job is never forgotten and never scheduled twice: once the process
\* serves, it is on the queue exactly once or with exactly one worker that
\* waits for the user's lock, through restarts and dropped queue entries.
QueuedIsScheduled ==
    Serving => \A j \in Jobs : state[j] = "queued" =>
        LET places == {i \in DOMAIN queue : queue[i] = j}
            holders == {w \in Workers : worker[w] = [pc |-> "acquire", job |-> j]}
        IN  Cardinality(places) + Cardinality(holders) = 1

\* A running job has a worker that will end it; after a crash it has none and
\* start interrupts it before anything is served.
WorkingPcs == {"announce", "list", "stream", "drain"}
RunningIsWorked ==
    Serving => \A j \in Jobs : state[j] = "running" =>
        \E w \in Workers : worker[w].job = j /\ worker[w].pc \in WorkingPcs

\* A worker between its claim and the end of its stream is alone on its job,
\* and the job is running or was cancelled: nobody else ended it meanwhile.
WorksOnRunning ==
    /\ \A w \in Workers : worker[w].pc \in WorkingPcs =>
          worker[w].job \in Jobs /\ state[worker[w].job] \in {"running", "cancelled"}
    /\ \A w, v \in Workers :
          /\ worker[w].pc \in WorkingPcs /\ worker[v].pc \in WorkingPcs
          /\ worker[w].job = worker[v].job
          => w = v

\* Two workers are never on the same job.
OneWorkerPerJob ==
    \A w, v \in Workers :
        worker[w].job = worker[v].job => w = v \/ worker[w].job = NoJob

\* A job that is to be done is in exactly one place from which it gets done.
JobsAreScheduled == QueuedIsScheduled /\ RunningIsWorked /\ OneWorkerPerJob

\* The event log tells the truth: a closing event is only there when the job
\* ended that way (status/cancelled, done, error in the api).
LogAgreesWithState ==
    \A j \in Jobs : \A i \in DOMAIN log[j] :
        /\ log[j][i] = "cancelled" => state[j] = "cancelled"
        /\ log[j][i] = "done" => state[j] = "completed"
        /\ log[j][i] = "error" => state[j] \in {"failed", "interrupted"}

\* A job is started at most once, even if the service dies and comes back
\* between any two of its steps.
StartedOnce ==
    \A j \in Jobs : \A i, k \in DOMAIN log[j] :
        log[j][i] = "running" /\ log[j][k] = "running" => i = k

\* The log shows one run of the job and how it really ended.
LogIsTrue == LogAgreesWithState /\ StartedOnce

\* A cancelled job stays cancelled, whatever its worker, the Runner or a
\* restart does afterwards.
CancelIsFinal ==
    [][\A j \in Jobs : state[j] = "cancelled" => state'[j] = "cancelled"]_vars

\* A job that has ended stays as it ended, whatever its worker, the Runner, a
\* restart or another handler does afterwards, and whatever is raised where; but
\* _fail makes a completed job failed whose worker is still listing its files.
\* Once its closing event is logged nothing changes it.
EndedStaysEnded ==
    [][\A j \in Jobs : state[j] \in TerminalStates /\ state'[j] # state[j] =>
          /\ state[j] = "completed" /\ state'[j] = "failed"
          /\ \A i \in DOMAIN log[j] : log[j][i] \notin ClosingKinds]_vars

\* After its closing event a job logs nothing: no output after the stop was
\* shown, one closing event per job.
NothingAfterClosing ==
    [][\A j \in Jobs : (\E i \in DOMAIN log[j] : log[j][i] \in ClosingKinds)
                      => log'[j] = log[j]]_vars

\* The jobs and accounts behave as JobLifecycle promises.
Lifecycle == INSTANCE JobLifecycle
ImplementsLifecycle == Lifecycle!Spec

\* Every accepted job ends, through restarts and with a user's lock contended.
EveryJobEnds ==
    \A j \in Jobs : state[j] \in ActiveStates ~> state[j] \in TerminalStates

\* Every handler answers (or dies with the process): no handler waits forever
\* for a lock that a worker or another handler holds.
CallsReturn == \A c \in Callers : call[c] # IdleCall ~> call[c] = IdleCall
=============================================================================
