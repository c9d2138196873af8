-------------------------- MODULE JobScheduleProofs --------------------------
(***************************************************************************)
(* A job that is to be done is in one place from which it gets done, and   *)
(* what is logged of it is true: whatever the order of messages, stops,    *)
(* crashes and restarts, and under every fault of the Runner.              *)
(*                                                                         *)
(* Neither JobsAreScheduled nor LogIsTrue is inductive.  That a job is     *)
(* nowhere twice needs where each job may be while start puts jobs back    *)
(* (Placed), that none is lost needs the same of those left to put (Found),*)
(* and what a log says next depends on what its writer saw when it had the *)
(* loop last (Logs).  A worker's step is looked at once: Turn lists the    *)
(* rows of what it does to its job, its log and the loop.                  *)
(***************************************************************************)
EXTENDS JobManagerProofs, FiniteSetTheorems

USE DEF Serving, database

(***************************************************************************)
(* Where jobs are, and what is in their logs.                              *)
(***************************************************************************)
Held(w) == worker[w].job

\* A worker and the job in its hands.
Handles(w) ==
    /\ worker[w].pc = "idle" <=> Held(w) = NoJob
    /\ worker[w].pc # "idle" => Held(w) \in Jobs /\ state[Held(w)] # "none"
    /\ worker[w].pc = "announce" => state[Held(w)] = "running"
    /\ worker[w].pc \in {"compare", "done"} => state[Held(w)] = "completed"
    /\ worker[w].pc = "report" => state[Held(w)] = "failed"
    /\ worker[w].pc \in {"announce", "done", "report"} => loop = w

\* A job is in one place: once on the queue, or in one pair of hands, or still
\* to be put back by start.
Placed ==
    /\ \A i, k \in DOMAIN queue : queue[i] = queue[k] => i = k
    /\ \A i \in DOMAIN queue :
          /\ state[queue[i]] # "none"
          /\ queue[i] \notin todo.enqueue
          /\ \A w \in Workers : Held(w) # queue[i]
    /\ OneWorkerPerJob
    /\ \A w \in Workers : Handles(w)

OnQueue(j) == \E i \in DOMAIN queue : queue[i] = j
Waiting(j) == \E w \in Workers : worker[w] = [pc |-> "acquire", job |-> j]
Working(j) == \E w \in Workers : Held(w) = j /\ worker[w].pc \in WorkingPcs

\* And none that is active is nowhere.
Found ==
    /\ web = "down" => queue = <<>> /\ loop = NoTask
    /\ web = "starting" => loop = Main
    /\ web # "starting" => todo.enqueue = {} /\ todo.notify = {}
    /\ \A j \in Jobs : state[j] = "queued" /\ web # "down" =>
          OnQueue(j) \/ Waiting(j) \/ j \in todo.enqueue
    /\ \A j \in todo.enqueue : state[j] = "queued"
    /\ \A j \in Jobs : state[j] = "running" /\ web # "down" => Working(j)

Schedule == Placed /\ Found

Has(j, kind) == \E i \in DOMAIN log[j] : log[j][i] = kind
Closed(j) == \E kind \in ClosingKinds : Has(j, kind)

\* Who is about to log something knows what is there.
Logs ==
    /\ LogIsTrue
    /\ \A j \in Jobs : state[j] \in {"none", "queued"} => ~Has(j, "running")
    /\ \A w \in Workers :
          /\ worker[w].pc = "announce" => ~Has(Held(w), "running")
          /\ worker[w].pc \in {"compare", "done", "report"} => ~Closed(Held(w))
    /\ \A c \in Callers : call[c].pc = "stop_event" =>
          /\ loop = c /\ call[c].job \in Jobs
          /\ state[call[c].job] = "cancelled" /\ ~Closed(call[c].job)
    /\ \A j \in todo.notify : state[j] = "interrupted" /\ ~Closed(j)

(***************************************************************************)
(* The steps of a worker and of a handler, by what they do to the rest.    *)
(***************************************************************************)

\* A worker that is at `from` with a job in state `old` goes to `next`, puts the
\* job in state `new` and logs `kind`.
Row(from, old, next, new, kind) ==
    \/ /\ from = "acquire" /\ old = "queued"
       /\ next = "announce" /\ new = "running" /\ kind = "nothing"
    \/ /\ from = "acquire" /\ old = "queued"
       /\ next = "idle" /\ new = "failed" /\ kind = "nothing"
    \/ /\ from = "acquire" /\ old # "queued"
       /\ next = "idle" /\ new = old /\ kind = "nothing"
    \/ /\ from = "announce"
       /\ next = "list" /\ new = old /\ kind = "running"
    \/ /\ from \in {"list", "stream", "drain"} /\ old = "cancelled"
       /\ next = "idle" /\ new = old /\ kind = "nothing"
    \/ /\ from \in {"list", "stream"} /\ old # "cancelled"
       /\ next \in {"stream", "drain"} /\ new = old /\ kind \in {"nothing", "output"}
    \/ /\ from \in {"list", "stream", "drain"} /\ old # "cancelled"
       /\ next = "report" /\ new = "failed" /\ kind = "nothing"
    \/ /\ from \in {"stream", "drain"} /\ old # "cancelled"
       /\ next = "compare" /\ new = "completed" /\ kind = "nothing"
    \/ /\ from = "compare"
       /\ next = "done" /\ new = old /\ kind \in {"nothing", "artifact"}
    \/ /\ from = "compare"
       /\ next = "report" /\ new = "failed" /\ kind = "nothing"
    \/ /\ from = "done"
       /\ next = "idle" /\ new = old /\ kind = "done"
    \/ /\ from = "report"
       /\ next = "idle" /\ new = old /\ kind = "error"

\* Its last await, or its next one, is where it has or gives back the loop.
Atomic == {"announce", "done", "report"}

Turn(w, next, new, kind) ==
    LET j == Held(w) IN
    /\ j \in Jobs
    /\ Row(worker[w].pc, state[j], next, new, kind)
    /\ worker'[w].pc = next /\ worker'[w].job = IF next = "idle" THEN NoJob ELSE j
    /\ \A v \in Workers : v # w => worker'[v] = worker[v]
    /\ \A k \in Jobs : state'[k] = IF k = j THEN new ELSE state[k]
    /\ \A k \in Jobs : log'[k] = IF k = j /\ kind # "nothing"
                                 THEN Append(log[k], kind) ELSE log[k]
    /\ loop = (IF worker[w].pc \in Atomic THEN w ELSE NoTask)
    /\ loop' = (IF next \in Atomic THEN w ELSE NoTask)
    /\ Serving
    /\ UNCHANGED <<active, web, queue, lock, call, todo, restarts>>

Turns(w) == \E next \in WorkerPcs, new \in States, kind \in EventKinds \cup {"nothing"} :
                Turn(w, next, new, kind)

LEMMA JobInHand ==
  ASSUME TypeOK, Work, Placed, NEW w \in Workers, worker[w].pc # "idle"
  PROVE  /\ Held(w) \in Jobs /\ state[Held(w)] \in States \ {"none"}
         /\ Serving
         /\ worker[w].pc \in WorkingPcs => state[Held(w)] \in {"running", "cancelled"}
         /\ worker[w].pc = "announce" => state[Held(w)] = "running"
         /\ worker[w].pc \in {"compare", "done"} => state[Held(w)] = "completed"
         /\ worker[w].pc = "report" => state[Held(w)] = "failed"
         /\ worker[w].pc \in Atomic => loop = w
<1>1. worker[w] # IdleWorker
  BY DEF IdleWorker
<1>2. Serving
  BY <1>1 DEF Work, DownIsEmpty, TypeOK
<1> QED
  BY <1>2 DEF Placed, Handles, Held, TypeOK, Work, WorkerKnows, Atomic

\* The two ways a worker's record changes.
LEMMA RecordMoves ==
  ASSUME TypeOK, NEW w \in Workers
  PROVE  /\ \A pc : Becomes(w, pc) =>
              /\ worker'[w].pc = pc /\ worker'[w].job = Held(w)
              /\ \A v \in Workers : v # w => worker'[v] = worker[v]
         /\ Released(w) =>
              /\ worker'[w].pc = "idle" /\ worker'[w].job = NoJob
              /\ \A v \in Workers : v # w => worker'[v] = worker[v]
  BY DEF TypeOK, Becomes, Released, IdleWorker, Held

LEMMA FailTurns ==
  ASSUME TypeOK, Work, Placed, NEW w \in Workers, loop = NoTask, Fail(w), UNCHANGED log,
         worker[w].pc \in {"list", "stream", "drain", "compare"},
         UNCHANGED <<active, web, queue, lock, call, todo, restarts>>
  PROVE  Turns(w)
<1>1. /\ Held(w) \in Jobs /\ state[Held(w)] \in States /\ Serving
      /\ worker[w].pc = "compare" => state[Held(w)] = "completed"
  BY JobInHand
<1>2. "idle" \in WorkerPcs /\ "report" \in WorkerPcs /\ "failed" \in States
  BY DEF WorkerPcs, States, TerminalStates
<1>3. CASE state[Held(w)] = "cancelled"
  <2>1. Turn(w, "idle", state[Held(w)], "nothing")
    BY <1>1, <1>3, RecordMoves DEF Fail, Turn, Row, Held, Atomic
  <2> QED
    BY <1>1, <1>2, <2>1 DEF Turns
<1>4. CASE state[Held(w)] # "cancelled"
  <2>1. Turn(w, "report", "failed", "nothing")
    BY <1>1, <1>4, RecordMoves DEF Fail, Turn, Row, Held, Atomic, TypeOK
  <2> QED
    BY <1>2, <2>1 DEF Turns
<1> QED
  BY <1>3, <1>4

LEMMA WorkerTurns ==
  ASSUME TypeOK, Work, Placed, NEW w \in Workers, WorkerStep(w)
  PROVE  Dequeue(w) \/ Turns(w) \/ UNCHANGED vars
<1> USE DEF Turns, Turn, Row, Held, Atomic
<1> DEFINE j == worker[w].job
<1>0. /\ "idle" \in WorkerPcs /\ "report" \in WorkerPcs /\ "announce" \in WorkerPcs
      /\ "list" \in WorkerPcs /\ "stream" \in WorkerPcs /\ "drain" \in WorkerPcs
      /\ "compare" \in WorkerPcs /\ "done" \in WorkerPcs
      /\ "failed" \in States /\ "running" \in States /\ "completed" \in States
  BY DEF WorkerPcs, States, ActiveStates, TerminalStates
<1>1. worker[w].pc # "idle" =>
        /\ j \in Jobs /\ state[j] \in States /\ Serving
        /\ worker[w].pc \in WorkingPcs => state[j] \in {"running", "cancelled"}
        /\ worker[w].pc = "compare" => state[j] = "completed"
  BY JobInHand
<1>2. CASE Claim(w)
  <2>1. worker[w].pc = "acquire" /\ loop = NoTask
    BY <1>2 DEF Claim
  <2>2. CASE state[j] = "queued" /\ active[Owner[j]]
    <3>1. Turn(w, "announce", "running", "nothing")
      BY <1>1, <1>2, <2>1, <2>2, RecordMoves DEF Claim, StillWanted, TypeOK
    <3> QED
      BY <1>0, <3>1
  <2>3. CASE state[j] = "queued" /\ ~active[Owner[j]]
    <3>1. Turn(w, "idle", "failed", "nothing")
      BY <1>1, <1>2, <2>1, <2>3, RecordMoves DEF Claim, StillWanted, TypeOK
    <3> QED
      BY <1>0, <3>1
  <2>4. CASE state[j] # "queued"
    <3>1. Turn(w, "idle", state[j], "nothing")
      BY <1>1, <1>2, <2>1, <2>4, RecordMoves DEF Claim, StillWanted
    <3> QED
      BY <1>0, <1>1, <2>1, <3>1
  <2> QED
    BY <2>2, <2>3, <2>4
<1>3. CASE Announce(w)
  <2>1. Turn(w, "list", state[j], "running")
    BY <1>1, <1>3, RecordMoves DEF Announce, Logged, TypeOK
  <2> QED
    BY <1>0, <1>1, <1>3, <2>1, Kinds DEF Announce
<1>4. CASE Report(w)
  <2>1. Turn(w, "idle", state[j], "error")
    BY <1>1, <1>4, RecordMoves DEF Report, Logged, TypeOK
  <2> QED
    BY <1>0, <1>1, <1>4, <2>1, Kinds DEF Report
<1>5. CASE Done(w)
  <2>1. Turn(w, "idle", state[j], "done")
    BY <1>1, <1>5, RecordMoves DEF Done, Logged, TypeOK
  <2> QED
    BY <1>0, <1>1, <1>5, <2>1, Kinds DEF Done
<1>6. CASE \E reply \in Replies : Listed(w, reply)
  <2>1. PICK reply \in Replies : Listed(w, reply)
    BY <1>6
  <2>2. CASE reply = "os_error"
    BY <2>1, <2>2, FailTurns DEF Listed, Resumed
  <2>3. CASE reply # "os_error" /\ state[j] = "cancelled"
    <3>1. Turn(w, "idle", state[j], "nothing")
      BY <1>1, <2>1, <2>3, RecordMoves DEF Listed, Resumed
    <3> QED
      BY <1>0, <1>1, <2>1, <3>1 DEF Listed, Resumed
  <2>4. CASE reply # "os_error" /\ state[j] # "cancelled"
    <3>1. Turn(w, "stream", state[j], "nothing")
      BY <1>1, <2>1, <2>4, RecordMoves DEF Listed, Resumed
    <3> QED
      BY <1>0, <1>1, <2>1, <3>1 DEF Listed, Resumed
  <2> QED
    BY <2>2, <2>3, <2>4
<1>7. CASE \E item \in StreamItems : StreamItem(w, item)
  <2>1. PICK item \in StreamItems : StreamItem(w, item)
    BY <1>7
  <2>2. worker[w].pc = "stream" /\ loop = NoTask
    BY <2>1 DEF StreamItem, Resumed
  <2>3. CASE state[j] = "cancelled"
    <3>1. Turn(w, "idle", state[j], "nothing")
      BY <1>1, <2>1, <2>3, RecordMoves DEF StreamItem, Resumed
    <3> QED
      BY <1>0, <1>1, <2>2, <3>1
  <2>4. CASE state[j] # "cancelled" /\ UNCHANGED <<state, log, loop, worker>>
    BY <2>1, <2>4 DEF StreamItem, Resumed, vars
  <2>5. CASE /\ state[j] # "cancelled" /\ Logged(j, "output")
             /\ UNCHANGED <<state, loop, worker>>
    <3>1. Turn(w, "stream", state[j], "output")
      BY <1>1, <2>1, <2>2, <2>5 DEF StreamItem, Resumed, Logged, TypeOK
    <3> QED
      BY <1>0, <1>1, <2>2, <3>1, Kinds
  <2>6. CASE /\ state[j] # "cancelled" /\ Becomes(w, "drain")
             /\ UNCHANGED <<state, log, loop>>
    <3>1. Turn(w, "drain", state[j], "nothing")
      BY <1>1, <2>1, <2>2, <2>6, RecordMoves DEF StreamItem, Resumed
    <3> QED
      BY <1>0, <1>1, <2>2, <3>1
  <2>7. CASE Fail(w) /\ UNCHANGED log
    BY <2>1, <2>2, <2>7, FailTurns DEF StreamItem, Resumed
  <2> QED
    BY <2>1, <2>3, <2>4, <2>5, <2>6, <2>7 DEF StreamItem
<1>8. CASE \E fault \in Faults : StreamRaises(w, fault)
  BY <1>8, FailTurns DEF StreamRaises, Resumed
<1>9. CASE StreamEnd(w)
  <2>1. worker[w].pc \in {"stream", "drain"} /\ loop = NoTask
    BY <1>9 DEF StreamEnd, Resumed
  <2>2. CASE state[j] = "cancelled"
    <3>1. Turn(w, "idle", state[j], "nothing")
      BY <1>1, <1>9, <2>1, <2>2, RecordMoves DEF StreamEnd, Resumed
    <3> QED
      BY <1>0, <1>1, <2>1, <3>1
  <2>3. CASE state[j] # "cancelled"
    <3>1. Turn(w, "compare", "completed", "nothing")
      BY <1>1, <1>9, <2>1, <2>3, RecordMoves DEF StreamEnd, Resumed, TypeOK
    <3> QED
      BY <1>0, <3>1
  <2> QED
    BY <2>2, <2>3
<1>10. CASE \E reply \in Replies, changed \in BOOLEAN : Compare(w, reply, changed)
  <2>1. PICK reply \in Replies, changed \in BOOLEAN : Compare(w, reply, changed)
    BY <1>10
  <2>2. worker[w].pc = "compare" /\ loop = NoTask
    BY <2>1 DEF Compare, Resumed
  <2>3. CASE reply = "os_error"
    BY <2>1, <2>2, <2>3, FailTurns DEF Compare, Resumed
  <2>4. CASE reply # "os_error" /\ Logged(j, "artifact")
    <3>1. Turn(w, "done", state[j], "artifact")
      BY <1>1, <2>1, <2>2, <2>4, RecordMoves DEF Compare, Resumed, Logged, TypeOK
    <3> QED
      BY <1>0, <1>1, <2>2, <3>1, Kinds
  <2>5. CASE reply # "os_error" /\ UNCHANGED log
    <3>1. Turn(w, "done", state[j], "nothing")
      BY <1>1, <2>1, <2>2, <2>5, RecordMoves DEF Compare, Resumed
    <3> QED
      BY <1>0, <1>1, <2>2, <3>1
  <2> QED
    BY <2>1, <2>3, <2>4, <2>5 DEF Compare
<1> QED
  BY <1>2, <1>3, <1>4, <1>5, <1>6, <1>7, <1>8, <1>9, <1>10 DEF WorkerStep

\* A handler stops an active job, logs that it did, or leaves jobs and logs alone.
Cancels(c) ==
    \E j \in Jobs :
       /\ state[j] \in ActiveStates
       /\ \A k \in Jobs : state'[k] = IF k = j THEN "cancelled" ELSE state[k]
       /\ UNCHANGED log
       /\ call[c].pc # "stop_event"
       /\ call'[c].pc = "stop_event" /\ call'[c].job = j
       /\ loop' = c
Reports(c) ==
    /\ call[c].pc = "stop_event" /\ loop = c
    /\ UNCHANGED state
    /\ \A k \in Jobs : log'[k] = IF k = call[c].job THEN Append(log[k], "cancelled")
                                                    ELSE log[k]
    /\ call'[c].pc # "stop_event"
Passes(c) ==
    /\ UNCHANGED <<state, log>>
    /\ call[c].pc # "stop_event" /\ call'[c].pc # "stop_event"

Acts(c) ==
    /\ Cancels(c) \/ Reports(c) \/ Passes(c)
    /\ \A d \in Callers : d # c => call'[d] = call[d]
    /\ loop \in {c, NoTask}
    /\ Serving
    /\ UNCHANGED <<web, queue, worker, todo, restarts>>

\* What Return and Stopped do to the handler's record.
LEMMA CallMoves ==
  ASSUME TypeOK, NEW c \in Callers, Return(c) \/ Stopped(c)
  PROVE  /\ call'[c].pc # "stop_event"
         /\ \A d \in Callers : d # c => call'[d] = call[d]
  BY DEF Return, Stopped, IdleCall, TypeOK

LEMMA CancelActs ==
  ASSUME TypeOK, NEW c \in Callers, NEW j \in Jobs, NEW new \in CallRec, Cancel(c, j, new)
  PROVE  /\ \A k \in Jobs : state'[k] = IF k = j THEN "cancelled" ELSE state[k]
         /\ call'[c].pc = "stop_event" /\ call'[c].job = j
         /\ \A d \in Callers : d # c => call'[d] = call[d]
         /\ loop' = c
  BY CallOK DEF Cancel, CallRec, TypeOK

LEMMA HandlerActs ==
  ASSUME TypeOK, Found, NEW c \in Callers, CallStep(c) \/ Arrive(c)
  PROVE  Acts(c)
<1>1. ASSUME loop = c PROVE Serving
  BY <1>1, DistinctAssumption DEF Found, TypeOK
<1>2. CASE StopEvent(c)
  <2>1. /\ call'[c].pc # "stop_event"
        /\ \A d \in Callers : d # c => call'[d] = call[d]
    BY <1>2, CallMoves DEF StopEvent, TypeOK
  <2>2. Reports(c)
    BY <1>2, <2>1 DEF StopEvent, Reports, Logged, TypeOK
  <2> QED
    BY <1>1, <1>2, <2>1, <2>2 DEF StopEvent, Acts
<1>3. CASE \E reply \in Replies : StopReply(c, reply)
  BY <1>3, CallMoves DEF StopReply, Acts, Passes
<1>4. CASE DisableBegin(c)
  <2>1. call'[c].pc = "disable_next" /\ \A d \in Callers : d # c => call'[d] = call[d]
    BY <1>4, CallOK DEF DisableBegin, CallRec
  <2> QED
    BY <1>4, <2>1 DEF DisableBegin, Acts, Passes
<1>5. CASE DisableNext(c)
  <2>1. call[c].pc = "disable_next" /\ loop = c /\ Serving /\ call[c] \in CallRec
    BY <1>1, <1>5, CallOK DEF DisableNext
  <2>2. UNCHANGED <<log, web, queue, worker, todo, restarts>>
    BY <1>5 DEF DisableNext
  <2>3. CASE call[c].jobs = {}
    <3>1. call'[c].pc = "disable_rpc" /\ \A d \in Callers : d # c => call'[d] = call[d]
      BY <1>5, <2>3, CallOK DEF DisableNext, CallRec
    <3> QED
      BY <1>5, <2>1, <2>2, <2>3, <3>1 DEF DisableNext, Acts, Passes
  <2>4. CASE call[c].jobs # {}
    <3>1. PICK j \in call[c].jobs :
            IF state[j] \in ActiveStates
            THEN Cancel(c, j, [call[c] EXCEPT !.jobs = @ \ {j}])
            ELSE /\ call' = [call EXCEPT ![c].jobs = @ \ {j}]
                 /\ UNCHANGED <<state, loop>>
      BY <1>5, <2>4 DEF DisableNext
    <3>2. j \in Jobs /\ [call[c] EXCEPT !.jobs = @ \ {j}] \in CallRec
      BY <2>1 DEF CallRec
    <3>3. CASE state[j] \in ActiveStates
      <4>1. /\ \A k \in Jobs : state'[k] = IF k = j THEN "cancelled" ELSE state[k]
            /\ call'[c].pc = "stop_event" /\ call'[c].job = j
            /\ \A d \in Callers : d # c => call'[d] = call[d]
            /\ loop' = c
        BY <3>1, <3>2, <3>3, CancelActs
      <4> QED
        BY <2>1, <2>2, <3>2, <3>3, <4>1 DEF Acts, Cancels
    <3>4. CASE state[j] \notin ActiveStates
      <4>1. call'[c].pc = "disable_next" /\ \A d \in Callers : d # c => call'[d] = call[d]
        BY <2>1, <3>1, <3>4, CallOK DEF CallRec
      <4> QED
        BY <2>1, <2>2, <3>1, <3>4, <4>1 DEF Acts, Passes
    <3> QED
      BY <3>3, <3>4
  <2> QED
    BY <2>3, <2>4
<1>6. CASE \E reply \in Replies : DisableReply(c, reply)
  BY <1>6, CallMoves DEF DisableReply, Acts, Passes
<1>7. CASE \E reply \in Replies : EnableReply(c, reply)
  BY <1>7 DEF EnableReply, Acts, Passes, IdleCall, TypeOK
<1>8. CASE MaintainReply(c)
  BY <1>8, CallMoves DEF MaintainReply, Acts, Passes
<1>9. CASE \E j \in Jobs : StopBegin(c, j)
  <2>1. PICK j \in Jobs : StopBegin(c, j)
    BY <1>9
  <2>2. Owner[j] \in Users
    BY OwnerAssumption
  <2> DEFINE new == [IdleCall EXCEPT !.op = "stop", !.user = Owner[j]]
  <2>3. new \in CallRec
    BY <2>2 DEF IdleCall, CallRec, CallPcs
  <2>4. Cancel(c, j, new)
    BY <2>1 DEF StopBegin
  <2> HIDE DEF new
  <2>5. /\ \A k \in Jobs : state'[k] = IF k = j THEN "cancelled" ELSE state[k]
        /\ call'[c].pc = "stop_event" /\ call'[c].job = j
        /\ \A d \in Callers : d # c => call'[d] = call[d]
        /\ loop' = c
    BY <2>3, <2>4, CancelActs
  <2> QED
    BY <2>1, <2>5 DEF StopBegin, Acts, Cancels, IdleCall
<1>10. CASE \E u \in Users : DisableLoad(c, u) \/ EnableLoad(c, u) \/ MaintainBegin(c, u)
  <2>1. PICK u \in Users : DisableLoad(c, u) \/ EnableLoad(c, u) \/ MaintainBegin(c, u)
    BY <1>10
  <2>2. call'[c].pc # "stop_event" /\ \A d \in Callers : d # c => call'[d] = call[d]
    <3>1. CASE DisableLoad(c, u)
      BY <3>1, CallOK DEF DisableLoad, IdleCall
    <3>2. CASE EnableLoad(c, u)
      BY <3>2, CallOK DEF EnableLoad, IdleCall
    <3>3. CASE MaintainBegin(c, u)
      BY <3>3, CallOK DEF MaintainBegin, IdleCall
    <3> QED
      BY <2>1, <3>1, <3>2, <3>3
  <2>3. UNCHANGED <<state, log, web, queue, worker, todo, restarts>>
    BY <2>1 DEF DisableLoad, EnableLoad, MaintainBegin
  <2> QED
    BY <2>1, <2>2, <2>3 DEF DisableLoad, EnableLoad, MaintainBegin, Acts, Passes, IdleCall
<1> QED
  BY <1>2, <1>3, <1>4, <1>5, <1>6, <1>7, <1>8, <1>9, <1>10 DEF CallStep, Arrive

(***************************************************************************)
(* Logs, by what they have.                                                *)
(***************************************************************************)
LEMMA LogGrows ==
  ASSUME TypeOK, NEW j \in Jobs, NEW kind \in EventKinds,
         log'[j] = Append(log[j], kind)
  PROVE  /\ \A k \in EventKinds : Has(j, k)' <=> Has(j, k) \/ k = kind
         /\ \A i \in DOMAIN log[j] : i \in DOMAIN log'[j] /\ log'[j][i] = log[j][i]
         /\ \A i \in DOMAIN log'[j] : i \in DOMAIN log[j] \/ (i = Len(log[j]) + 1 /\ log'[j][i] = kind)
<1>1. log[j] \in Seq(EventKinds)
  BY DEF TypeOK
<1>2. /\ DOMAIN log[j] = 1..Len(log[j]) /\ Len(log[j]) \in Nat
      /\ DOMAIN log'[j] = 1..Len(log[j]) + 1
      /\ \A i \in 1..Len(log[j]) : log'[j][i] = log[j][i]
      /\ log'[j][Len(log[j]) + 1] = kind
  BY <1>1
<1> QED
  BY <1>2 DEF Has

\* What the log of a job may say, and that it says it of one run.
Agrees(j) ==
    /\ Has(j, "cancelled") => state[j] = "cancelled"
    /\ Has(j, "done") => state[j] = "completed"
    /\ Has(j, "error") => state[j] \in {"failed", "interrupted"}
    /\ state[j] \in {"none", "queued"} => ~Has(j, "running")
Once(j) == \A i, k \in DOMAIN log[j] : log[j][i] = "running" /\ log[j][k] = "running" => i = k

LogsByPart ==
    /\ \A j \in Jobs : Agrees(j) /\ Once(j)
    /\ \A w \in Workers :
          /\ worker[w].pc = "announce" => ~Has(Held(w), "running")
          /\ worker[w].pc \in {"compare", "done", "report"} => ~Closed(Held(w))
    /\ \A c \in Callers : call[c].pc = "stop_event" =>
          /\ loop = c /\ call[c].job \in Jobs
          /\ state[call[c].job] = "cancelled" /\ ~Closed(call[c].job)
    /\ \A j \in todo.notify : state[j] = "interrupted" /\ ~Closed(j)

LEMMA LogsByJob == Logs <=> LogsByPart
<1>1. LogAgreesWithState /\ (\A j \in Jobs : state[j] \in {"none", "queued"} => ~Has(j, "running"))
        <=> \A j \in Jobs : Agrees(j)
  BY DEF LogAgreesWithState, Agrees, Has
<1>2. StartedOnce <=> \A j \in Jobs : Once(j)
  BY DEF StartedOnce, Once
<1> QED
  BY <1>1, <1>2 DEF Logs, LogIsTrue, LogsByPart

LEMMA LogsNext == Logs' <=> LogsByPart'
  BY LogsByJob, PTL

LEMMA ClosedKinds ==
  \A j : Closed(j) <=> Has(j, "cancelled") \/ Has(j, "done") \/ Has(j, "error")
  BY DEF Closed, ClosingKinds

\* A log that stays agrees with a state that only moves where the log is open.
LEMMA LogStays ==
  ASSUME NEW j \in Jobs, Agrees(j), Once(j), log'[j] = log[j],
         \/ state'[j] = state[j]
         \/ /\ ~Closed(j)
            /\ state'[j] \in {"none", "queued"} => ~Has(j, "running")
  PROVE  Agrees(j)' /\ Once(j)'
  BY ClosedKinds DEF Agrees, Once, Has

\* One more event, that the state warrants.
LEMMA LogSays ==
  ASSUME TypeOK, NEW j \in Jobs, NEW kind \in EventKinds, Agrees(j), Once(j),
         log'[j] = Append(log[j], kind), state'[j] = state[j],
         kind = "cancelled" => state[j] = "cancelled",
         kind = "done" => state[j] = "completed",
         kind = "error" => state[j] \in {"failed", "interrupted"},
         kind = "running" => state[j] \notin {"none", "queued"} /\ ~Has(j, "running")
  PROVE  Agrees(j)' /\ Once(j)'
<1>1. \A k \in EventKinds : Has(j, k)' <=> Has(j, k) \/ k = kind
  BY LogGrows
<1>2. Agrees(j)'
  BY <1>1, Kinds DEF Agrees
<1>3. Once(j)'
  BY LogGrows DEF Once, Has
<1> QED
  BY <1>2, <1>3

\* A worker's own job.
LEMMA OwnLog ==
  ASSUME TypeOK, Work, Placed, Logs, NEW w \in Workers, NEW next, NEW new,
         NEW kind \in EventKinds \cup {"nothing"}, Turn(w, next, new, kind),
         NEW j \in Jobs, j = Held(w)
  PROVE  /\ Agrees(j)' /\ Once(j)'
         /\ next = "announce" => ~Has(j, "running")'
         /\ next \in {"compare", "done", "report"} => ~Closed(j)'
<1>1. /\ Row(worker[w].pc, state[j], next, new, kind)
      /\ state'[j] = new
      /\ log'[j] = IF kind = "nothing" THEN log[j] ELSE Append(log[j], kind)
      /\ worker[w].pc # "idle"
  BY DEF Turn, Held, Row
<1>2. /\ worker[w].pc \in {"announce", "list", "stream", "drain"} => state[j] \in {"running", "cancelled"}
      /\ worker[w].pc \in {"compare", "done"} => state[j] = "completed"
      /\ worker[w].pc = "report" => state[j] = "failed"
  BY <1>1, JobInHand DEF WorkingPcs
<1>3. /\ Agrees(j) /\ Once(j)
      /\ worker[w].pc = "announce" => ~Has(j, "running")
      /\ worker[w].pc \in {"compare", "done", "report"} => ~Closed(j)
  BY LogsByJob DEF LogsByPart
<1>4. state[j] \in {"queued", "running"} => ~Closed(j)
  BY <1>3, ClosedKinds DEF Agrees
<1>5. CASE kind = "nothing"
  <2>1. log'[j] = log[j]
    BY <1>1, <1>5
  <2>2. new = state[j] \/ (~Closed(j) /\ new \notin {"none", "queued"})
    BY <1>1, <1>2, <1>3, <1>4, <1>5 DEF Row
  <2>3. Agrees(j)' /\ Once(j)'
    BY <1>1, <1>3, <2>1, <2>2, LogStays
  <2>4. \A k : Has(j, k)' <=> Has(j, k)
    BY <2>1 DEF Has
  <2>5. next = "announce" => ~Has(j, "running")
    BY <1>1, <1>3, <1>5 DEF Row, Agrees
  <2>6. next \in {"compare", "done", "report"} => ~Closed(j)
    BY <1>1, <1>2, <1>3, <1>4, <1>5 DEF Row
  <2> QED
    BY <2>3, <2>4, <2>5, <2>6 DEF Closed
<1>6. CASE kind # "nothing"
  <2>1. kind \in EventKinds /\ log'[j] = Append(log[j], kind) /\ new = state[j]
    BY <1>1, <1>6 DEF Row
  <2>2. /\ kind = "cancelled" => state[j] = "cancelled"
        /\ kind = "done" => state[j] = "completed"
        /\ kind = "error" => state[j] \in {"failed", "interrupted"}
        /\ kind = "running" => state[j] \notin {"none", "queued"} /\ ~Has(j, "running")
    BY <1>1, <1>2, <1>3, <1>6 DEF Row
  <2>3. Agrees(j)' /\ Once(j)'
    BY <1>1, <1>3, <2>1, <2>2, LogSays
  <2>4. \A k \in EventKinds : Has(j, k)' <=> Has(j, k) \/ k = kind
    BY <2>1, LogGrows
  <2>5. next # "announce" /\ (next \in {"compare", "done", "report"} => ~Closed(j) /\ kind = "artifact")
    BY <1>1, <1>2, <1>3, <1>6 DEF Row
  <2>6. Closed(j)' <=> Closed(j) \/ kind \in ClosingKinds
    BY <2>4, Kinds DEF Closed, ClosingKinds
  <2> QED
    BY <2>3, <2>5, <2>6 DEF ClosingKinds
<1> QED
  BY <1>5, <1>6

LEMMA SameLog ==
  ASSUME NEW j \in Jobs, log'[j] = log[j]
  PROVE  (\A kind : Has(j, kind)' <=> Has(j, kind)) /\ (Closed(j)' <=> Closed(j))
  BY DEF Has, Closed

\* Other steps log nothing, and move no job whose log is closed.
LEMMA QuietLogs ==
  ASSUME TypeOK, Logs, UNCHANGED log,
         \A j \in Jobs : \/ state'[j] = state[j]
                         \/ /\ ~Closed(j)
                            /\ state'[j] \in {"none", "queued"} => ~Has(j, "running"),
         \A w \in Workers : worker'[w] = worker[w]
            \/ worker'[w].pc \notin {"announce", "compare", "done", "report"},
         \A w \in Workers : worker'[w].pc \in {"announce", "compare", "done", "report"} => Held(w) \in Jobs,
         \A c \in Callers : call'[c].pc # "stop_event"
            \/ (call'[c] = call[c] /\ loop' = loop
                /\ \A j \in Jobs : state[j] = "cancelled" => state'[j] = "cancelled"),
         \A j \in todo'.notify : j \in Jobs /\ state'[j] = "interrupted" /\ ~Closed(j)
  PROVE  Logs'
<1>1. \A j \in Jobs : Agrees(j)' /\ Once(j)'
  BY LogsByJob, LogStays DEF LogsByPart
<1>2. \A j \in Jobs : (\A kind : Has(j, kind)' <=> Has(j, kind)) /\ (Closed(j)' <=> Closed(j))
  BY SameLog
<1>3. ASSUME NEW w \in Workers
      PROVE  /\ worker'[w].pc = "announce" => ~Has(Held(w), "running")'
             /\ worker'[w].pc \in {"compare", "done", "report"} => ~Closed(Held(w))'
  <2>1. CASE worker'[w].pc \in {"announce", "compare", "done", "report"}
    <3>1. PICK j \in Jobs : j = Held(w)
      BY <2>1
    <3>2. worker'[w] = worker[w] /\ Held(w)' = j
      BY <2>1, <3>1 DEF Held
    <3>3. /\ worker[w].pc = "announce" => ~Has(j, "running")
          /\ worker[w].pc \in {"compare", "done", "report"} => ~Closed(j)
      BY <3>1, LogsByJob DEF LogsByPart
    <3>4. /\ worker[w].pc = "announce" => ~Has(j, "running")'
          /\ worker[w].pc \in {"compare", "done", "report"} => ~Closed(j)'
      BY <1>2, <3>3
    <3> QED
      BY <3>2, <3>4 DEF Has, Closed
  <2> QED
    BY <2>1
<1>4. ASSUME NEW c \in Callers, call'[c].pc = "stop_event"
      PROVE  /\ loop' = c /\ call'[c].job \in Jobs
             /\ state'[call'[c].job] = "cancelled" /\ ~Closed(call[c].job)'
  <2>1. call'[c] = call[c] /\ loop' = loop
    BY <1>4
  <2>2. PICK j \in Jobs : j = call[c].job /\ loop = c /\ state[j] = "cancelled" /\ ~Closed(j)
    BY <1>4, <2>1, LogsByJob DEF LogsByPart
  <2>3. ~Closed(j)'
    BY <1>2, <2>2
  <2>4. state'[j] = "cancelled" /\ call'[c].job = j
    BY <1>4, <2>1, <2>2
  <2> QED
    BY <2>1, <2>2, <2>3, <2>4 DEF Closed, Has
<1>5. \A j \in todo'.notify : state'[j] = "interrupted" /\ ~Closed(j)'
  BY <1>2
<1> QED
  BY <1>1, <1>3, <1>4, <1>5, LogsNext DEF LogsByPart

LEMMA TurnLogs ==
  ASSUME TypeOK, Work, Placed, Found, Logs, NEW w \in Workers, Turns(w)
  PROVE  Logs'
<1>1. PICK next \in WorkerPcs, new \in States, kind \in EventKinds \cup {"nothing"} :
        Turn(w, next, new, kind)
  BY DEF Turns
<1>2. PICK j \in Jobs : j = Held(w)
  BY <1>1 DEF Turn
<1>3. /\ Agrees(j)' /\ Once(j)'
      /\ next = "announce" => ~Has(j, "running")'
      /\ next \in {"compare", "done", "report"} => ~Closed(j)'
  BY <1>1, <1>2, OwnLog
<1>4. /\ \A k \in Jobs : k # j => log'[k] = log[k] /\ state'[k] = state[k]
      /\ \A v \in Workers : v # w => worker'[v] = worker[v]
      /\ worker'[w].pc = next /\ (next # "idle" => worker'[w].job = j)
      /\ UNCHANGED <<call, todo>>
      /\ loop \in {w, NoTask} /\ web # "starting"
  BY <1>1, <1>2 DEF Turn, Held
<1>5. \A k \in Jobs : k # j =>
        /\ Agrees(k)' /\ Once(k)'
        /\ \A k2 : Has(k, k2)' <=> Has(k, k2)
        /\ Closed(k)' <=> Closed(k)
  BY <1>4, LogsByJob, LogStays, SameLog DEF LogsByPart
<1>6. ASSUME NEW v \in Workers
      PROVE  /\ worker'[v].pc = "announce" => ~Has(Held(v), "running")'
             /\ worker'[v].pc \in {"compare", "done", "report"} => ~Closed(Held(v))'
  <2>1. CASE v = w
    <3>1. next # "idle" => Held(v)' = j
      BY <1>4, <2>1 DEF Held
    <3> QED
      BY <1>3, <1>4, <2>1, <3>1 DEF Has, Closed
  <2>2. CASE v # w /\ worker[v].pc \in {"announce", "compare", "done", "report"}
    <3>1. Held(v) \in Jobs
      BY <2>2 DEF Placed, Handles
    <3>2. PICK k \in Jobs : k = Held(v)
      BY <3>1
    <3>3. k # j
      BY <1>2, <2>2, <3>2, DistinctAssumption DEF Placed, OneWorkerPerJob, Held
    <3>4. /\ worker[v].pc = "announce" => ~Has(k, "running")
          /\ worker[v].pc \in {"compare", "done", "report"} => ~Closed(k)
      BY <3>2, LogsByJob DEF LogsByPart
    <3>5. /\ worker[v].pc = "announce" => ~Has(k, "running")'
          /\ worker[v].pc \in {"compare", "done", "report"} => ~Closed(k)'
      BY <1>5, <3>3, <3>4
    <3>6. worker'[v] = worker[v] /\ Held(v)' = k
      BY <1>4, <2>2, <3>2 DEF Held
    <3> QED
      BY <3>5, <3>6 DEF Has, Closed
  <2> QED
    BY <1>4, <2>1, <2>2
<1>7. \A c \in Callers : call[c].pc # "stop_event"
  BY <1>4, LogsByJob, DistinctAssumption DEF LogsByPart
<1>8. todo.notify = {}
  BY <1>4 DEF Found
<1> QED
  BY <1>3, <1>4, <1>5, <1>6, <1>7, <1>8, LogsNext DEF LogsByPart

LEMMA ActsLogs ==
  ASSUME TypeOK, Work, Placed, Found, Logs, NEW c \in Callers, Acts(c)
  PROVE  Logs'
<1>1. /\ UNCHANGED <<web, worker, todo>> /\ Serving
      /\ \A d \in Callers : d # c => call'[d] = call[d]
      /\ loop \in {c, NoTask}
  BY DEF Acts
<1>2. todo.notify = {}
  BY <1>1 DEF Found
<1>3. \A w \in Workers : worker[w].pc \notin Atomic
  BY <1>1, DistinctAssumption DEF Placed, Handles, Atomic
<1>4. \A w \in Workers : worker[w].pc = "compare" =>
        Held(w) \in Jobs /\ state[Held(w)] = "completed"
  BY JobInHand
<1>5. \A d \in Callers : d # c => call[d].pc # "stop_event"
  BY <1>1, LogsByJob, DistinctAssumption DEF LogsByPart
<1>6. CASE Cancels(c)
  <2>1. PICK j \in Jobs :
          /\ state[j] \in ActiveStates
          /\ \A k \in Jobs : state'[k] = IF k = j THEN "cancelled" ELSE state[k]
          /\ UNCHANGED log
          /\ call'[c].pc = "stop_event" /\ call'[c].job = j
          /\ loop' = c
    BY <1>6 DEF Cancels
  <2>2. ~Closed(j)
    BY <2>1, LogsByJob, ClosedKinds DEF LogsByPart, Agrees, ActiveStates
  <2>3. \A k \in Jobs : Agrees(k)' /\ Once(k)'
    BY <2>1, <2>2, LogsByJob, LogStays DEF LogsByPart
  <2>4. \A k \in Jobs : Closed(k)' <=> Closed(k)
    BY <2>1, SameLog
  <2>5. ASSUME NEW w \in Workers
        PROVE  /\ worker'[w].pc # "announce"
               /\ worker'[w].pc \in {"compare", "done", "report"} => ~Closed(Held(w))'
    <3>1. worker'[w] = worker[w] /\ Held(w)' = Held(w)
      BY <1>1 DEF Held
    <3>2. worker[w].pc \in {"compare", "done", "report"} => ~Closed(Held(w))
      BY LogsByJob DEF LogsByPart
    <3> QED
      BY <1>1, <1>3, <2>1, <3>1, <3>2 DEF Closed, Has, Atomic
  <2>6. state'[j] = "cancelled" /\ ~Closed(j)' /\ call'[c].job \in Jobs
    BY <2>1, <2>2, <2>4
  <2>7. \A d \in Callers : call'[d].pc = "stop_event" => d = c
    BY <1>1, <1>5
  <2>8. state'[call'[c].job] = "cancelled" /\ ~Closed(call[c].job)'
    BY <2>1, <2>6 DEF Closed, Has
  <2> QED
    BY <1>1, <1>2, <2>1, <2>3, <2>5, <2>6, <2>7, <2>8, LogsNext DEF LogsByPart
<1>7. CASE Reports(c)
  <2>1. PICK j \in Jobs : j = call[c].job /\ state[j] = "cancelled" /\ ~Closed(j)
    BY <1>7, LogsByJob DEF LogsByPart, Reports
  <2>2. /\ UNCHANGED state /\ call'[c].pc # "stop_event"
        /\ log'[j] = Append(log[j], "cancelled")
        /\ \A k \in Jobs : k # j => log'[k] = log[k]
    BY <1>7, <2>1 DEF Reports
  <2>3. Agrees(j)' /\ Once(j)'
    BY <2>1, <2>2, LogsByJob, LogSays, Kinds DEF LogsByPart
  <2>4. \A k \in Jobs : k # j => Agrees(k)' /\ Once(k)' /\ (Closed(k)' <=> Closed(k))
    BY <2>2, LogsByJob, LogStays, SameLog DEF LogsByPart
  <2>5. ASSUME NEW w \in Workers
        PROVE  /\ worker'[w].pc # "announce"
               /\ worker'[w].pc \in {"compare", "done", "report"} => ~Closed(Held(w))'
    <3>1. worker'[w] = worker[w] /\ worker[w].pc \notin Atomic
      BY <1>1, <1>3
    <3>2. CASE worker[w].pc = "compare"
      <4>1. PICK k \in Jobs : k = Held(w) /\ state[k] = "completed"
        BY <1>4, <3>2
      <4>2. k # j /\ ~Closed(k)
        BY <2>1, <3>2, <4>1, LogsByJob DEF LogsByPart
      <4>3. ~Closed(k)' /\ Held(w)' = k
        BY <1>1, <2>4, <4>1, <4>2 DEF Held
      <4> QED
        BY <3>1, <3>2, <4>3 DEF Closed, Has
    <3> QED
      BY <3>1, <3>2 DEF Atomic
  <2>6. \A d \in Callers : call'[d].pc # "stop_event"
    BY <1>1, <1>5, <2>2
  <2> QED
    BY <1>1, <1>2, <2>3, <2>4, <2>5, <2>6, LogsNext DEF LogsByPart
<1>8. CASE Passes(c)
  BY <1>1, <1>2, <1>3, <1>4, <1>5, <1>8, QuietLogs DEF Passes, Atomic
<1> QED
  BY <1>6, <1>7, <1>8 DEF Acts

\* start logs that a job was interrupted.
LEMMA NotifyLogs ==
  ASSUME TypeOK, Work, Found, Logs, NEW j \in Jobs, StartNotify(j)
  PROVE  Logs'
<1>1. /\ state[j] = "interrupted" /\ ~Closed(j)
      /\ log'[j] = Append(log[j], "error")
      /\ \A k \in Jobs : k # j => log'[k] = log[k]
      /\ UNCHANGED <<state, worker, call, loop>>
      /\ loop = Main /\ web = "starting"
      /\ todo'.notify = todo.notify \ {j}
  BY LogsByJob DEF StartNotify, Logged, LogsByPart, TypeOK
<1>2. Agrees(j)' /\ Once(j)'
  BY <1>1, LogsByJob, LogSays, Kinds DEF LogsByPart
<1>3. \A k \in Jobs : k # j => Agrees(k)' /\ Once(k)' /\ (Closed(k)' <=> Closed(k))
  BY <1>1, LogsByJob, LogStays, SameLog DEF LogsByPart
<1>4. \A w \in Workers : worker'[w].pc = "idle"
  BY <1>1 DEF Work, DownIsEmpty, IdleWorker
<1>5. \A c \in Callers : call'[c].pc # "stop_event"
  BY <1>1, LogsByJob, DistinctAssumption DEF LogsByPart
<1>6. \A k \in todo'.notify : state'[k] = "interrupted" /\ ~Closed(k)'
  <2>1. todo.notify \subseteq Jobs
    BY DEF TypeOK
  <2> QED
    BY <1>1, <1>3, <2>1, LogsByJob DEF LogsByPart
<1> QED
  BY <1>2, <1>3, <1>4, <1>5, <1>6, LogsNext DEF LogsByPart

\* The process ends.
LEMMA HaltLogs == ASSUME TypeOK, Logs, Halt PROVE Logs'
<1>1. /\ UNCHANGED log /\ UNCHANGED state
      /\ \A w \in Workers : worker'[w].pc = "idle"
      /\ \A c \in Callers : call'[c].pc = "idle"
      /\ todo'.notify = {}
  BY DEF Halt, IdleWorker, IdleCall, NoTodo
<1> QED
  BY <1>1, QuietLogs

LEMMA LogsStep ==
  ASSUME TypeOK, Work, Placed, Found, Logs, [Next]_vars
  PROVE  Logs'
<1>0. /\ \A w \in Workers : worker[w].pc \in {"announce", "compare", "done", "report"} => Held(w) \in Jobs
      /\ todo.notify \subseteq Jobs
      /\ \A j \in todo.notify : state[j] = "interrupted" /\ ~Closed(j)
      /\ \A c \in Callers : call[c].pc = "stop_event" => loop = c
  BY LogsByJob DEF Placed, Handles, LogsByPart, TypeOK
<1>1. CASE StartScan
  <2>1. \A j \in Jobs : \/ state'[j] = state[j]
                        \/ state[j] = "running" /\ state'[j] = "interrupted" /\ ~Closed(j)
    BY <1>1, LogsByJob, ClosedKinds DEF StartScan, Recovered, LogsByPart, Agrees
  <2>2. \A w \in Workers : worker'[w].pc = "idle"
    BY <1>1 DEF StartScan, Work, DownIsEmpty, IdleWorker
  <2>3. \A c \in Callers : call'[c].pc # "stop_event"
    BY <1>0, <1>1, DistinctAssumption DEF StartScan, Found
  <2>4. \A j \in todo'.notify : j \in Jobs /\ state[j] = "running"
    BY <1>1 DEF StartScan, NoTodo
  <2>5. \A j \in todo'.notify : j \in Jobs /\ state'[j] = "interrupted" /\ ~Closed(j)
    BY <1>1, <2>1, <2>4 DEF StartScan, Recovered
  <2> QED
    BY <1>1, <2>1, <2>2, <2>3, <2>5, QuietLogs DEF StartScan
<1>2. CASE \E j \in Jobs : StartNotify(j)
  BY <1>2, NotifyLogs
<1>3. CASE (\E j \in Jobs : StartEnqueue(j)) \/ StartServe
  <2>1. UNCHANGED <<state, log, worker, call>> /\ todo'.notify = todo.notify /\ loop = Main
    BY <1>3 DEF StartEnqueue, StartServe, TypeOK
  <2>2. \A c \in Callers : call'[c].pc # "stop_event"
    BY <1>0, <2>1, DistinctAssumption
  <2> QED
    BY <1>0, <2>1, <2>2, QuietLogs
<1>4. CASE CloseBegin \/ \E j \in Jobs : CloseReply(j)
  <2>1. UNCHANGED <<state, log, worker, call, loop>> /\ todo'.notify = todo.notify
    BY <1>4 DEF CloseBegin, CloseReply, TypeOK
  <2> QED
    BY <1>0, <2>1, QuietLogs
<1>5. CASE Crash \/ CloseEnd
  BY <1>5, HaltLogs DEF Crash, CloseEnd
<1>6. CASE \E j \in Jobs : Send(j)
  <2>1. PICK j \in Jobs : Send(j)
    BY <1>6
  <2>2. state[j] = "none" /\ UNCHANGED <<log, worker, call, loop, todo>>
    BY <2>1 DEF Send, MayCreate
  <2>3. ~Closed(j) /\ ~Has(j, "running")
    BY <2>2, LogsByJob, ClosedKinds DEF LogsByPart, Agrees
  <2>4. \A k \in Jobs : k # j => state'[k] = state[k]
    BY <2>1 DEF Send, TypeOK
  <2>5. \A k \in Jobs : state[k] = "cancelled" => state'[k] = "cancelled"
    BY <2>2, <2>4
  <2>6. \A k \in todo'.notify : k \in Jobs /\ state'[k] = "interrupted" /\ ~Closed(k)
    BY <1>0, <2>2, <2>4
  <2> QED
    BY <1>0, <2>2, <2>3, <2>4, <2>5, <2>6, QuietLogs
<1>7. ASSUME NEW w \in Workers, WorkerStep(w) PROVE Logs'
  <2>1. CASE Dequeue(w)
    <3>1. UNCHANGED <<state, log, call, loop, todo>>
      BY <2>1 DEF Dequeue
    <3>2. \A v \in Workers : worker'[v] = worker[v] \/ worker'[v].pc \in {"acquire", "idle"}
      BY <2>1 DEF Dequeue, IdleWorker, TypeOK
    <3>3. /\ \A v \in Workers : worker'[v] = worker[v]
                \/ worker'[v].pc \notin {"announce", "compare", "done", "report"}
          /\ \A v \in Workers : worker'[v].pc \in {"announce", "compare", "done", "report"}
                => Held(v) \in Jobs
      BY <1>0, <3>2
    <3> QED
      BY <1>0, <3>1, <3>3, QuietLogs
  <2>2. CASE UNCHANGED vars
    BY <1>0, <2>2, QuietLogs DEF vars
  <2> QED
    BY <1>7, <2>1, <2>2, WorkerTurns, TurnLogs
<1>8. ASSUME NEW c \in Callers, CallStep(c) \/ Arrive(c) PROVE Logs'
  BY <1>8, HandlerActs, ActsLogs
<1>9. CASE UNCHANGED vars
  BY <1>0, <1>9, QuietLogs DEF vars
<1> QED
  BY <1>1, <1>2, <1>3, <1>4, <1>5, <1>6, <1>7, <1>8, <1>9 DEF Next, StartStep, CloseStep

LEMMA LogsInit == Init => Logs
<1> SUFFICES ASSUME Init PROVE Logs
  OBVIOUS
<1>1. \A j \in Jobs : \A kind : ~Has(j, kind)
  BY DEF Init, Has
<1>2. \A j \in Jobs : Agrees(j) /\ Once(j)
  BY <1>1 DEF Init, Agrees, Once
<1>3. /\ \A w \in Workers : worker[w].pc = "idle"
      /\ \A c \in Callers : call[c].pc = "idle"
      /\ todo.notify = {}
  BY DEF Init, IdleWorker, IdleCall, NoTodo
<1> QED
  BY <1>2, <1>3, LogsByJob DEF LogsByPart

(***************************************************************************)
(* Where jobs are, step by step.                                           *)
(***************************************************************************)
LEMMA QueueGrows ==
  ASSUME TypeOK, NEW j \in Jobs, queue' = Append(queue, j)
  PROVE  /\ \A i \in DOMAIN queue : i \in DOMAIN queue' /\ queue'[i] = queue[i]
         /\ \A i \in DOMAIN queue' : (i \in DOMAIN queue /\ queue'[i] = queue[i])
                                     \/ (i = Len(queue) + 1 /\ queue'[i] = j)
         /\ \A k : OnQueue(k)' <=> OnQueue(k) \/ k = j
         /\ \A i \in DOMAIN queue : queue[i] \in Jobs
<1>1. queue \in Seq(Jobs)
  BY DEF TypeOK
<1>2. /\ DOMAIN queue = 1..Len(queue) /\ Len(queue) \in Nat
      /\ DOMAIN queue' = 1..Len(queue) + 1
      /\ \A i \in 1..Len(queue) : queue'[i] = queue[i] /\ queue[i] \in Jobs
      /\ queue'[Len(queue) + 1] = j
  BY <1>1
<1> QED
  BY <1>2 DEF OnQueue

LEMMA QueueShrinks ==
  ASSUME TypeOK, queue # <<>>, queue' = Tail(queue)
  PROVE  /\ \A i \in DOMAIN queue' : i + 1 \in DOMAIN queue /\ queue'[i] = queue[i + 1]
         /\ 1 \in DOMAIN queue /\ Head(queue) = queue[1] /\ Head(queue) \in Jobs
         /\ \A i \in DOMAIN queue' : i \in Nat /\ i + 1 # 1
         /\ \A k : OnQueue(k) => OnQueue(k)' \/ k = Head(queue)
<1>1. queue \in Seq(Jobs)
  BY DEF TypeOK
<1>2. /\ DOMAIN queue = 1..Len(queue) /\ Len(queue) \in Nat /\ Len(queue) # 0
      /\ DOMAIN queue' = 1..Len(queue) - 1
      /\ \A i \in 1..Len(queue) - 1 : queue'[i] = queue[i + 1]
      /\ Head(queue) = queue[1] /\ queue[1] \in Jobs
  BY <1>1
<1>3. ASSUME NEW i \in 1..Len(queue), i # 1
      PROVE  i - 1 \in 1..Len(queue) - 1 /\ queue'[i - 1] = queue[i]
  BY <1>2, <1>3
<1>4. ASSUME NEW k, OnQueue(k), k # Head(queue) PROVE OnQueue(k)'
  <2>1. PICK i \in 1..Len(queue) : queue[i] = k /\ i # 1
    BY <1>2, <1>4 DEF OnQueue
  <2> QED
    BY <1>2, <1>3, <2>1 DEF OnQueue
<1>5. \A i \in DOMAIN queue' : /\ i + 1 \in DOMAIN queue /\ queue'[i] = queue[i + 1]
                              /\ i \in Nat /\ i + 1 # 1
  BY <1>2
<1> QED
  BY <1>2, <1>4, <1>5

\* Nothing is taken, put or handed over.
LEMMA PlacedFrame ==
  ASSUME TypeOK, Placed, UNCHANGED <<queue, worker>>,
         todo'.enqueue = todo.enqueue,
         \A j \in Jobs : state[j] # "none" => state'[j] # "none",
         \A w \in Workers :
            /\ worker[w].pc \in Atomic \cup {"compare"} => state'[Held(w)] = state[Held(w)]
            /\ worker[w].pc \in Atomic => loop' = loop
  PROVE  Placed'
<1>1. \A i \in DOMAIN queue : queue[i] \in Jobs
  BY DEF TypeOK
<1>2. ASSUME NEW w \in Workers PROVE Handles(w)'
  BY DEF Placed, Handles, Held, Atomic
<1> QED
  BY <1>1, <1>2 DEF Placed, OneWorkerPerJob, Held

\* Nobody holds a job, and the queue is empty.
LEMMA PlacedEmpty ==
  ASSUME queue' = <<>>, \A w \in Workers : worker'[w] = IdleWorker
  PROVE  Placed'
<1>1. DOMAIN queue' = {}
  OBVIOUS
<1>2. \A w \in Workers : worker'[w].pc = "idle" /\ worker'[w].job = NoJob
  BY DEF IdleWorker
<1>3. \A w \in Workers : Handles(w)'
  BY <1>2 DEF Handles, Held
<1> QED
  BY <1>1, <1>2, <1>3 DEF Placed, OneWorkerPerJob, Held

LEMMA TurnPlaced ==
  ASSUME TypeOK, Work, Placed, Found, NEW w \in Workers, Turns(w)
  PROVE  Placed'
<1>1. PICK next \in WorkerPcs, new \in States, kind \in EventKinds \cup {"nothing"} :
        Turn(w, next, new, kind)
  BY DEF Turns
<1>2. PICK j \in Jobs : j = Held(w)
  BY <1>1 DEF Turn
<1>3. /\ \A k \in Jobs : k # j => state'[k] = state[k]
      /\ state'[j] = new /\ Row(worker[w].pc, state[j], next, new, kind)
      /\ \A v \in Workers : v # w => worker'[v] = worker[v]
      /\ worker'[w].pc = next
      /\ Held(w)' = IF next = "idle" THEN NoJob ELSE j
      /\ UNCHANGED <<queue, todo>>
      /\ loop = (IF worker[w].pc \in Atomic THEN w ELSE NoTask)
      /\ loop' = (IF next \in Atomic THEN w ELSE NoTask)
  BY <1>1, <1>2 DEF Turn, Held
<1>4. worker[w].pc # "idle" /\ state[j] # "none" /\ j # NoJob
  BY <1>2, <1>3, DistinctAssumption DEF Placed, Handles, Row
<1>5. \A v \in Workers : v # w => Held(v)' = Held(v) /\ Held(v) # j
  BY <1>2, <1>3, <1>4 DEF Placed, OneWorkerPerJob, Held
<1>6. \A i \in DOMAIN queue : queue[i] \in Jobs /\ queue[i] # j
  BY <1>2 DEF TypeOK, Placed
<1>7. \A i \in DOMAIN queue : \A v \in Workers : Held(v)' # queue[i]
  BY <1>3, <1>5, <1>6, DistinctAssumption DEF Placed
<1>8. OneWorkerPerJob'
  BY <1>3, <1>5 DEF Placed, OneWorkerPerJob, Held
<1>9. ASSUME NEW v \in Workers PROVE Handles(v)'
  <2>1. CASE v = w
    <3>1. worker[w].pc \in {"compare", "done"} => state[j] = "completed"
      BY <1>2, JobInHand
    <3>2. worker[w].pc = "report" => state[j] = "failed"
      BY <1>2, JobInHand
    <3>3. /\ new # "none"
          /\ next = "announce" => new = "running"
          /\ next \in {"compare", "done"} => new = "completed"
          /\ next = "report" => new = "failed"
      BY <1>3, <1>4, <3>1, <3>2 DEF Row
    <3>4. Handles(w)'
      BY <1>3, <1>4, <3>3 DEF Handles, Atomic
    <3> QED
      BY <2>1, <3>4
  <2>2. CASE v # w
    <3>1. worker[v].pc \notin Atomic
      BY <1>3, <2>2, DistinctAssumption DEF Placed, Handles, Atomic
    <3>2. worker[v].pc # "idle" => Held(v) \in Jobs /\ state'[Held(v)] = state[Held(v)]
      BY <1>3, <1>5, <2>2 DEF Placed, Handles
    <3>3. Handles(v)
      BY DEF Placed
    <3>4. worker'[v] = worker[v] /\ Held(v)' = Held(v)
      BY <1>3, <1>5, <2>2
    <3> QED
      BY <3>1, <3>2, <3>3, <3>4 DEF Handles, Atomic
  <2> QED
    BY <2>1, <2>2
<1>10. \A i \in DOMAIN queue : state'[queue[i]] # "none"
  BY <1>3, <1>6 DEF Placed
<1> QED
  BY <1>3, <1>7, <1>8, <1>9, <1>10 DEF Placed

LEMMA ActsPlaced ==
  ASSUME TypeOK, Work, Placed, NEW c \in Callers, Acts(c)
  PROVE  Placed'
<1>1. \A w \in Workers : worker[w].pc \notin Atomic
  BY DistinctAssumption DEF Placed, Handles, Atomic, Acts
<1>2. \A j \in Jobs : state'[j] = state[j] \/ (state[j] \in ActiveStates /\ state'[j] = "cancelled")
  BY DEF Acts, Cancels, Reports, Passes
<1>3. \A w \in Workers : worker[w].pc = "compare" => state'[Held(w)] = state[Held(w)]
  BY <1>2, JobInHand DEF ActiveStates
<1> QED
  BY <1>1, <1>2, <1>3, PlacedFrame DEF Acts, Atomic

LEMMA DequeuePlaced ==
  ASSUME TypeOK, Work, Placed, NEW w \in Workers, Dequeue(w)
  PROVE  Placed'
<1> DEFINE h == Head(queue)
<1>1. /\ queue # <<>> /\ queue' = Tail(queue) /\ worker[w].pc = "idle" /\ loop = NoTask
      /\ UNCHANGED <<state, todo, loop>>
  BY DEF Dequeue
<1>2. /\ \A i \in DOMAIN queue' : i + 1 \in DOMAIN queue /\ queue'[i] = queue[i + 1]
                                  /\ i \in Nat /\ i + 1 # 1
      /\ 1 \in DOMAIN queue /\ h = queue[1] /\ h \in Jobs
  BY <1>1, QueueShrinks
<1>3. /\ \A v \in Workers : v # w => worker'[v] = worker[v]
      /\ IF state[h] = "queued" THEN worker'[w].pc = "acquire" /\ worker'[w].job = h
                                ELSE worker'[w].pc = "idle" /\ worker'[w].job = NoJob
  BY DEF Dequeue, IdleWorker, TypeOK
<1>4. h # NoJob
  BY <1>2, DistinctAssumption
<1> HIDE DEF h
<1>5. \A i, k \in DOMAIN queue' : queue'[i] = queue'[k] => i = k
  <2> SUFFICES ASSUME NEW i \in DOMAIN queue', NEW k \in DOMAIN queue', queue'[i] = queue'[k]
               PROVE  i = k
    OBVIOUS
  <2>1. i + 1 = k + 1
    BY <1>2 DEF Placed
  <2> QED
    BY <1>2, <2>1
<1>6. \A i \in DOMAIN queue' : queue'[i] # h
  BY <1>2 DEF Placed
<1>7. \A i \in DOMAIN queue' :
        /\ state'[queue'[i]] # "none" /\ queue'[i] \notin todo'.enqueue /\ queue'[i] \in Jobs
        /\ \A v \in Workers : Held(v) # queue'[i]
  BY <1>1, <1>2 DEF Placed, TypeOK
<1>8. \A i \in DOMAIN queue' : \A v \in Workers : Held(v)' # queue'[i]
  BY <1>3, <1>6, <1>7, DistinctAssumption DEF Held
<1>9. \A v \in Workers : Held(v) # h
  BY <1>2 DEF Placed
<1>10. OneWorkerPerJob'
  BY <1>3, <1>9 DEF Placed, OneWorkerPerJob, Held
<1>11. ASSUME NEW v \in Workers PROVE Handles(v)'
  BY <1>1, <1>2, <1>3, <1>4 DEF Placed, Handles, Held
<1> QED
  BY <1>5, <1>7, <1>8, <1>10, <1>11 DEF Placed

\* A job that nobody has and that is to be on no list goes on the queue.
LEMMA PutPlaced ==
  ASSUME TypeOK, Placed, NEW j \in Jobs, queue' = Append(queue, j),
         ~OnQueue(j), \A w \in Workers : Held(w) # j,
         UNCHANGED <<worker, loop>>,
         \A k \in Jobs : k # j => state'[k] = state[k],
         state'[j] # "none",
         todo'.enqueue = todo.enqueue \ {j}
  PROVE  Placed'
<1>1. /\ \A i \in DOMAIN queue' : (i \in DOMAIN queue /\ queue'[i] = queue[i] /\ queue[i] # j)
                                     \/ (i = Len(queue) + 1 /\ queue'[i] = j)
      /\ \A i \in DOMAIN queue : queue[i] \in Jobs
  BY QueueGrows DEF OnQueue
<1>2. \A i, k \in DOMAIN queue' : queue'[i] = queue'[k] => i = k
  BY <1>1 DEF Placed
<1>3. \A i \in DOMAIN queue' :
        /\ state'[queue'[i]] # "none" /\ queue'[i] \notin todo'.enqueue
        /\ \A v \in Workers : Held(v)' # queue'[i]
  BY <1>1 DEF Placed, Held
<1>4. ASSUME NEW w \in Workers PROVE Handles(w)'
  BY DEF Placed, Handles, Held
<1> QED
  BY <1>2, <1>3, <1>4 DEF Placed, OneWorkerPerJob

LEMMA PlacedStep ==
  ASSUME TypeOK, Work, Placed, Found, [Next]_vars
  PROVE  Placed'
<1>1. CASE StartScan
  BY <1>1, PlacedEmpty DEF StartScan, Found, Work, DownIsEmpty
<1>2. CASE \E j \in Jobs : StartNotify(j)
  BY <1>2, PlacedFrame DEF StartNotify, TypeOK
<1>3. CASE \E j \in Jobs : StartEnqueue(j)
  <2>1. PICK j \in Jobs : StartEnqueue(j)
    BY <1>3
  <2>2. ~OnQueue(j) /\ state[j] = "queued"
    BY <2>1 DEF StartEnqueue, OnQueue, Placed, Found
  <2>3. \A w \in Workers : Held(w) # j
    BY <2>1, DistinctAssumption DEF StartEnqueue, Work, DownIsEmpty, IdleWorker, Held
  <2>4. todo'.enqueue = todo.enqueue \ {j}
    BY <2>1 DEF StartEnqueue, TypeOK
  <2> QED
    BY <2>1, <2>2, <2>3, <2>4, PutPlaced DEF StartEnqueue
<1>4. CASE StartServe
  <2>1. \A w \in Workers : worker[w].pc = "idle"
    BY <1>4 DEF StartServe, Work, DownIsEmpty, IdleWorker
  <2> QED
    BY <1>4, <2>1, PlacedFrame DEF StartServe, Atomic
<1>5. CASE CloseBegin \/ \E j \in Jobs : CloseReply(j)
  BY <1>5, PlacedFrame DEF CloseBegin, CloseReply, TypeOK
<1>6. CASE Crash \/ CloseEnd
  BY <1>6, PlacedEmpty DEF Crash, CloseEnd, Halt
<1>7. CASE \E j \in Jobs : Send(j)
  <2>1. PICK j \in Jobs : Send(j)
    BY <1>7
  <2>2. state[j] = "none"
    BY <2>1 DEF Send, MayCreate
  <2>3. ~OnQueue(j) /\ \A w \in Workers : Held(w) # j
    BY <2>2, DistinctAssumption DEF OnQueue, Placed, Handles
  <2>4. /\ \A k \in Jobs : k # j => state'[k] = state[k]
        /\ state'[j] # "none"
        /\ todo.enqueue = {}
    BY <2>1 DEF Send, TypeOK, Found
  <2> QED
    BY <2>1, <2>3, <2>4, PutPlaced DEF Send
<1>8. ASSUME NEW w \in Workers, WorkerStep(w) PROVE Placed'
  <2>1. CASE UNCHANGED vars
    BY <2>1, PlacedFrame DEF vars
  <2> QED
    BY <1>8, <2>1, WorkerTurns, DequeuePlaced, TurnPlaced
<1>9. ASSUME NEW c \in Callers, CallStep(c) \/ Arrive(c) PROVE Placed'
  BY <1>9, HandlerActs, ActsPlaced
<1>10. CASE UNCHANGED vars
  BY <1>10, PlacedFrame DEF vars
<1> QED
  BY <1>1, <1>2, <1>3, <1>4, <1>5, <1>6, <1>7, <1>8, <1>9, <1>10 DEF Next, StartStep, CloseStep

\* Nothing is taken, put or handed over, and no job gets active.
LEMMA FoundFrame ==
  ASSUME TypeOK, Found, UNCHANGED <<web, queue, worker>>,
         todo'.enqueue = todo.enqueue, todo'.notify \subseteq todo.notify,
         web \in {"down", "starting"} => UNCHANGED <<loop, state>>,
         \A j \in Jobs : state'[j] \in ActiveStates => state'[j] = state[j]
  PROVE  Found'
<1>1. \A j \in Jobs : (OnQueue(j)' <=> OnQueue(j)) /\ (Waiting(j)' <=> Waiting(j))
                       /\ (Working(j)' <=> Working(j))
  BY DEF OnQueue, Waiting, Working, Held
<1>2. \A j \in todo.enqueue : j \in Jobs
  BY DEF TypeOK
<1> QED
  BY <1>1, <1>2 DEF Found, ActiveStates

LEMMA TurnFound ==
  ASSUME TypeOK, Work, Placed, Found, NEW w \in Workers, Turns(w)
  PROVE  Found'
<1>1. PICK next \in WorkerPcs, new \in States, kind \in EventKinds \cup {"nothing"} :
        Turn(w, next, new, kind)
  BY DEF Turns
<1>2. PICK j \in Jobs : j = Held(w)
  BY <1>1 DEF Turn
<1>3. /\ \A k \in Jobs : k # j => state'[k] = state[k]
      /\ state'[j] = new /\ Row(worker[w].pc, state[j], next, new, kind)
      /\ \A v \in Workers : v # w => worker'[v] = worker[v]
      /\ worker'[w].pc = next
      /\ Held(w)' = IF next = "idle" THEN NoJob ELSE j
      /\ UNCHANGED <<web, queue, todo>>
      /\ web \in {"up", "closing"}
  BY <1>1, <1>2 DEF Turn, Held
<1>4. /\ worker[w].pc \in WorkingPcs => state[j] \in {"running", "cancelled"}
      /\ worker[w].pc \in {"compare", "done"} => state[j] = "completed"
      /\ worker[w].pc = "report" => state[j] = "failed"
      /\ worker[w].pc # "idle"
  <2>1. worker[w].pc # "idle"
    BY <1>3 DEF Row
  <2> QED
    BY <1>2, <2>1, JobInHand
<1>5. \A k \in Jobs : (OnQueue(k)' <=> OnQueue(k)) /\ k \notin todo.enqueue
  BY <1>3 DEF OnQueue, Found
<1>6. ASSUME NEW k \in Jobs, k # j
      PROVE  (Waiting(k) => Waiting(k)') /\ (Working(k) => Working(k)')
  <2>1. \A v \in Workers : worker[v].job = k => v # w /\ worker'[v] = worker[v]
    BY <1>2, <1>3, <1>6 DEF Held
  <2> QED
    BY <2>1 DEF Waiting, Working, Held
<1>7. new # "queued"
  BY <1>3, <1>4 DEF Row, WorkingPcs
<1>8. new = "running" => Working(j)'
  <2>1. CASE worker[w].pc = "acquire" /\ state[j] = "running"
    <3>1. PICK v \in Workers : Held(v) = j /\ worker[v].pc \in WorkingPcs
      BY <1>3, <2>1 DEF Found, Working
    <3>2. v # w
      BY <2>1, <3>1 DEF WorkingPcs
    <3> QED
      BY <1>2, <3>1, <3>2, DistinctAssumption DEF Placed, OneWorkerPerJob, Held
  <2>2. CASE ~(worker[w].pc = "acquire" /\ state[j] = "running")
    <3>1. new = "running" => next \in WorkingPcs /\ next # "idle"
      BY <1>3, <1>4, <2>2 DEF Row, WorkingPcs
    <3> QED
      BY <1>3, <3>1 DEF Working
  <2> QED
    BY <2>1, <2>2
<1> QED
  BY <1>3, <1>5, <1>6, <1>7, <1>8 DEF Found

LEMMA DequeueFound ==
  ASSUME TypeOK, Work, Placed, Found, NEW w \in Workers, Dequeue(w)
  PROVE  Found'
<1>1. /\ queue # <<>> /\ queue' = Tail(queue) /\ worker[w].pc = "idle" /\ loop = NoTask
      /\ UNCHANGED <<state, todo, loop, web>> /\ web \in {"up", "closing"}
      /\ worker[w].job = NoJob
  BY DEF Dequeue, Placed, Handles, Held
<1>2. (\A j \in Jobs : OnQueue(j) => OnQueue(j)' \/ j = Head(queue)) /\ Head(queue) \in Jobs
  BY <1>1, QueueShrinks
<1>3. /\ \A v \in Workers : v # w => worker'[v] = worker[v]
      /\ state[Head(queue)] = "queued" => worker'[w] = [pc |-> "acquire", job |-> Head(queue)]
  BY DEF Dequeue, TypeOK
<1>4. ASSUME NEW j \in Jobs PROVE (Waiting(j) => Waiting(j)') /\ (Working(j) => Working(j)')
  <2>1. \A v \in Workers : worker[v].job = j => v # w /\ worker'[v] = worker[v]
    BY <1>1, <1>3, DistinctAssumption
  <2> QED
    BY <2>1 DEF Waiting, Working, Held
<1>5. ASSUME NEW j \in Jobs, state[j] = "queued", j = Head(queue) PROVE Waiting(j)'
  BY <1>3, <1>5 DEF Waiting
<1> QED
  BY <1>1, <1>2, <1>4, <1>5 DEF Found

LEMMA FoundStep ==
  ASSUME TypeOK, Work, Placed, Found, [Next]_vars
  PROVE  Found'
<1>1. CASE StartScan
  <2>1. /\ web' = "starting" /\ loop' = Main
        /\ todo'.enqueue = {j \in Jobs : state'[j] = "queued"}
        /\ \A j \in Jobs : state'[j] # "running"
    BY <1>1 DEF StartScan, NoTodo, Recovered
  <2> QED
    BY <2>1 DEF Found
<1>2. CASE \E j \in Jobs : StartNotify(j)
  BY <1>2, FoundFrame DEF StartNotify, TypeOK
<1>3. CASE \E j \in Jobs : StartEnqueue(j)
  <2>1. PICK j \in Jobs : StartEnqueue(j)
    BY <1>3
  <2>2. /\ web = "starting" /\ UNCHANGED <<web, loop, state, worker>>
        /\ todo'.enqueue = todo.enqueue \ {j} /\ queue' = Append(queue, j)
        /\ todo.enqueue \subseteq Jobs
    BY <2>1 DEF StartEnqueue, TypeOK
  <2>3. \A k \in Jobs : OnQueue(k)' <=> OnQueue(k) \/ k = j
    BY <2>2, QueueGrows
  <2>4. \A k \in Jobs : (Waiting(k)' <=> Waiting(k)) /\ (Working(k)' <=> Working(k))
    BY <2>2 DEF Waiting, Working, Held
  <2> QED
    BY <2>2, <2>3, <2>4 DEF Found
<1>4. CASE StartServe
  <2>1. /\ web = "starting" /\ web' = "up" /\ UNCHANGED <<queue, state, worker, todo>>
        /\ todo.enqueue = {} /\ todo.notify = {}
    BY <1>4 DEF StartServe, NoTodo
  <2>2. \A j \in Jobs : (OnQueue(j)' <=> OnQueue(j)) /\ (Waiting(j)' <=> Waiting(j))
                         /\ (Working(j)' <=> Working(j))
    BY <2>1 DEF OnQueue, Waiting, Working, Held
  <2> QED
    BY <2>1, <2>2 DEF Found
<1>5. CASE CloseBegin \/ \E j \in Jobs : CloseReply(j)
  <2>1. /\ web \in {"up", "closing"} /\ web' = "closing" /\ UNCHANGED <<queue, state, worker>>
        /\ todo'.enqueue = todo.enqueue /\ todo'.notify = todo.notify
    BY <1>5 DEF CloseBegin, CloseReply, TypeOK
  <2>2. \A j \in Jobs : (OnQueue(j)' <=> OnQueue(j)) /\ (Waiting(j)' <=> Waiting(j))
                         /\ (Working(j)' <=> Working(j))
    BY <2>1 DEF OnQueue, Waiting, Working, Held
  <2> QED
    BY <2>1, <2>2 DEF Found
<1>6. CASE Crash \/ CloseEnd
  BY <1>6 DEF Crash, CloseEnd, Halt, Found, NoTodo
<1>7. CASE \E j \in Jobs : Send(j)
  <2>1. PICK j \in Jobs : Send(j)
    BY <1>7
  <2>2. /\ web = "up" /\ UNCHANGED <<web, loop, worker, todo>>
        /\ queue' = Append(queue, j) /\ state'[j] = "queued"
        /\ \A k \in Jobs : k # j => state'[k] = state[k]
    BY <2>1 DEF Send, TypeOK
  <2>3. \A k \in Jobs : OnQueue(k)' <=> OnQueue(k) \/ k = j
    BY <2>2, QueueGrows
  <2>4. \A k \in Jobs : (Waiting(k)' <=> Waiting(k)) /\ (Working(k)' <=> Working(k))
    BY <2>2 DEF Waiting, Working, Held
  <2> QED
    BY <2>2, <2>3, <2>4 DEF Found
<1>8. ASSUME NEW w \in Workers, WorkerStep(w) PROVE Found'
  <2>1. CASE UNCHANGED vars
    BY <2>1, FoundFrame DEF vars
  <2> QED
    BY <1>8, <2>1, WorkerTurns, DequeueFound, TurnFound
<1>9. ASSUME NEW c \in Callers, CallStep(c) \/ Arrive(c) PROVE Found'
  <2>1. Acts(c)
    BY <1>9, HandlerActs
  <2>2. /\ UNCHANGED <<web, queue, worker, todo>> /\ web \in {"up", "closing"}
        /\ \A j \in Jobs : state'[j] \in ActiveStates => state'[j] = state[j]
    BY <2>1 DEF Acts, Cancels, Reports, Passes, ActiveStates
  <2> QED
    BY <2>2, FoundFrame
<1>10. CASE UNCHANGED vars
  BY <1>10, FoundFrame DEF vars
<1> QED
  BY <1>1, <1>2, <1>3, <1>4, <1>5, <1>6, <1>7, <1>8, <1>9, <1>10 DEF Next, StartStep, CloseStep

LEMMA ScheduleInit == Init => Schedule
<1> SUFFICES ASSUME Init PROVE Schedule
  OBVIOUS
<1>1. queue = <<>> /\ DOMAIN queue = {}
  BY DEF Init
<1>2. \A w \in Workers : worker[w].pc = "idle" /\ worker[w].job = NoJob
  BY DEF Init, IdleWorker
<1>3. Placed
  BY <1>1, <1>2 DEF Placed, OneWorkerPerJob, Handles, Held
<1>4. Found
  BY <1>1 DEF Init, Found, NoTodo
<1> QED
  BY <1>3, <1>4 DEF Schedule

LEMMA ScheduleAlways == Spec => [](Schedule /\ Logs)
<1>1. TypeOK /\ Work /\ Schedule /\ Logs /\ [Next]_vars => (Schedule /\ Logs)'
  BY PlacedStep, FoundStep, LogsStep DEF Schedule
<1> QED
  BY <1>1, ScheduleInit, LogsInit, TypeCorrect, WorkAlways, PTL DEF Spec

\* A set all of whose members are equal counts one or none.
LEMMA CountOne ==
  ASSUME NEW S, \A x, y \in S : x = y
  PROVE  Cardinality(S) = IF S = {} THEN 0 ELSE 1
<1>1. CASE S = {}
  BY <1>1, FS_EmptySet
<1>2. CASE S # {}
  <2>1. PICK x : S = {x}
    BY <1>2
  <2> QED
    BY <1>2, <2>1, FS_Singleton
<1> QED
  BY <1>1, <1>2

\* A job that is to be done is in exactly one place from which it gets done,
\* through stops, restarts, dropped queue entries and every fault of the Runner.
THEOREM Scheduled == Spec => []JobsAreScheduled
<1>1. TypeOK /\ Schedule => JobsAreScheduled
  <2> SUFFICES ASSUME TypeOK, Placed, Found PROVE JobsAreScheduled
    BY DEF Schedule
  <2>1. ASSUME Serving, NEW j \in Jobs, state[j] = "queued"
        PROVE  LET places == {i \in DOMAIN queue : queue[i] = j}
                   holders == {w \in Workers : worker[w] = [pc |-> "acquire", job |-> j]}
               IN  Cardinality(places) + Cardinality(holders) = 1
    <3> DEFINE places == {i \in DOMAIN queue : queue[i] = j}
               holders == {w \in Workers : worker[w] = [pc |-> "acquire", job |-> j]}
    <3>1. j # NoJob
      BY DistinctAssumption
    <3>2. /\ \A x, y \in places : x = y
          /\ \A x, y \in holders : x = y
      BY <3>1 DEF Placed, OneWorkerPerJob
    <3>3. places = {} \/ holders = {}
      BY DEF Placed, Held
    <3>4. places # {} \/ holders # {}
      BY <2>1 DEF Found, OnQueue, Waiting
    <3> HIDE DEF places, holders
    <3>5. Cardinality(places) = (IF places = {} THEN 0 ELSE 1)
          /\ Cardinality(holders) = (IF holders = {} THEN 0 ELSE 1)
      BY <3>2, CountOne
    <3>6. Cardinality(places) + Cardinality(holders) = 1
      BY <3>3, <3>4, <3>5
    <3> QED
      BY <3>6 DEF places, holders
  <2>2. QueuedIsScheduled
    BY <2>1 DEF QueuedIsScheduled
  <2>3. RunningIsWorked
    BY DEF Found, RunningIsWorked, Working, Held
  <2> QED
    BY <2>2, <2>3 DEF JobsAreScheduled, Placed
<1> QED
  BY <1>1, TypeCorrect, ScheduleAlways, PTL

\* The log of a job shows one run of it and how it really ended.
THEOREM LogTrue == Spec => []LogIsTrue
<1>1. Logs => LogIsTrue
  BY DEF Logs
<1> QED
  BY <1>1, ScheduleAlways, PTL

\* What a step logs is of a job whose log is open.
LEMMA OpenLog ==
  ASSUME TypeOK, Work, Placed, Found, Logs, [Next]_vars,
         NEW j \in Jobs, Closed(j)
  PROVE  log'[j] = log[j]
<1>1. ASSUME NEW w \in Workers, Turns(w) PROVE log'[j] = log[j]
  <2>1. PICK next \in WorkerPcs, new \in States, kind \in EventKinds \cup {"nothing"} :
          Turn(w, next, new, kind)
    BY <1>1 DEF Turns
  <2>2. CASE j = Held(w) /\ kind # "nothing"
    <3>1. Row(worker[w].pc, state[j], next, new, kind) /\ worker[w].pc # "idle"
      BY <2>1, <2>2 DEF Turn, Held, Row
    <3>2. state[j] = "running" => ~Closed(j)
      BY LogsByJob, ClosedKinds DEF LogsByPart, Agrees
    <3>3. worker[w].pc \in {"announce", "compare", "done", "report"} => ~Closed(j)
      BY <2>2, <3>1, <3>2, JobInHand, LogsByJob DEF LogsByPart
    <3>4. worker[w].pc \in {"list", "stream", "drain"} /\ state[j] = "cancelled" => kind = "nothing"
      BY <3>1 DEF Row
    <3>5. worker[w].pc \in {"list", "stream", "drain"} => state[j] \in {"running", "cancelled"}
      BY <2>2, <3>1, JobInHand DEF WorkingPcs
    <3> QED
      BY <2>2, <3>1, <3>2, <3>3, <3>4, <3>5 DEF Row
  <2> QED
    BY <2>1, <2>2 DEF Turn, Held
<1>2. ASSUME NEW w \in Workers, WorkerStep(w) PROVE log'[j] = log[j]
  BY <1>1, <1>2, WorkerTurns DEF Dequeue, vars
<1>3. ASSUME NEW c \in Callers, CallStep(c) \/ Arrive(c) PROVE log'[j] = log[j]
  <2>1. Acts(c)
    BY <1>3, HandlerActs
  <2>2. CASE Reports(c)
    <3>1. ~Closed(call[c].job)
      BY <2>2, LogsByJob DEF LogsByPart, Reports
    <3> QED
      BY <2>2, <3>1 DEF Reports
  <2> QED
    BY <2>1, <2>2 DEF Acts, Cancels, Passes
<1>4. CASE \E k \in Jobs : StartNotify(k)
  BY <1>4, LogsByJob DEF StartNotify, Logged, LogsByPart, TypeOK
<1> QED
  BY <1>2, <1>3, <1>4 DEF Next, StartStep, CloseStep, StartScan, StartEnqueue,
     StartServe, CloseBegin, CloseReply, CloseEnd, Crash, Halt, Send, vars

\* After its closing event a job logs nothing: no output after the stop was
\* shown, one closing event per job.
THEOREM NothingAfter == Spec => NothingAfterClosing
<1>1. TypeOK /\ Work /\ Schedule /\ Logs /\ [Next]_vars =>
        [\A j \in Jobs : (\E i \in DOMAIN log[j] : log[j][i] \in ClosingKinds)
                          => log'[j] = log[j]]_vars
  <2> SUFFICES ASSUME TypeOK, Work, Placed, Found, Logs, [Next]_vars,
                      NEW j \in Jobs, \E i \in DOMAIN log[j] : log[j][i] \in ClosingKinds
               PROVE  log'[j] = log[j]
    BY DEF Schedule
  <2>1. Closed(j)
    BY DEF Closed, Has
  <2> QED
    BY <2>1, OpenLog
<1> QED
  BY <1>1, TypeCorrect, WorkAlways, ScheduleAlways, PTL DEF Spec, NothingAfterClosing

\* What has ended changes in one way only: at a listing that raises.
LEMMA EndedChanges ==
  ASSUME TypeOK, Work, Placed, Found, Logs, [Next]_vars,
         NEW j \in Jobs, state[j] \in TerminalStates, state'[j] # state[j]
  PROVE  state[j] = "completed" /\ state'[j] = "failed" /\ ~Closed(j)
<1> USE DEF TerminalStates
<1>1. CASE \E w \in Workers : Turns(w)
  <2>1. PICK w \in Workers, next \in WorkerPcs, new \in States,
             kind \in EventKinds \cup {"nothing"} : Turn(w, next, new, kind)
    BY <1>1 DEF Turns
  <2>2. /\ j = Held(w) /\ state'[j] = new
        /\ Row(worker[w].pc, state[j], next, new, kind)
        /\ worker[w].pc # "idle"
    BY <2>1 DEF Turn, Row
  <2>3. worker[w].pc \in {"list", "stream", "drain"} => state[j] \in {"running", "cancelled"}
    BY <2>2, JobInHand DEF WorkingPcs
  <2>4. worker[w].pc = "compare" /\ new = "failed"
    BY <2>2, <2>3 DEF Row
  <2> QED
    BY <2>2, <2>4, JobInHand, LogsByJob DEF LogsByPart
<1>2. ASSUME NEW c \in Callers, CallStep(c) \/ Arrive(c) PROVE FALSE
  BY <1>2, HandlerActs DEF Acts, Cancels, Reports, Passes, ActiveStates
<1>3. CASE StartScan \/ \E k \in Jobs : Send(k)
  <2>1. CASE StartScan
    BY <2>1 DEF StartScan, Recovered, TypeOK
  <2>2. CASE \E k \in Jobs : Send(k)
    BY <2>2 DEF Send, MayCreate, TypeOK
  <2> QED
    BY <1>3, <2>1, <2>2
<1>4. CASE UNCHANGED state
  BY <1>4
<1>5. ASSUME NEW w \in Workers, WorkerStep(w) PROVE Turns(w) \/ UNCHANGED state
  <2>1. Dequeue(w) => UNCHANGED state
    BY DEF Dequeue, database
  <2>2. UNCHANGED vars => UNCHANGED state
    BY DEF vars
  <2> QED
    BY <1>5, <2>1, <2>2, WorkerTurns
<1> QED
  BY <1>1, <1>2, <1>3, <1>4, <1>5 DEF Next, StartStep, CloseStep, StartNotify,
     StartEnqueue, StartServe, CloseBegin, CloseReply, CloseEnd, Crash, Halt, vars

\* A job that has ended stays as it ended, under every fault, but for the one
\* whose files are being listed.
THEOREM EndedStays == Spec => EndedStaysEnded
<1>1. TypeOK /\ Work /\ Schedule /\ Logs /\ [Next]_vars =>
        [\A j \in Jobs : state[j] \in TerminalStates /\ state'[j] # state[j] =>
            /\ state[j] = "completed" /\ state'[j] = "failed"
            /\ \A i \in DOMAIN log[j] : log[j][i] \notin ClosingKinds]_vars
  BY EndedChanges DEF Schedule, Closed, Has
<1> QED
  BY <1>1, TypeCorrect, WorkAlways, ScheduleAlways, PTL DEF Spec, EndedStaysEnded
=============================================================================
