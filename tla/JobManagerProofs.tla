-------------------------- MODULE JobManagerProofs --------------------------
(***************************************************************************)
(* The types and the safety of the scheduler for every set of users, jobs, *)
(* workers and handlers, with crashes and any of the faults.               *)
(*                                                                         *)
(* The argument for the lock: only Send makes a job active, Send needs its *)
(* owner's lock, and a handler keeps that lock from where it looks at the  *)
(* user's jobs to where it acts on what it saw.                            *)
(*                                                                         *)
(* A job ends once: cancelled is final whatever goes wrong, and as long as *)
(* the Runner's calls raise nothing but RunnerError the scheduler          *)
(* implements JobLifecycle and every terminal state is final.              *)
(***************************************************************************)
EXTENDS JobManager, TLAPS

(***************************************************************************)
(* Type correctness.                                                       *)
(***************************************************************************)
USE DEF Serving, database

\* One more row of a known kind leaves every log a sequence of rows.  (A worker
\* without a job would log nothing: there is no row to change.)
LEMMA LoggedType ==
  ASSUME TypeOK, NEW j, NEW kind \in EventKinds, Logged(j, kind)
  PROVE  log' \in [Jobs -> Seq(EventKinds)]
<1> SUFFICES ASSUME NEW k \in Jobs PROVE log'[k] \in Seq(EventKinds)
  BY DEF Logged, TypeOK
<1>1. log[k] \in Seq(EventKinds)
  BY DEF TypeOK
<1>2. Append(log[k], kind) \in Seq(EventKinds)
  BY <1>1
<1> QED
  BY <1>1, <1>2 DEF Logged, TypeOK

LEMMA Kinds == /\ "running" \in EventKinds /\ "cancelled" \in EventKinds
               /\ "output" \in EventKinds /\ "artifact" \in EventKinds
               /\ "done" \in EventKinds /\ "error" \in EventKinds
  BY DEF EventKinds

\* Dropping a job from one of the three sets of todo leaves it well typed.
TodoSet == [notify : SUBSET Jobs, enqueue : SUBSET Jobs, stop : SUBSET Jobs]

LEMMA TodoType ==
  ASSUME NEW t \in TodoSet, NEW S \in SUBSET Jobs
  PROVE  /\ [t EXCEPT !.notify = S] \in TodoSet
         /\ [t EXCEPT !.enqueue = S] \in TodoSet
         /\ [t EXCEPT !.stop = S] \in TodoSet
         /\ t.notify \subseteq Jobs /\ t.enqueue \subseteq Jobs
         /\ t.stop \subseteq Jobs
  BY DEF TodoSet

LEMMA TodoOK == TypeOK => todo \in TodoSet
  BY DEF TypeOK, TodoSet

LEMMA HaltType == TypeOK /\ Halt /\ restarts' \in 0..MaxRestarts => TypeOK'
  BY DEF TypeOK, Halt, IdleWorker, IdleCall, NoTodo, WorkerPcs, CallPcs

LEMMA StartType ==
  ASSUME TypeOK, StartStep PROVE TypeOK'
<1>1. CASE StartScan
  BY <1>1 DEF StartScan, TypeOK, NoTodo, Recovered, States, ActiveStates,
     TerminalStates
<1>2. CASE \E j \in Jobs : StartNotify(j)
  <2>1. PICK j \in Jobs : StartNotify(j)
    BY <1>2
  <2>2. log' \in [Jobs -> Seq(EventKinds)]
    BY <2>1, LoggedType, Kinds DEF StartNotify
  <2>3. todo' \in TodoSet
    <3>1. todo.notify \ {j} \in SUBSET Jobs
      BY TodoOK, TodoType
    <3> QED
      BY <2>1, <3>1, TodoOK, TodoType DEF StartNotify
  <2> QED
    BY <2>1, <2>2, <2>3 DEF StartNotify, TypeOK, TodoSet
<1>3. CASE \E j \in Jobs : StartEnqueue(j)
  <2>1. PICK j \in Jobs : StartEnqueue(j)
    BY <1>3
  <2>2. queue' \in Seq(Jobs)
    BY <2>1 DEF StartEnqueue, TypeOK
  <2>3. todo' \in TodoSet
    <3>1. todo.enqueue \ {j} \in SUBSET Jobs
      BY TodoOK, TodoType
    <3> QED
      BY <2>1, <3>1, TodoOK, TodoType DEF StartEnqueue
  <2> QED
    BY <2>1, <2>2, <2>3 DEF StartEnqueue, TypeOK, TodoSet
<1>4. CASE StartServe
  BY <1>4 DEF StartServe, TypeOK
<1> QED
  BY <1>1, <1>2, <1>3, <1>4 DEF StartStep

LEMMA StopType ==
  ASSUME TypeOK, CloseBegin \/ CloseStep \/ Crash PROVE TypeOK'
<1>1. CASE CloseBegin
  <2>1. restarts' \in 0..MaxRestarts
    BY <1>1, BoundsAssumption DEF CloseBegin, TypeOK
  <2>2. todo' \in TodoSet
    <3>1. {j \in Jobs : state[j] = "running"} \in SUBSET Jobs
      OBVIOUS
    <3> QED
      BY <1>1, <3>1, TodoOK, TodoType DEF CloseBegin
  <2> QED
    BY <1>1, <2>1, <2>2 DEF CloseBegin, TypeOK, TodoSet
<1>2. CASE \E j \in Jobs : CloseReply(j)
  <2>1. PICK j \in Jobs : CloseReply(j)
    BY <1>2
  <2>2. todo' \in TodoSet
    <3>1. todo.stop \ {j} \in SUBSET Jobs
      BY TodoOK, TodoType
    <3> QED
      BY <2>1, <3>1, TodoOK, TodoType DEF CloseReply
  <2> QED
    BY <2>1, <2>2 DEF CloseReply, TypeOK, TodoSet
<1>3. CASE CloseEnd
  BY <1>3, HaltType DEF CloseEnd, TypeOK
<1>4. CASE Crash
  <2>1. restarts' \in 0..MaxRestarts
    BY <1>4, BoundsAssumption DEF Crash, TypeOK
  <2> QED
    BY <1>4, <2>1, HaltType DEF Crash
<1> QED
  BY <1>1, <1>2, <1>3, <1>4 DEF CloseStep

\* A worker's record stays a worker's record.
WorkerSet == [Workers -> [pc : WorkerPcs, job : Jobs \cup {NoJob}]]

LEMMA WorkerRecord ==
  ASSUME TypeOK, NEW w \in Workers
  PROVE  /\ Released(w) => worker' \in WorkerSet
         /\ \A pc \in WorkerPcs : Becomes(w, pc) => worker' \in WorkerSet
<1> DEFINE Rec == [pc : WorkerPcs, job : Jobs \cup {NoJob}]
<1>1. worker \in [Workers -> Rec]
  BY DEF TypeOK
<1>2. IdleWorker \in Rec
  BY DEF IdleWorker, WorkerPcs
<1>3. \A pc \in WorkerPcs : [worker[w] EXCEPT !.pc = pc] \in Rec
  BY <1>1
<1>4. \A r \in Rec : [worker EXCEPT ![w] = r] \in [Workers -> Rec]
  BY <1>1
<1>5. ASSUME NEW pc \in WorkerPcs, Becomes(w, pc) PROVE worker' \in WorkerSet
  <2>1. worker' = [worker EXCEPT ![w] = [worker[w] EXCEPT !.pc = pc]]
    BY <1>5 DEF Becomes
  <2> QED
    BY <2>1, <1>3, <1>4 DEF WorkerSet
<1> QED
  BY <1>2, <1>4, <1>5 DEF Released, WorkerSet

LEMMA FailType ==
  ASSUME TypeOK, NEW w \in Workers, Fail(w)
  PROVE  /\ state' \in [Jobs -> States]
         /\ worker' \in WorkerSet
         /\ loop' \in Workers \cup Callers \cup {Main, NoTask}
  BY WorkerRecord DEF TypeOK, Fail, States, TerminalStates, WorkerPcs

LEMMA WorkerType ==
  ASSUME TypeOK, NEW w \in Workers, WorkerStep(w) PROVE TypeOK'
<1> USE WorkerRecord, LoggedType, Kinds DEF WorkerSet
<1>1. CASE Dequeue(w)
  <2>1. Head(queue) \in Jobs /\ queue' \in Seq(Jobs)
    BY <1>1 DEF Dequeue, TypeOK
  <2> QED
    BY <1>1, <2>1 DEF Dequeue, TypeOK, IdleWorker, WorkerPcs
<1>2. CASE Claim(w)
  BY <1>2 DEF Claim, TypeOK, States, ActiveStates, TerminalStates, WorkerPcs
<1>3. CASE Announce(w)
  BY <1>3 DEF Announce, TypeOK, WorkerPcs
<1>4. CASE Report(w)
  BY <1>4 DEF Report, TypeOK, WorkerPcs
<1>5. CASE Done(w)
  BY <1>5 DEF Done, TypeOK, WorkerPcs
<1>6. CASE \E reply \in Replies : Listed(w, reply)
  BY <1>6, FailType DEF Listed, Resumed, TypeOK, WorkerPcs
<1>7. CASE \E item \in StreamItems : StreamItem(w, item)
  BY <1>7, FailType DEF StreamItem, Resumed, TypeOK, WorkerPcs
<1>8. CASE \E fault \in Faults : StreamRaises(w, fault)
  BY <1>8, FailType DEF StreamRaises, Resumed, TypeOK
<1>9. CASE StreamEnd(w)
  BY <1>9 DEF StreamEnd, Resumed, TypeOK, States, TerminalStates, WorkerPcs
<1>10. CASE \E reply \in Replies, changed \in BOOLEAN :
               Compare(w, reply, changed)
  BY <1>10, FailType DEF Compare, Resumed, TypeOK, WorkerPcs
<1> QED
  BY <1>1, <1>2, <1>3, <1>4, <1>5, <1>6, <1>7, <1>8, <1>9, <1>10
     DEF WorkerStep

\* The same for the record of a handler.
CallRec == [pc : CallPcs,
            op : {"none", "stop", "disable", "enable", "maintain"},
            user : Users \cup {NoUser}, job : Jobs \cup {NoJob},
            jobs : SUBSET Jobs, seen : BOOLEAN, run : BOOLEAN]

LEMMA CallOK == TypeOK => call \in [Callers -> CallRec]
  BY DEF TypeOK, CallRec

LEMMA IdleCallRec == IdleCall \in CallRec
  BY DEF IdleCall, CallRec, CallPcs

LEMMA CallFields ==
  ASSUME NEW r \in CallRec
  PROVE  /\ \A pc \in CallPcs : [r EXCEPT !.pc = pc] \in CallRec
         /\ \A S \in SUBSET Jobs : [r EXCEPT !.jobs = S] \in CallRec
         /\ \A pc \in CallPcs, S \in SUBSET Jobs :
              [r EXCEPT !.pc = pc, !.jobs = S] \in CallRec
         /\ \A pc \in CallPcs, j \in Jobs, run \in BOOLEAN :
              [r EXCEPT !.pc = pc, !.job = j, !.run = run] \in CallRec
  BY DEF CallRec

LEMMA CallUpdate ==
  ASSUME TypeOK, NEW c \in Callers, NEW r \in CallRec,
         call' = [call EXCEPT ![c] = r]
  PROVE  call' \in [Callers -> CallRec]
  BY CallOK

LEMMA CancelType ==
  ASSUME TypeOK, NEW c \in Callers, NEW j \in Jobs, NEW new \in CallRec,
         Cancel(c, j, new)
  PROVE  /\ state' \in [Jobs -> States]
         /\ call' \in [Callers -> CallRec]
         /\ loop' = c
<1>1. [new EXCEPT !.pc = "stop_event", !.job = j, !.run = state[j] = "running"]
        \in CallRec
  <2>1. (state[j] = "running") \in BOOLEAN /\ "stop_event" \in CallPcs
    BY DEF CallPcs
  <2> QED
    BY <2>1, CallFields
<1>2. call' \in [Callers -> CallRec]
  BY <1>1, CallUpdate DEF Cancel
<1>3. state' \in [Jobs -> States]
  BY DEF Cancel, TypeOK, States, TerminalStates
<1> QED
  BY <1>2, <1>3 DEF Cancel

LEMMA ReturnType ==
  ASSUME TypeOK, NEW c \in Callers, Return(c)
  PROVE  /\ call' \in [Callers -> CallRec]
         /\ lock' \in [Users -> Callers \cup {NoTask}]
<1>1. call' \in [Callers -> CallRec]
  BY CallUpdate, IdleCallRec DEF Return
<1> QED
  BY <1>1 DEF Return, TypeOK

LEMMA StoppedType ==
  ASSUME TypeOK, NEW c \in Callers, Stopped(c)
  PROVE  /\ call' \in [Callers -> CallRec]
         /\ lock' \in [Users -> Callers \cup {NoTask}]
         /\ loop' \in {c, NoTask}
<1>1. CASE call[c].op = "disable"
  <2>1. [call[c] EXCEPT !.pc = "disable_next"] \in CallRec
    BY CallOK, CallFields DEF CallPcs
  <2>2. call' \in [Callers -> CallRec]
    BY <1>1, <2>1, CallUpdate DEF Stopped
  <2> QED
    BY <1>1, <2>2 DEF Stopped, TypeOK
<1>2. CASE call[c].op # "disable"
  BY <1>2, ReturnType DEF Stopped
<1> QED
  BY <1>1, <1>2

LEMMA CallType ==
  ASSUME TypeOK, NEW c \in Callers, CallStep(c) \/ Arrive(c) PROVE TypeOK'
<1>1. CASE StopEvent(c)
  <2>1. log' \in [Jobs -> Seq(EventKinds)]
    BY <1>1, LoggedType, Kinds DEF StopEvent
  <2>2. CASE call[c].run
    <3>1. [call[c] EXCEPT !.pc = "stop_rpc"] \in CallRec
      BY CallOK, CallFields DEF CallPcs
    <3>2. call' \in [Callers -> CallRec]
      BY <1>1, <2>2, <3>1, CallUpdate DEF StopEvent
    <3> QED
      BY <1>1, <2>1, <2>2, <3>2 DEF StopEvent, TypeOK, CallRec
  <2>3. CASE ~call[c].run
    BY <1>1, <2>1, <2>3, StoppedType DEF StopEvent, TypeOK, CallRec
  <2> QED
    BY <2>2, <2>3
<1>2. CASE \E reply \in Replies : StopReply(c, reply)
  BY <1>2, StoppedType, ReturnType DEF StopReply, TypeOK, CallRec
<1>3. CASE DisableBegin(c)
  <2>1. [call[c] EXCEPT !.pc = "disable_next",
                        !.jobs = ActiveJobs(call[c].user)] \in CallRec
    <3>1. ActiveJobs(call[c].user) \in SUBSET Jobs
      BY DEF ActiveJobs
    <3> QED
      BY <3>1, CallOK, CallFields DEF CallPcs
  <2>2. call' = [call EXCEPT ![c] = [call[c] EXCEPT !.pc = "disable_next",
                                       !.jobs = ActiveJobs(call[c].user)]]
    BY <1>3, CallOK DEF DisableBegin
  <2>3. call' \in [Callers -> CallRec]
    BY <2>1, <2>2, CallUpdate
  <2> QED
    BY <1>3, <2>3 DEF DisableBegin, TypeOK, CallRec
<1>4. CASE DisableNext(c)
  <2>1. CASE call[c].jobs = {}
    <3>1. [call[c] EXCEPT !.pc = "disable_rpc"] \in CallRec
      BY CallOK, CallFields DEF CallPcs
    <3>2. call' \in [Callers -> CallRec]
      BY <1>4, <2>1, <3>1, CallUpdate DEF DisableNext
    <3> QED
      BY <1>4, <2>1, <3>2 DEF DisableNext, TypeOK, CallRec
  <2>2. CASE call[c].jobs # {}
    <3>1. PICK j \in call[c].jobs :
            IF state[j] \in ActiveStates
            THEN Cancel(c, j, [call[c] EXCEPT !.jobs = @ \ {j}])
            ELSE /\ call' = [call EXCEPT ![c].jobs = @ \ {j}]
                 /\ UNCHANGED <<state, loop>>
      BY <1>4, <2>2 DEF DisableNext
    <3>2. j \in Jobs /\ call[c].jobs \ {j} \in SUBSET Jobs
      BY CallOK DEF CallRec
    <3>3. [call[c] EXCEPT !.jobs = @ \ {j}] \in CallRec
      BY <3>2, CallOK, CallFields
    <3>4. /\ state' \in [Jobs -> States]
          /\ call' \in [Callers -> CallRec]
          /\ loop' \in Workers \cup Callers \cup {Main, NoTask}
      <4>1. CASE state[j] \in ActiveStates
        BY <3>1, <3>2, <3>3, <4>1, CancelType
      <4>2. CASE state[j] \notin ActiveStates
        <5>1. call' = [call EXCEPT ![c] = [call[c] EXCEPT !.jobs = @ \ {j}]]
          BY <3>1, <4>2, CallOK
        <5>2. call' \in [Callers -> CallRec]
          BY <3>3, <5>1, CallUpdate
        <5> QED
          BY <3>1, <4>2, <5>2 DEF TypeOK
      <4> QED
        BY <4>1, <4>2
    <3> QED
      BY <1>4, <3>4 DEF DisableNext, TypeOK, CallRec
  <2> QED
    BY <2>1, <2>2
<1>5. CASE \E reply \in Replies : DisableReply(c, reply)
  BY <1>5, ReturnType DEF DisableReply, TypeOK, CallRec
<1>6. CASE \E reply \in Replies : EnableReply(c, reply)
  <2>1. call' \in [Callers -> CallRec]
    BY <1>6, CallUpdate, IdleCallRec DEF EnableReply
  <2>2. active' \in [Users -> BOOLEAN]
    BY <1>6 DEF EnableReply, TypeOK
  <2> QED
    BY <1>6, <2>1, <2>2 DEF EnableReply, TypeOK, CallRec
<1>7. CASE MaintainReply(c)
  BY <1>7, ReturnType DEF MaintainReply, TypeOK, CallRec
<1>8. CASE \E j \in Jobs : StopBegin(c, j)
  <2>1. PICK j \in Jobs : StopBegin(c, j)
    BY <1>8
  <2>2. Owner[j] \in Users
    BY OwnerAssumption
  <2>3. [IdleCall EXCEPT !.op = "stop", !.user = Owner[j]] \in CallRec
    BY <2>2 DEF IdleCall, CallRec, CallPcs
  <2>4. Cancel(c, j, [IdleCall EXCEPT !.op = "stop", !.user = Owner[j]])
    BY <2>1 DEF StopBegin
  <2>5. state' \in [Jobs -> States] /\ call' \in [Callers -> CallRec] /\ loop' = c
    BY <2>3, <2>4, CancelType
  <2> QED
    BY <2>1, <2>2, <2>5 DEF StopBegin, TypeOK, CallRec
<1>9. CASE \E u \in Users : DisableLoad(c, u)
  <2>1. PICK u \in Users : DisableLoad(c, u)
    BY <1>9
  <2>2. [IdleCall EXCEPT !.pc = "disable_lock", !.op = "disable", !.user = u,
                         !.seen = active[u]] \in CallRec
    BY DEF IdleCall, CallRec, CallPcs, TypeOK
  <2>3. call' \in [Callers -> CallRec]
    BY <2>1, <2>2, CallUpdate DEF DisableLoad
  <2> QED
    BY <2>1, <2>3 DEF DisableLoad, TypeOK, CallRec
<1>10. CASE \E u \in Users : EnableLoad(c, u)
  <2>1. PICK u \in Users : EnableLoad(c, u)
    BY <1>10
  <2>2. [IdleCall EXCEPT !.pc = "enable_rpc", !.op = "enable", !.user = u,
                         !.seen = active[u]] \in CallRec
    BY DEF IdleCall, CallRec, CallPcs, TypeOK
  <2>3. call' \in [Callers -> CallRec]
    BY <2>1, <2>2, CallUpdate DEF EnableLoad
  <2> QED
    BY <2>1, <2>3 DEF EnableLoad, TypeOK, CallRec
<1>11. CASE \E u \in Users : MaintainBegin(c, u)
  <2>1. PICK u \in Users : MaintainBegin(c, u)
    BY <1>11
  <2>2. [IdleCall EXCEPT !.pc = "maintain", !.op = "maintain", !.user = u]
          \in CallRec
    BY DEF IdleCall, CallRec, CallPcs
  <2>3. call' \in [Callers -> CallRec]
    BY <2>1, <2>2, CallUpdate DEF MaintainBegin
  <2> QED
    BY <2>1, <2>3 DEF MaintainBegin, TypeOK, CallRec
<1> QED
  BY <1>1, <1>2, <1>3, <1>4, <1>5, <1>6, <1>7, <1>8, <1>9, <1>10, <1>11
     DEF CallStep, Arrive

LEMMA InitType == Init => TypeOK
  BY BoundsAssumption DEF Init, TypeOK, IdleWorker, IdleCall, NoTodo,
     WorkerPcs, CallPcs, States

LEMMA NextType == TypeOK /\ [Next]_vars => TypeOK'
<1> SUFFICES ASSUME TypeOK, [Next]_vars PROVE TypeOK'
  OBVIOUS
<1>1. CASE UNCHANGED vars
  BY <1>1 DEF vars, TypeOK
<1>2. CASE \E j \in Jobs : Send(j)
  BY <1>2 DEF Send, TypeOK, States, ActiveStates
<1> QED
  BY <1>1, <1>2, StartType, StopType, WorkerType, CallType DEF Next

\* The state of the scheduler has its shape in every behaviour.
THEOREM TypeCorrect == Spec => []TypeOK
  BY InitType, NextType, PTL DEF Spec

(***************************************************************************)
(* The lock.                                                               *)
(***************************************************************************)

\* The inductive invariant.
Safe == TypeOK /\ LockProtects /\ OneActivePerUser /\ InactiveUserIsIdle

(***************************************************************************)
(* What a step does to the set of active jobs.                             *)
(***************************************************************************)
NoNewActive == \A j \in Jobs : state'[j] \in ActiveStates => state[j] \in ActiveStates

LEMMA FailActive == ASSUME TypeOK, NEW w \in Workers, Fail(w) PROVE NoNewActive
  BY DEF TypeOK, Fail, NoNewActive, ActiveStates

LEMMA CancelActive ==
  ASSUME TypeOK, NEW c \in Callers, NEW j, NEW new, Cancel(c, j, new)
  PROVE  NoNewActive
  BY DEF TypeOK, Cancel, NoNewActive, ActiveStates

LEMMA WorkerActive ==
  ASSUME TypeOK, NEW w \in Workers, WorkerStep(w) PROVE NoNewActive
<1> USE DEF NoNewActive
<1>1. CASE Dequeue(w) \/ Announce(w) \/ Report(w) \/ Done(w)
  BY <1>1 DEF Dequeue, Announce, Report, Done
<1>2. CASE Claim(w)
  BY <1>2 DEF Claim, StillWanted, TypeOK, ActiveStates
<1>3. CASE \E reply \in Replies : Listed(w, reply)
  BY <1>3, FailActive DEF Listed
<1>4. CASE \E item \in StreamItems : StreamItem(w, item)
  BY <1>4, FailActive DEF StreamItem
<1>5. CASE \E fault \in Faults : StreamRaises(w, fault)
  BY <1>5, FailActive DEF StreamRaises
<1>6. CASE StreamEnd(w)
  BY <1>6 DEF StreamEnd, TypeOK, ActiveStates
<1>7. CASE \E reply \in Replies, changed \in BOOLEAN : Compare(w, reply, changed)
  BY <1>7, FailActive DEF Compare
<1> QED
  BY <1>1, <1>2, <1>3, <1>4, <1>5, <1>6, <1>7 DEF WorkerStep

LEMMA CallActive ==
  ASSUME TypeOK, NEW c \in Callers, CallStep(c) \/ Arrive(c) PROVE NoNewActive
<1>1. CASE DisableNext(c)
  BY <1>1, CancelActive DEF DisableNext, NoNewActive
<1>2. CASE \E j \in Jobs : StopBegin(c, j)
  BY <1>2, CancelActive DEF StopBegin
<1>3. CASE state' = state
  BY <1>3 DEF NoNewActive
<1> QED
  BY <1>1, <1>2, <1>3 DEF CallStep, Arrive, StopEvent, StopReply, DisableBegin,
     DisableReply, EnableReply, MaintainReply, DisableLoad, EnableLoad,
     MaintainBegin

LEMMA StartActive == ASSUME TypeOK, StartStep PROVE NoNewActive
  BY DEF StartStep, StartScan, StartNotify, StartEnqueue, StartServe, Recovered,
     TypeOK, NoNewActive, ActiveStates

LEMMA StopActive == ASSUME CloseBegin \/ CloseStep \/ Crash PROVE NoNewActive
  BY DEF CloseBegin, CloseStep, CloseReply, CloseEnd, Crash, Halt, NoNewActive

\* Only Send makes a job active.
LEMMA OnlySend ==
  ASSUME TypeOK, [Next]_vars, ~(\E j \in Jobs : Send(j)) PROVE NoNewActive
<1>1. CASE UNCHANGED vars
  BY <1>1 DEF vars, NoNewActive
<1> QED
  BY <1>1, StartActive, StopActive, WorkerActive, CallActive DEF Next

\* Send makes one job active, of an active user who has no other, and whose
\* lock is free.
LEMMA SendActive ==
  ASSUME TypeOK, NEW s \in Jobs, Send(s)
  PROVE  /\ lock[Owner[s]] = NoTask
         /\ active[Owner[s]]
         /\ ActiveJobs(Owner[s]) = {}
         /\ \A j \in Jobs : j # s => state'[j] = state[j]
         /\ UNCHANGED <<active, lock, call>>
  BY DEF Send, MayCreate, TypeOK

LEMMA ActiveShrinks ==
  ASSUME NoNewActive, NEW u PROVE ActiveJobs(u)' \subseteq ActiveJobs(u)
  BY DEF NoNewActive, ActiveJobs

\* A Send cannot touch a user whose lock is held.
LEMMA SendElsewhere ==
  ASSUME TypeOK, NEW s \in Jobs, Send(s), NEW u \in Users, lock[u] # NoTask
  PROVE  ActiveJobs(u)' = ActiveJobs(u)
<1>1. Owner[s] # u
  BY SendActive
<1> QED
  BY <1>1, SendActive DEF ActiveJobs

(***************************************************************************)
(* One active job per user.                                                *)
(***************************************************************************)
LEMMA OneActiveStep ==
  ASSUME TypeOK, OneActivePerUser, [Next]_vars PROVE OneActivePerUser'
<1> SUFFICES ASSUME NEW j \in Jobs, NEW k \in Jobs, Owner[j] = Owner[k],
                    state'[j] \in ActiveStates, state'[k] \in ActiveStates
             PROVE  j = k
  BY DEF OneActivePerUser
<1>1. CASE \E s \in Jobs : Send(s)
  <2>1. PICK s \in Jobs : Send(s)
    BY <1>1
  <2>2. \A i \in Jobs : Owner[i] = Owner[s] => state[i] \notin ActiveStates
    BY <2>1, SendActive DEF ActiveJobs
  <2> QED
    BY <2>1, <2>2, SendActive DEF OneActivePerUser
<1>2. CASE ~(\E s \in Jobs : Send(s))
  BY <1>2, OnlySend DEF NoNewActive, OneActivePerUser
<1> QED
  BY <1>1, <1>2

(***************************************************************************)
(* The lock protects what a handler saw.                                   *)
(***************************************************************************)

\* A step that leaves a handler's record and its lock alone and makes no job
\* active keeps it covered.
LEMMA FrameCovered ==
  ASSUME NEW c \in Callers, Covered(c), NoNewActive, call'[c] = call[c],
         call[c].pc \in LockedPcs => lock'[call[c].user] = lock[call[c].user]
  PROVE  Covered(c)'
<1>1. ActiveJobs(call[c].user)' \subseteq ActiveJobs(call[c].user)
  BY DEF NoNewActive, ActiveJobs
<1> QED
  BY <1>1 DEF Covered, ActiveJobs

LEMMA IdleCovered ==
  ASSUME NEW c \in Callers, call'[c] = IdleCall PROVE Covered(c)'
  BY DEF Covered, IdleCall, LockedPcs

\* Handlers release their own locks only, and take free ones only.
LEMMA ReturnFrame ==
  ASSUME TypeOK, LockProtects, NEW d \in Callers, call[d].pc \in LockedPcs,
         Return(d), NEW c \in Callers, c # d
  PROVE  call'[c] = call[c] /\ \A u \in Users : lock[u] = c => lock'[u] = c
  BY DEF Return, LockProtects, Covered, TypeOK

LEMMA StoppedFrame ==
  ASSUME TypeOK, LockProtects, NEW d \in Callers, call[d].pc \in LockedPcs,
         Stopped(d), NEW c \in Callers, c # d
  PROVE  call'[c] = call[c] /\ \A u \in Users : lock[u] = c => lock'[u] = c
  BY ReturnFrame DEF Stopped, TypeOK

LEMMA CallFrame ==
  ASSUME TypeOK, LockProtects, NEW d \in Callers, CallStep(d) \/ Arrive(d),
         NEW c \in Callers, c # d
  PROVE  call'[c] = call[c] /\ \A u \in Users : lock[u] = c => lock'[u] = c
<1>1. NoTask \notin Callers
  BY DistinctAssumption
<1>2. CASE StopEvent(d)
  BY <1>2, StoppedFrame DEF StopEvent, LockedPcs, TypeOK
<1>3. CASE \E reply \in Replies : StopReply(d, reply)
  BY <1>3, StoppedFrame, ReturnFrame DEF StopReply, LockedPcs
<1>4. CASE DisableBegin(d)
  BY <1>1, <1>4 DEF DisableBegin, LockProtects, Covered, TypeOK
<1>5. CASE DisableNext(d)
  BY <1>5 DEF DisableNext, Cancel, TypeOK
<1>6. CASE \E reply \in Replies : DisableReply(d, reply)
  BY <1>6, ReturnFrame DEF DisableReply, LockedPcs
<1>7. CASE \E reply \in Replies : EnableReply(d, reply)
  BY <1>7 DEF EnableReply, TypeOK
<1>8. CASE MaintainReply(d)
  BY <1>8, ReturnFrame DEF MaintainReply, LockedPcs
<1>9. CASE \E j \in Jobs : StopBegin(d, j)
  BY <1>1, <1>9, OwnerAssumption DEF StopBegin, Cancel, TypeOK
<1>10. CASE \E u \in Users : DisableLoad(d, u) \/ EnableLoad(d, u)
  BY <1>10 DEF DisableLoad, EnableLoad, TypeOK
<1>11. CASE \E u \in Users : MaintainBegin(d, u)
  BY <1>1, <1>11 DEF MaintainBegin, TypeOK
<1> QED
  BY <1>2, <1>3, <1>4, <1>5, <1>6, <1>7, <1>8, <1>9, <1>10, <1>11
     DEF CallStep, Arrive

\* The handler that moves: what it releases it no longer needs, and each
\* transition that relies on the list of jobs has just read or kept it.
LEMMA StoppedCovered ==
  ASSUME TypeOK, NEW c \in Callers, Covered(c), Stopped(c), UNCHANGED state,
         call[c].pc \in {"stop_event", "stop_rpc"}
  PROVE  Covered(c)'
<1>1. CASE call[c].op = "disable"
  <2>1. /\ call'[c] = [call[c] EXCEPT !.pc = "disable_next"]
        /\ lock' = lock
    BY <1>1 DEF Stopped, TypeOK
  <2>2. /\ call'[c].pc = "disable_next" /\ call'[c].op = "disable"
        /\ call'[c].user = call[c].user /\ call'[c].jobs = call[c].jobs
    BY <1>1, <2>1 DEF TypeOK
  <2> QED
    BY <1>1, <2>1, <2>2 DEF Covered, LockedPcs, ActiveJobs
<1>2. CASE call[c].op # "disable"
  BY <1>2, IdleCovered DEF Stopped, Return, TypeOK
<1> QED
  BY <1>1, <1>2

LEMMA CancelCovered ==
  ASSUME TypeOK, NEW c \in Callers, NEW j \in Jobs, NEW new \in CallRec,
         Cancel(c, j, new), new.user \in Users, lock'[new.user] = c,
         new.op = "disable" => ActiveJobs(new.user) \subseteq new.jobs \cup {j}
  PROVE  Covered(c)'
<1>1. /\ call'[c].pc = "stop_event" /\ call'[c].op = new.op
      /\ call'[c].user = new.user /\ call'[c].jobs = new.jobs
  BY CallOK DEF Cancel, CallRec
<1>2. ActiveJobs(new.user)' \subseteq ActiveJobs(new.user) \ {j}
  BY DEF Cancel, ActiveJobs, ActiveStates, TypeOK
<1> QED
  BY <1>1, <1>2 DEF Covered, LockedPcs, ActiveJobs

LEMMA OwnCovered ==
  ASSUME TypeOK, NEW c \in Callers, Covered(c), CallStep(c) \/ Arrive(c)
  PROVE  Covered(c)'
<1>0. call \in [Callers -> CallRec]
  BY CallOK
<1>1. CASE StopEvent(c)
  <2>1. CASE call[c].run
    <3>1. call'[c] = [call[c] EXCEPT !.pc = "stop_rpc"]
      BY <1>0, <1>1, <2>1 DEF StopEvent
    <3>2. /\ call'[c].pc = "stop_rpc" /\ call'[c].op = call[c].op
          /\ call'[c].user = call[c].user /\ call'[c].jobs = call[c].jobs
      BY <1>0, <3>1 DEF CallRec
    <3> QED
      BY <1>1, <2>1, <3>2 DEF StopEvent, Covered, LockedPcs, ActiveJobs
  <2>2. CASE ~call[c].run
    BY <1>1, <2>2, StoppedCovered DEF StopEvent
  <2> QED
    BY <2>1, <2>2
<1>2. CASE \E reply \in Replies : StopReply(c, reply)
  BY <1>0, <1>2, StoppedCovered, IdleCovered DEF StopReply, Return
<1>3. CASE DisableBegin(c)
  <2>1. /\ call'[c].pc = "disable_next" /\ call'[c].op = call[c].op
        /\ call'[c].user = call[c].user
        /\ call'[c].jobs = ActiveJobs(call[c].user)
        /\ lock' = [lock EXCEPT ![call[c].user] = c]
        /\ state' = state
    BY <1>0, <1>3 DEF DisableBegin, CallRec
  <2>2. call[c].user \in Users /\ call[c].op = "disable"
    BY <1>3 DEF DisableBegin, Covered
  <2>3. lock'[call[c].user] = c
    BY <2>1, <2>2 DEF TypeOK
  <2> QED
    BY <2>1, <2>2, <2>3 DEF Covered, LockedPcs, ActiveJobs
<1>4. CASE DisableNext(c)
  <2>1. /\ call[c].user \in Users /\ lock[call[c].user] = c
        /\ call[c].op = "disable" /\ lock' = lock
        /\ ActiveJobs(call[c].user) \subseteq call[c].jobs
    BY <1>4 DEF DisableNext, Covered, LockedPcs
  <2>2. CASE call[c].jobs = {}
    <3>1. /\ call'[c].pc = "disable_rpc" /\ call'[c].op = "disable"
          /\ call'[c].user = call[c].user /\ call'[c].jobs = {}
          /\ state' = state
      BY <1>0, <1>4, <2>1, <2>2 DEF DisableNext, CallRec
    <3> QED
      BY <2>1, <2>2, <3>1 DEF Covered, LockedPcs, ActiveJobs
  <2>3. CASE call[c].jobs # {}
    <3>1. PICK j \in call[c].jobs :
            IF state[j] \in ActiveStates
            THEN Cancel(c, j, [call[c] EXCEPT !.jobs = @ \ {j}])
            ELSE /\ call' = [call EXCEPT ![c].jobs = @ \ {j}]
                 /\ UNCHANGED <<state, loop>>
      BY <1>4, <2>3 DEF DisableNext
    <3>2. j \in Jobs /\ call[c].jobs \ {j} \in SUBSET Jobs
      BY <1>0 DEF CallRec
    <3> DEFINE new == [call[c] EXCEPT !.jobs = @ \ {j}]
    <3>3. /\ new \in CallRec /\ new.user = call[c].user /\ new.op = "disable"
          /\ new.jobs = call[c].jobs \ {j} /\ new.pc = call[c].pc
      BY <1>0, <2>1, <3>2 DEF CallRec
    <3>4. CASE state[j] \in ActiveStates
      <4>1. Cancel(c, j, new)
        BY <3>1, <3>4
      <4> HIDE DEF new
      <4> QED
        BY <2>1, <3>2, <3>3, <4>1, CancelCovered
    <3>5. CASE state[j] \notin ActiveStates
      <4>1. call'[c] = new /\ state' = state
        BY <1>0, <3>1, <3>5 DEF new
      <4>2. j \notin ActiveJobs(call[c].user)
        BY <3>5 DEF ActiveJobs
      <4> HIDE DEF new
      <4> QED
        BY <1>4, <2>1, <3>3, <4>1, <4>2 DEF DisableNext, Covered, LockedPcs,
           ActiveJobs
    <3> QED
      BY <3>4, <3>5
  <2> QED
    BY <2>2, <2>3
<1>5. CASE \E reply \in Replies : DisableReply(c, reply)
  BY <1>0, <1>5, IdleCovered DEF DisableReply, Return
<1>6. CASE \E reply \in Replies : EnableReply(c, reply)
  BY <1>0, <1>6, IdleCovered DEF EnableReply
<1>7. CASE MaintainReply(c)
  BY <1>0, <1>7, IdleCovered DEF MaintainReply, Return
<1>8. CASE \E j \in Jobs : StopBegin(c, j)
  <2>1. PICK j \in Jobs : StopBegin(c, j)
    BY <1>8
  <2>2. Owner[j] \in Users
    BY OwnerAssumption
  <2> DEFINE new == [IdleCall EXCEPT !.op = "stop", !.user = Owner[j]]
  <2>3. new \in CallRec /\ new.user = Owner[j] /\ new.op = "stop"
    BY <2>2 DEF IdleCall, CallRec, CallPcs
  <2>4. Cancel(c, j, new) /\ lock'[Owner[j]] = c
    BY <2>1, <2>2 DEF StopBegin, TypeOK
  <2> HIDE DEF new
  <2> QED
    BY <2>2, <2>3, <2>4, CancelCovered
<1>9. CASE \E u \in Users : DisableLoad(c, u) \/ EnableLoad(c, u)
  <2>1. PICK u \in Users : DisableLoad(c, u) \/ EnableLoad(c, u)
    BY <1>9
  <2>2. call'[c].user = u /\ call'[c].pc \in {"disable_lock", "enable_rpc"}
        /\ call'[c].op = (IF call'[c].pc = "disable_lock" THEN "disable"
                                                        ELSE "enable")
    BY <1>0, <2>1 DEF DisableLoad, EnableLoad, IdleCall
  <2> QED
    BY <2>2 DEF Covered, LockedPcs
<1>10. CASE \E u \in Users : MaintainBegin(c, u)
  <2>1. PICK u \in Users : MaintainBegin(c, u)
    BY <1>10
  <2>2. /\ call'[c].user = u /\ call'[c].pc = "maintain"
        /\ call'[c].op = "maintain" /\ lock'[u] = c /\ state' = state
        /\ ActiveJobs(u) = {}
    BY <1>0, <2>1 DEF MaintainBegin, IdleCall, TypeOK
  <2> QED
    BY <2>2 DEF Covered, LockedPcs, ActiveJobs
<1> QED
  BY <1>1, <1>2, <1>3, <1>4, <1>5, <1>6, <1>7, <1>8, <1>9, <1>10
     DEF CallStep, Arrive

LEMMA LockStep ==
  ASSUME TypeOK, LockProtects, [Next]_vars PROVE LockProtects'
<1> SUFFICES ASSUME NEW c \in Callers PROVE Covered(c)'
  BY DEF LockProtects
<1>1. Covered(c)
  BY DEF LockProtects
<1>2. CASE \E s \in Jobs : Send(s)
  <2>1. PICK s \in Jobs : Send(s)
    BY <1>2
  <2>2. call' = call /\ lock' = lock
    BY <2>1, SendActive
  <2>3. CASE call[c].pc \in LockedPcs
    <3>1. call[c].user \in Users /\ lock[call[c].user] # NoTask
      BY <1>1, <2>3, DistinctAssumption DEF Covered
    <3>2. \A u \in Users : lock[u] # NoTask => ActiveJobs(u)' = ActiveJobs(u)
      BY <2>1, SendElsewhere
    <3> QED
      BY <1>1, <2>2, <3>1, <3>2 DEF Covered, ActiveJobs
  <2>4. CASE call[c].pc \notin LockedPcs
    BY <1>1, <2>2, <2>4 DEF Covered, LockedPcs
  <2> QED
    BY <2>3, <2>4
<1>3. CASE ~(\E s \in Jobs : Send(s))
  <2>1. NoNewActive
    BY <1>3, OnlySend
  <2>2. CASE UNCHANGED <<call, lock>>
    BY <1>1, <2>1, <2>2, FrameCovered
  <2>3. CASE Halt
    BY <2>3, IdleCovered DEF Halt
  <2>4. ASSUME NEW d \in Callers, CallStep(d) \/ Arrive(d) PROVE Covered(c)'
    <3>1. CASE d = c
      BY <1>1, <2>4, <3>1, OwnCovered
    <3>2. CASE d # c
      BY <1>1, <2>1, <2>4, <3>2, CallFrame, FrameCovered DEF Covered
    <3> QED
      BY <3>1, <3>2
  <2>5. ASSUME NEW w \in Workers, WorkerStep(w) PROVE UNCHANGED <<call, lock>>
    BY <2>5 DEF WorkerStep, Dequeue, Claim, Announce, Listed, StreamItem,
       StreamRaises, StreamEnd, Compare, Done, Report, Resumed
  <2>6. StartStep \/ CloseBegin \/ CloseStep \/ Crash \/ UNCHANGED vars
        => Halt \/ UNCHANGED <<call, lock>>
    BY DEF StartStep, StartScan, StartNotify, StartEnqueue, StartServe,
       CloseBegin, CloseStep, CloseReply, CloseEnd, Crash, vars
  <2> QED
    BY <1>3, <2>2, <2>3, <2>4, <2>5, <2>6 DEF Next
<1> QED
  BY <1>2, <1>3

(***************************************************************************)
(* An inactive user is idle.                                               *)
(***************************************************************************)
LEMMA InactiveStep ==
  ASSUME TypeOK, LockProtects, InactiveUserIsIdle, [Next]_vars
  PROVE  InactiveUserIsIdle'
<1> SUFFICES ASSUME NEW u \in Users, ~active'[u] PROVE ActiveJobs(u)' = {}
  BY DEF InactiveUserIsIdle
<1>1. CASE \E s \in Jobs : Send(s)
  <2>1. PICK s \in Jobs : Send(s)
    BY <1>1
  <2>2. Owner[s] # u /\ ActiveJobs(u) = {}
    BY <2>1, SendActive DEF InactiveUserIsIdle
  <2> QED
    BY <2>1, <2>2, SendActive DEF ActiveJobs
<1>2. CASE ~(\E s \in Jobs : Send(s))
  <2>1. ActiveJobs(u)' \subseteq ActiveJobs(u)
    BY <1>2, OnlySend, ActiveShrinks
  <2>2. CASE active[u] = active'[u]
    BY <2>1, <2>2 DEF InactiveUserIsIdle
  <2>3. ASSUME NEW c \in Callers, NEW reply \in Replies, DisableReply(c, reply)
        PROVE  ActiveJobs(u) = {}
    <3>1. CASE u = call[c].user
      BY <2>3, <3>1 DEF DisableReply, LockProtects, Covered, LockedPcs
    <3>2. CASE u # call[c].user
      BY <2>3, <3>2 DEF DisableReply, InactiveUserIsIdle, TypeOK
    <3> QED
      BY <3>1, <3>2
  <2>4. ASSUME NEW c \in Callers, NEW reply \in Replies, EnableReply(c, reply)
        PROVE  ~active[u]
    BY <2>4 DEF EnableReply, TypeOK
  <2>5. ASSUME NEW w \in Workers, WorkerStep(w) PROVE UNCHANGED active
    BY <2>5 DEF WorkerStep, Dequeue, Claim, Announce, Listed, StreamItem,
       StreamRaises, StreamEnd, Compare, Done, Report, Resumed
  <2>6. ASSUME NEW c \in Callers, CallStep(c) \/ Arrive(c)
        PROVE  \/ UNCHANGED active
               \/ \E reply \in Replies : DisableReply(c, reply)
               \/ \E reply \in Replies : EnableReply(c, reply)
    BY <2>6 DEF CallStep, Arrive, StopEvent, StopReply, DisableBegin,
       DisableNext, MaintainReply, StopBegin, DisableLoad, EnableLoad,
       MaintainBegin
  <2>7. StartStep \/ CloseBegin \/ CloseStep \/ Crash \/ UNCHANGED vars
        => UNCHANGED active
    BY DEF StartStep, StartScan, StartNotify, StartEnqueue, StartServe,
       CloseBegin, CloseStep, CloseReply, CloseEnd, Crash, Halt, vars
  <2> QED
    BY <1>2, <2>1, <2>2, <2>3, <2>4, <2>5, <2>6, <2>7
       DEF Next, InactiveUserIsIdle
<1> QED
  BY <1>1, <1>2

(***************************************************************************)
(* The theorems.                                                           *)
(***************************************************************************)
LEMMA SafeInit == Init => Safe
<1> SUFFICES ASSUME Init PROVE Safe
  OBVIOUS
<1>1. \A u \in Users : ActiveJobs(u) = {}
  BY DEF Init, ActiveJobs, ActiveStates
<1>2. LockProtects
  BY DEF Init, LockProtects, Covered, IdleCall, LockedPcs
<1>3. OneActivePerUser /\ InactiveUserIsIdle
  BY DEF Init, OneActivePerUser, InactiveUserIsIdle, ActiveStates
<1> QED
  BY <1>2, <1>3, InitType DEF Safe

LEMMA SafeStep == Safe /\ [Next]_vars => Safe'
  BY NextType, LockStep, OneActiveStep, InactiveStep DEF Safe

LEMMA SafeAlways == Spec => []Safe
  BY SafeInit, SafeStep, PTL DEF Spec

\* create_job's check is enough: a user never has two active jobs, whatever the
\* order of messages, stops, restarts and workers.
THEOREM OneActive == Spec => []OneActivePerUser
  BY SafeAlways, PTL DEF Safe

\* What a handler saw under its lock still holds when it acts on it.
THEOREM LocksProtect == Spec => []LockProtects
  BY SafeAlways, PTL DEF Safe

\* disable_user leaves nothing behind: an inactive user has no active job.
THEOREM InactiveIdle == Spec => []InactiveUserIsIdle
  BY SafeAlways, PTL DEF Safe

\* A file import or an upgrade never meets a job of the same user.
THEOREM MaintenanceAlone == Spec => []MaintenanceIsAlone
<1>1. Safe => MaintenanceIsAlone
  BY DEF Safe, LockProtects, Covered, MaintenanceIsAlone
<1> QED
  BY <1>1, SafeAlways, PTL

\* So the user's lock gives all it is taken for, under every fault.
THEOREM LockIsEnough == Spec => []UserLock
  BY OneActive, LocksProtect, InactiveIdle, MaintenanceAlone, PTL DEF UserLock


(***************************************************************************)
(* Cancelled jobs.                                                         *)
(***************************************************************************)
CancelKept == \A j \in Jobs : state[j] = "cancelled" => state'[j] = "cancelled"

LEMMA FailCancel == ASSUME TypeOK, NEW w \in Workers, Fail(w) PROVE CancelKept
  BY DEF TypeOK, Fail, CancelKept

LEMMA CancelStep == ASSUME TypeOK, [Next]_vars PROVE CancelKept
<1> USE DEF CancelKept
<1>1. CASE \E j \in Jobs : Send(j)
  BY <1>1 DEF Send, MayCreate, TypeOK
<1>2. ASSUME NEW w \in Workers, WorkerStep(w) PROVE CancelKept
  <2>1. CASE Dequeue(w) \/ Announce(w) \/ Report(w) \/ Done(w)
    BY <2>1 DEF Dequeue, Announce, Report, Done
  <2>2. CASE Claim(w)
    BY <2>2 DEF Claim, StillWanted, TypeOK
  <2>3. CASE \E reply \in Replies : Listed(w, reply)
    BY <2>3, FailCancel DEF Listed
  <2>4. CASE \E item \in StreamItems : StreamItem(w, item)
    BY <2>4, FailCancel DEF StreamItem
  <2>5. CASE \E fault \in Faults : StreamRaises(w, fault)
    BY <2>5, FailCancel DEF StreamRaises
  <2>6. CASE StreamEnd(w)
    BY <2>6 DEF StreamEnd, TypeOK
  <2>7. CASE \E reply \in Replies, changed \in BOOLEAN : Compare(w, reply, changed)
    BY <2>7, FailCancel DEF Compare
  <2> QED
    BY <1>2, <2>1, <2>2, <2>3, <2>4, <2>5, <2>6, <2>7 DEF WorkerStep
<1>3. ASSUME NEW c \in Callers, CallStep(c) \/ Arrive(c) PROVE CancelKept
  <2>1. CASE state' = state
    BY <2>1
  <2>2. CASE DisableNext(c)
    BY <2>2 DEF DisableNext, Cancel, TypeOK
  <2>3. CASE \E j \in Jobs : StopBegin(c, j)
    BY <2>3 DEF StopBegin, Cancel, TypeOK
  <2> QED
    BY <1>3, <2>1, <2>2, <2>3 DEF CallStep, Arrive, StopEvent, StopReply,
       DisableBegin, DisableReply, EnableReply, MaintainReply, DisableLoad,
       EnableLoad, MaintainBegin
<1>4. CASE StartStep
  BY <1>4 DEF StartStep, StartScan, StartNotify, StartEnqueue, StartServe,
     Recovered, TypeOK
<1>5. CASE CloseBegin \/ CloseStep \/ Crash \/ UNCHANGED vars
  BY <1>5 DEF CloseBegin, CloseStep, CloseReply, CloseEnd, Crash, Halt, vars
<1> QED
  BY <1>1, <1>2, <1>3, <1>4, <1>5 DEF Next

\* A cancelled job stays cancelled, whatever its worker, the Runner or a
\* restart does afterwards.
THEOREM CancelFinal == Spec => CancelIsFinal
<1>1. TypeOK /\ [Next]_vars =>
        [\A j \in Jobs : state[j] = "cancelled" => state'[j] = "cancelled"]_vars
  BY CancelStep DEF CancelKept
<1> QED
  BY <1>1, TypeCorrect, PTL DEF Spec, CancelIsFinal

(***************************************************************************)
(* What a worker knows of its job.  A worker past the end of its stream    *)
(* still counts: _fail can write its job once more.                        *)
(***************************************************************************)
WorkerKnows(w) ==
    LET j == worker[w].job IN
    /\ worker[w].pc = "acquire" => j \in Jobs
    /\ worker[w].pc \in WorkingPcs =>
          j \in Jobs /\ state[j] \in {"running", "cancelled"}
    /\ worker[w].pc = "compare" =>
          j \in Jobs /\ state[j] \in {"completed", "failed"}

Alone ==
    \A w, v \in Workers :
        /\ worker[w].pc \in WorkingPcs /\ worker[v].pc \in WorkingPcs
        /\ worker[w].job = worker[v].job
        => w = v

\* Nobody works while the process is down or starting.
DownIsEmpty ==
    web \in {"down", "starting"} => \A w \in Workers : worker[w] = IdleWorker

Work == /\ \A w \in Workers : WorkerKnows(w)
        /\ Alone
        /\ DownIsEmpty

LEMMA WorkWorks == Work => WorksOnRunning
  BY DEF Work, WorkerKnows, Alone, WorksOnRunning

LEMMA WorkInit == Init => Work
  BY DEF Init, Work, WorkerKnows, Alone, DownIsEmpty, IdleWorker, WorkingPcs

\* A step of w is harmless to the others if it leaves them alone and changes
\* the state of no job that one of them knows something about.
LEMMA WorkFrame ==
  ASSUME TypeOK, Work, NEW w \in Workers,
         UNCHANGED web, web \in {"up", "closing"},
         \A v \in Workers : v # w => worker'[v] = worker[v],
         \A v \in Workers : v # w /\ worker[v].pc \in WorkingPcs
            => state'[worker[v].job] = state[worker[v].job],
         \A v \in Workers : v # w /\ worker[v].pc = "compare"
            => state'[worker[v].job] \in {"completed", "failed"},
         WorkerKnows(w)',
         worker'[w].pc \in WorkingPcs =>
            \A v \in Workers : v # w /\ worker[v].pc \in WorkingPcs
               => worker[v].job # worker'[w].job
  PROVE  Work'
<1>1. \A v \in Workers : v # w => WorkerKnows(v)'
  BY DEF Work, WorkerKnows
<1>2. Alone'
  BY DEF Work, Alone
<1>3. DownIsEmpty'
  BY DEF DownIsEmpty
<1> QED
  BY <1>1, <1>2, <1>3 DEF Work

\* Leaving a job, or moving on with it, without a change to its state.
LEMMA WorkMoves ==
  ASSUME TypeOK, Work, NEW w \in Workers, UNCHANGED <<state, web>>,
         web \in {"up", "closing"}, worker[w].pc \in WorkingPcs \cup {"compare", "done", "report"},
         \/ Released(w)
         \/ UNCHANGED worker
         \/ worker[w].pc \in WorkingPcs /\ \E pc \in WorkingPcs : Becomes(w, pc)
         \/ Becomes(w, "done")
  PROVE  Work'
<1>1. \A v \in Workers : v # w => worker'[v] = worker[v]
  BY DEF Released, Becomes, TypeOK
<1>2. CASE Released(w) \/ Becomes(w, "done")
  <2>1. worker'[w].pc \in {"idle", "done"}
    BY <1>2 DEF Released, Becomes, IdleWorker, TypeOK
  <2> QED
    BY <1>1, <2>1, WorkFrame DEF Work, WorkerKnows, WorkingPcs
<1>3. CASE UNCHANGED worker
  BY <1>3 DEF Work, WorkerKnows, Alone, DownIsEmpty
<1>4. CASE worker[w].pc \in WorkingPcs /\ \E pc \in WorkingPcs : Becomes(w, pc)
  <2>1. worker'[w].pc \in WorkingPcs /\ worker'[w].job = worker[w].job
    BY <1>4 DEF Becomes, TypeOK
  <2>2. WorkerKnows(w)'
    BY <1>4, <2>1 DEF Work, WorkerKnows, WorkingPcs
  <2> QED
    BY <1>1, <1>4, <2>1, <2>2, WorkFrame DEF Work, Alone, WorkerKnows
<1> QED
  BY <1>2, <1>3, <1>4

\* A job that ends while w is the one that knows it.
LEMMA WorkEnds ==
  ASSUME TypeOK, Work, NEW w \in Workers, NEW outcome \in {"completed", "failed"},
         UNCHANGED web,
         web \in {"up", "closing"}, NEW next \in {"report", "compare"},
         next = "compare" => outcome = "completed",
         worker[w].pc \in WorkingPcs \cup (IF outcome = "failed" THEN {"compare"} ELSE {}),
         state' = [state EXCEPT ![worker[w].job] = outcome],
         Becomes(w, next)
  PROVE  Work'
<1>1. \A v \in Workers : v # w => worker'[v] = worker[v]
  BY DEF Becomes, TypeOK
<1>2. worker'[w].pc = next /\ worker'[w].job = worker[w].job
  BY DEF Becomes, TypeOK
<1>3. WorkerKnows(w)'
  BY <1>2 DEF Work, WorkerKnows, WorkingPcs, TypeOK
<1>4. worker[w].job \in Jobs
  BY DEF Work, WorkerKnows
<1>5. ASSUME NEW v \in Workers, v # w, worker[v].pc \in WorkingPcs
      PROVE  worker[v].job # worker[w].job
  <2>1. CASE worker[w].pc \in WorkingPcs
    BY <1>5, <2>1 DEF Work, Alone
  <2>2. CASE worker[w].pc = "compare"
    BY <1>5, <2>2 DEF Work, WorkerKnows
  <2> QED
    BY <2>1, <2>2
<1>6. ASSUME NEW v \in Workers, v # w, worker[v].pc = "compare"
      PROVE  state'[worker[v].job] \in {"completed", "failed"}
  <2>1. worker[v].job \in Jobs /\ state[worker[v].job] \in {"completed", "failed"}
    BY <1>6 DEF Work, WorkerKnows
  <2>2. outcome \in {"completed", "failed"} \/ worker[v].job # worker[w].job
    BY <1>6 DEF Work, WorkerKnows, WorkingPcs
  <2> QED
    BY <1>4, <2>1, <2>2 DEF TypeOK
<1>7. \A v \in Workers : v # w /\ worker[v].pc \in WorkingPcs
        => state'[worker[v].job] = state[worker[v].job]
  BY <1>4, <1>5 DEF TypeOK, Work, WorkerKnows
<1>8. worker'[w].pc \notin WorkingPcs
  BY <1>2 DEF WorkingPcs
<1> QED
  BY <1>1, <1>3, <1>6, <1>7, <1>8, WorkFrame

LEMMA FailWork ==
  ASSUME TypeOK, Work, NEW w \in Workers, UNCHANGED web,
         web \in {"up", "closing"},
         worker[w].pc \in {"list", "stream", "drain", "compare"}, Fail(w)
  PROVE  Work'
<1>1. CASE state[worker[w].job] = "cancelled"
  BY <1>1, WorkMoves DEF Fail, WorkingPcs
<1>2. CASE state[worker[w].job] # "cancelled"
  BY <1>2, WorkEnds DEF Fail, WorkingPcs
<1> QED
  BY <1>1, <1>2

LEMMA WorkWorker ==
  ASSUME TypeOK, Work, NEW w \in Workers, WorkerStep(w) PROVE Work'
<1>1. ASSUME worker[w] # IdleWorker PROVE web \in {"up", "closing"}
  BY <1>1 DEF Work, DownIsEmpty, TypeOK
<1>2. CASE Dequeue(w)
  <2>1. \A v \in Workers : v # w => worker'[v] = worker[v]
    BY <1>2 DEF Dequeue, TypeOK
  <2>2. Head(queue) \in Jobs
    BY <1>2 DEF Dequeue, TypeOK
  <2>3. worker'[w] = IdleWorker \/ worker'[w] = [pc |-> "acquire", job |-> Head(queue)]
    BY <1>2 DEF Dequeue, TypeOK
  <2>4. WorkerKnows(w)' /\ worker'[w].pc \notin WorkingPcs
    BY <2>2, <2>3 DEF WorkerKnows, IdleWorker, WorkingPcs
  <2>5. state' = state /\ web' = web /\ web \in {"up", "closing"}
    BY <1>2 DEF Dequeue
  <2> QED
    BY <2>1, <2>4, <2>5, WorkFrame DEF Work, WorkerKnows
<1>3. CASE Claim(w)
  <2> DEFINE j == worker[w].job
  <2>1. j \in Jobs
    BY <1>3 DEF Claim, Work, WorkerKnows
  <2>2. web' = web /\ web \in {"up", "closing"}
    BY <1>3 DEF Claim
  <2>3. CASE ~StillWanted(j)
    <3>1. state' = state /\ Released(w)
      BY <1>3, <2>3 DEF Claim
    <3>2. (\A v \in Workers : v # w => worker'[v] = worker[v]) /\ worker'[w] = IdleWorker
      BY <3>1 DEF Released, TypeOK
    <3>3. WorkerKnows(w)' /\ worker'[w].pc \notin WorkingPcs
      BY <3>2 DEF WorkerKnows, IdleWorker, WorkingPcs
    <3> QED
      BY <2>2, <3>1, <3>2, <3>3, WorkFrame DEF Work, WorkerKnows
  <2>4. CASE StillWanted(j)
    <3>1. \A v \in Workers : worker[v].pc \in WorkingPcs \cup {"compare"}
            => worker[v].job # j /\ worker[v].job \in Jobs
      BY <2>4 DEF StillWanted, Work, WorkerKnows
    <3>2. \A k \in Jobs : k # j => state'[k] = state[k]
      BY <1>3, <2>1 DEF Claim, TypeOK
    <3>3. \A v \in Workers : v # w => worker'[v] = worker[v]
      BY <1>3 DEF Claim, Released, Becomes, TypeOK
    <3>4. \/ worker'[w] = IdleWorker
          \/ /\ worker'[w].pc = "announce" /\ worker'[w].job = j
             /\ state'[j] = "running"
      BY <1>3, <2>1, <2>4 DEF Claim, Released, Becomes, TypeOK
    <3>5. WorkerKnows(w)'
      BY <2>1, <3>4 DEF WorkerKnows, IdleWorker, WorkingPcs
    <3>6. \A v \in Workers : v # w /\ worker[v].pc = "compare"
            => state'[worker[v].job] \in {"completed", "failed"}
      BY <3>1, <3>2 DEF Work, WorkerKnows
    <3>7. worker'[w].pc \in WorkingPcs => worker'[w].job = j
      BY <3>4 DEF IdleWorker, WorkingPcs
    <3> QED
      BY <2>2, <3>1, <3>2, <3>3, <3>5, <3>6, <3>7, WorkFrame
  <2> QED
    BY <2>3, <2>4
<1>4. CASE Announce(w)
  <2>1. worker[w] # IdleWorker /\ "list" \in WorkingPcs /\ worker[w].pc \in WorkingPcs
    BY <1>4 DEF Announce, IdleWorker, WorkingPcs
  <2> QED
    BY <1>1, <1>4, <2>1, WorkMoves DEF Announce
<1>5. CASE Report(w) \/ Done(w)
  <2>1. worker[w] # IdleWorker
    BY <1>5 DEF Report, Done, IdleWorker
  <2> QED
    BY <1>1, <1>5, <2>1, WorkMoves DEF Report, Done
<1>6. CASE \E reply \in Replies : Listed(w, reply)
  BY <1>6, FailWork, WorkMoves DEF Listed, Resumed, WorkingPcs
<1>7. CASE \E item \in StreamItems : StreamItem(w, item)
  BY <1>7, FailWork, WorkMoves DEF StreamItem, Resumed, WorkingPcs
<1>8. CASE \E fault \in Faults : StreamRaises(w, fault)
  BY <1>8, FailWork DEF StreamRaises, Resumed
<1>9. CASE StreamEnd(w)
  <2>1. worker[w].pc \in {"stream", "drain"} /\ UNCHANGED web /\ web \in {"up", "closing"}
    BY <1>9 DEF StreamEnd, Resumed
  <2>2. CASE state[worker[w].job] = "cancelled"
    BY <1>9, <2>1, <2>2, WorkMoves DEF StreamEnd, WorkingPcs
  <2>3. CASE state[worker[w].job] # "cancelled"
    <3>1. /\ state' = [state EXCEPT ![worker[w].job] = "completed"]
          /\ Becomes(w, "compare")
          /\ worker[w].pc \in WorkingPcs
      BY <1>9, <2>1, <2>3 DEF StreamEnd, WorkingPcs
    <3> QED
      BY <2>1, <3>1, WorkEnds
  <2> QED
    BY <2>2, <2>3
<1>10. CASE \E reply \in Replies, changed \in BOOLEAN : Compare(w, reply, changed)
  BY <1>10, FailWork, WorkMoves DEF Compare, Resumed
<1> QED
  BY <1>2, <1>3, <1>4, <1>5, <1>6, <1>7, <1>8, <1>9, <1>10 DEF WorkerStep

\* What the others do: they create jobs and cancel active ones.
LEMMA WorkOthers ==
  ASSUME TypeOK, Work, worker' = worker, web' = web,
         \A j \in Jobs : \/ state'[j] = state[j]
                         \/ state[j] \in {"none", "queued"}
                         \/ state[j] = "running" /\ state'[j] = "cancelled"
  PROVE  Work'
  BY DEF Work, WorkerKnows, Alone, DownIsEmpty

LEMMA WorkEmpty ==
  ASSUME worker' = [w \in Workers |-> IdleWorker] PROVE Work'
  BY DEF Work, WorkerKnows, Alone, DownIsEmpty, IdleWorker, WorkingPcs

\* The jobs that a handler cancels are active.
LEMMA CallCancels ==
  ASSUME TypeOK, NEW c \in Callers, CallStep(c) \/ Arrive(c)
  PROVE  \/ state' = state
         \/ \E j \in Jobs : /\ state[j] \in ActiveStates
                            /\ state' = [state EXCEPT ![j] = "cancelled"]
                            /\ active' = active
<1>1. CASE DisableNext(c)
  <2>1. call[c].jobs \subseteq Jobs
    BY CallOK DEF CallRec
  <2> QED
    BY <1>1, <2>1 DEF DisableNext, Cancel
<1>2. CASE \E j \in Jobs : StopBegin(c, j)
  BY <1>2 DEF StopBegin, Cancel
<1> QED
  BY <1>1, <1>2 DEF CallStep, Arrive, StopEvent, StopReply, DisableBegin,
     DisableReply, EnableReply, MaintainReply, DisableLoad, EnableLoad,
     MaintainBegin

LEMMA WorkStep == ASSUME TypeOK, Work, [Next]_vars PROVE Work'
<1>1. CASE \E j \in Jobs : Send(j)
  <2>1. /\ UNCHANGED <<worker, web>>
        /\ \A j \in Jobs : state'[j] = state[j] \/ state[j] \in {"none", "queued"}
    BY <1>1 DEF Send, MayCreate, TypeOK
  <2> QED
    BY <2>1, WorkOthers
<1>2. ASSUME NEW c \in Callers, CallStep(c) \/ Arrive(c) PROVE Work'
  <2>1. UNCHANGED <<worker, web>>
    BY <1>2 DEF CallStep, Arrive, StopEvent, StopReply, DisableBegin,
       DisableNext, DisableReply, EnableReply, MaintainReply, StopBegin,
       DisableLoad, EnableLoad, MaintainBegin
  <2>2. \A j \in Jobs : \/ state'[j] = state[j]
                        \/ state[j] \in {"none", "queued"}
                        \/ state[j] = "running" /\ state'[j] = "cancelled"
    BY <1>2, CallCancels DEF ActiveStates, TypeOK
  <2> QED
    BY <2>1, <2>2, WorkOthers
<1>3. CASE StartStep
  <2>1. web \in {"down", "starting"} /\ worker' = worker
    BY <1>3 DEF StartStep, StartScan, StartNotify, StartEnqueue, StartServe
  <2>2. worker' = [w \in Workers |-> IdleWorker]
    BY <2>1 DEF Work, DownIsEmpty, TypeOK
  <2> QED
    BY <2>2, WorkEmpty
<1>4. CASE CloseBegin \/ \E j \in Jobs : CloseReply(j)
  <2>1. /\ UNCHANGED <<worker, state>>
        /\ web' = "closing"
    BY <1>4 DEF CloseBegin, CloseReply
  <2> QED
    BY <2>1 DEF Work, WorkerKnows, Alone, DownIsEmpty
<1>5. CASE Crash \/ CloseEnd
  BY <1>5, WorkEmpty DEF Crash, CloseEnd, Halt
<1>6. CASE UNCHANGED vars
  BY <1>6 DEF vars, Work, WorkerKnows, Alone, DownIsEmpty
<1> QED
  BY <1>1, <1>2, <1>3, <1>4, <1>5, <1>6, WorkWorker DEF Next, CloseStep

LEMMA WorkAlways == Spec => []Work
<1>1. TypeOK /\ Work /\ [Next]_vars => Work'
  BY WorkStep
<1> QED
  BY <1>1, WorkInit, TypeCorrect, PTL DEF Spec

\* A worker with a job is alone on it, and nobody else ended the job.
THEOREM WorksRunning == Spec => []WorksOnRunning
  BY WorkAlways, WorkWorks, PTL

(***************************************************************************)
(* The refinement.  Every step of the scheduler is a step of JobLifecycle  *)
(* or leaves the jobs and accounts alone.                                  *)
(***************************************************************************)
Refines == Lifecycle!Next \/ UNCHANGED <<state, active>>

LEMMA LifecycleInit == Init => Lifecycle!Init
  BY DEF Init, Lifecycle!Init

LEMMA MoveRefines ==
  ASSUME NEW j \in Jobs, NEW to, state' = [state EXCEPT ![j] = to],
         active' = active
  PROVE  Lifecycle!Moves(j, state[j], to)
  BY DEF Lifecycle!Moves

LEMMA SendRefines == ASSUME TypeOK, NEW j \in Jobs, Send(j) PROVE Refines
<1>1. Lifecycle!Moves(j, "none", "queued")
  BY DEF Send, MayCreate, Lifecycle!Moves
<1>2. active[Owner[j]] /\ Lifecycle!Idle(Owner[j])
  BY DEF Send, MayCreate, ActiveJobs, ActiveStates, Lifecycle!Idle
<1> QED
  BY <1>1, <1>2 DEF Refines, Lifecycle!Next, Lifecycle!Submit

LEMMA EndRefines ==
  ASSUME NEW j \in Jobs, NEW outcome \in {"completed", "failed"},
         state[j] = "running", state' = [state EXCEPT ![j] = outcome],
         active' = active
  PROVE  Refines
  BY DEF Refines, Lifecycle!Next, Lifecycle!End, Lifecycle!Moves

LEMMA FailRefines ==
  ASSUME Work, NEW w \in Workers, worker[w].pc \in WorkingPcs, Fail(w),
         active' = active
  PROVE  Refines
<1>1. worker[w].job \in Jobs /\ state[worker[w].job] \in {"running", "cancelled"}
  BY DEF Work, WorkerKnows
<1>2. CASE state[worker[w].job] = "cancelled"
  BY <1>2 DEF Fail, Refines
<1>3. CASE state[worker[w].job] = "running"
  BY <1>1, <1>3, EndRefines DEF Fail
<1> QED
  BY <1>1, <1>2, <1>3

LEMMA ClaimRefines ==
  ASSUME TypeOK, Work, InactiveUserIsIdle, NEW w \in Workers, Claim(w)
  PROVE  Refines
<1> DEFINE j == worker[w].job
<1>1. j \in Jobs /\ active' = active
  BY DEF Claim, Work, WorkerKnows
<1>2. CASE state[j] # "queued"
  BY <1>1, <1>2 DEF Claim, StillWanted, Refines
<1>3. CASE state[j] = "queued"
  <2>1. active[Owner[j]]
    <3>1. j \in ActiveJobs(Owner[j]) /\ Owner[j] \in Users
      BY <1>1, <1>3, OwnerAssumption DEF ActiveJobs, ActiveStates
    <3> QED
      BY <3>1 DEF InactiveUserIsIdle
  <2>2. state' = [state EXCEPT ![j] = "running"]
    BY <1>3, <2>1 DEF Claim, StillWanted
  <2>3. Lifecycle!Begin(j)
    BY <1>1, <1>3, <2>1, <2>2 DEF Lifecycle!Begin, Lifecycle!Moves
  <2> QED
    BY <1>1, <2>3 DEF Refines, Lifecycle!Next
<1> QED
  BY <1>2, <1>3

LEMMA WorkerRefines ==
  ASSUME "os_error" \notin Faults, Safe, Work, NEW w \in Workers, WorkerStep(w)
  PROVE  Refines
<1>1. "os_error" \notin Replies
  BY DEF Replies
<1>2. active' = active
  BY DEF WorkerStep, Dequeue, Claim, Announce, Listed, StreamItem, StreamRaises,
     StreamEnd, Compare, Done, Report, Resumed
<1>3. CASE Dequeue(w) \/ Announce(w) \/ Report(w) \/ Done(w)
  BY <1>2, <1>3 DEF Dequeue, Announce, Report, Done, Refines
<1>4. CASE Claim(w)
  BY <1>4, ClaimRefines DEF Safe
<1>5. CASE \E reply \in Replies : Listed(w, reply)
  BY <1>1, <1>2, <1>5 DEF Listed, Refines
<1>6. CASE \E item \in StreamItems : StreamItem(w, item)
  BY <1>2, <1>6, FailRefines DEF StreamItem, Resumed, WorkingPcs, Refines
<1>7. CASE \E fault \in Faults : StreamRaises(w, fault)
  BY <1>2, <1>7, FailRefines DEF StreamRaises, Resumed, WorkingPcs
<1>8. CASE StreamEnd(w)
  <2>1. worker[w].pc \in WorkingPcs
    BY <1>8 DEF StreamEnd, Resumed, WorkingPcs
  <2>2. /\ worker[w].job \in Jobs
        /\ state[worker[w].job] \in {"running", "cancelled"}
    BY <2>1 DEF Work, WorkerKnows
  <2>3. CASE state[worker[w].job] = "cancelled"
    BY <1>2, <1>8, <2>3 DEF StreamEnd, Refines
  <2>4. CASE state[worker[w].job] = "running"
    BY <1>2, <1>8, <2>2, <2>4, EndRefines DEF StreamEnd
  <2> QED
    BY <2>2, <2>3, <2>4
<1>9. CASE \E reply \in Replies, changed \in BOOLEAN : Compare(w, reply, changed)
  BY <1>1, <1>2, <1>9 DEF Compare, Refines
<1> QED
  BY <1>3, <1>4, <1>5, <1>6, <1>7, <1>8, <1>9 DEF WorkerStep

LEMMA CallRefines ==
  ASSUME Safe, NEW c \in Callers, CallStep(c) \/ Arrive(c) PROVE Refines
<1>1. CASE \E j \in Jobs : /\ state[j] \in ActiveStates
                          /\ state' = [state EXCEPT ![j] = "cancelled"]
                          /\ active' = active
  BY <1>1 DEF Refines, Lifecycle!Next, Lifecycle!Cancel, Lifecycle!Moves,
     ActiveStates
<1>2. CASE \E reply \in Replies : DisableReply(c, reply)
  <2>1. state' = state
    BY <1>2 DEF DisableReply
  <2>2. /\ call[c].user \in Users
        /\ ActiveJobs(call[c].user) = {}
    BY <1>2 DEF DisableReply, Safe, LockProtects, Covered, LockedPcs
  <2>3. \/ active' = active
        \/ active' = [active EXCEPT ![call[c].user] = FALSE]
    BY <1>2, <2>2 DEF DisableReply, Safe, TypeOK
  <2>4. Lifecycle!Idle(call[c].user)
    BY <2>2 DEF Lifecycle!Idle, ActiveJobs, ActiveStates
  <2> QED
    BY <2>1, <2>2, <2>3, <2>4 DEF Refines, Lifecycle!Next, Lifecycle!SetActive
<1>3. CASE \E reply \in Replies : EnableReply(c, reply)
  <2>1. state' = state
    BY <1>3 DEF EnableReply
  <2>2. call[c].user \in Users
    BY <1>3 DEF EnableReply, Safe, LockProtects, Covered
  <2>3. \/ active' = active
        \/ active' = [active EXCEPT ![call[c].user] = TRUE]
    BY <1>3, <2>2 DEF EnableReply, Safe, TypeOK
  <2> QED
    BY <2>1, <2>2, <2>3 DEF Refines, Lifecycle!Next, Lifecycle!SetActive
<1>4. ASSUME state' = state, ~(\E reply \in Replies : DisableReply(c, reply)),
             ~(\E reply \in Replies : EnableReply(c, reply))
      PROVE  Refines
  <2>1. active' = active
    BY <1>4 DEF CallStep, Arrive, StopEvent, StopReply, DisableBegin,
       DisableNext, MaintainReply, StopBegin, DisableLoad, EnableLoad,
       MaintainBegin
  <2> QED
    BY <1>4, <2>1 DEF Refines
<1> QED
  BY <1>1, <1>2, <1>3, <1>4, CallCancels DEF Safe

LEMMA StartRefines == ASSUME StartStep PROVE Refines
<1>1. CASE StartScan
  BY <1>1 DEF StartScan, Recovered, Refines, Lifecycle!Next, Lifecycle!Restart
<1>2. CASE ~StartScan
  BY <1>2 DEF StartStep, StartNotify, StartEnqueue, StartServe, Refines
<1> QED
  BY <1>1, <1>2

LEMMA StepRefines ==
  ASSUME "os_error" \notin Faults, Safe, Work, [Next]_vars PROVE Refines
<1>1. CASE \E j \in Jobs : Send(j)
  BY <1>1, SendRefines DEF Safe
<1>2. CASE CloseBegin \/ CloseStep \/ Crash \/ UNCHANGED vars
  BY <1>2 DEF CloseBegin, CloseStep, CloseReply, CloseEnd, Crash, Halt, vars,
     Refines
<1> QED
  BY <1>1, <1>2, StartRefines, WorkerRefines, CallRefines DEF Next

\* With a Runner whose calls raise RunnerError or nothing, the jobs and accounts
\* behave as JobLifecycle promises, through crashes and restarts.
THEOREM Refinement ==
  ASSUME "os_error" \notin Faults PROVE Spec => ImplementsLifecycle
<1>1. Safe /\ Work /\ [Next]_vars => [Lifecycle!Next]_(Lifecycle!vars)
  BY StepRefines DEF Refines, Lifecycle!vars
<1> QED
  BY <1>1, LifecycleInit, SafeAlways, WorkAlways, PTL
     DEF Spec, ImplementsLifecycle, Lifecycle!Spec
=============================================================================
