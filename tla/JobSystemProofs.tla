--------------------------- MODULE JobSystemProofs ---------------------------
(***************************************************************************)
(* The two processes together implement the scheduler over a free Runner,  *)
(* so what JobManagerProofs and JobScheduleProofs prove of it holds of     *)
(* them; and what is recorded as completed either was, or was stopped      *)
(* where a SIGTERM counts as success, or lost its Runner.                  *)
(***************************************************************************)
EXTENDS JobSystem, JobScheduleProofs

(***************************************************************************)
(* What is on the socket.                                                  *)
(***************************************************************************)
Answers == {"none", "sent", "ok", "runner_error"}

Socket ==
    /\ asked \in [Callers -> Answers]
    /\ \A c \in Callers : call[c].pc \in Waits <=> asked[c] # "none"
    /\ wire \in [Jobs -> Seq(R!Items)]

\* JobManager's step, whatever the Runner does.
LEMMA StreamMaps ==
  ASSUME {"runner_error", "os_error"} \subseteq Faults,
         TypeOK, Work, Socket, NEW w \in Workers, SystemStream(w)
  PROVE  WorkerStep(w)
<1> DEFINE j == worker[w].job
<1>1. j \in Jobs
  BY DEF SystemStream, Work, WorkerKnows, WorkingPcs
<1>2. CASE wire[j] # <<>>
  <2>1. Head(wire[j]) \in R!Items
    BY <1>1, <1>2 DEF Socket
  <2>2. CASE Head(wire[j]) = "error"
    BY <1>2, <2>2 DEF SystemStream, WorkerStep
  <2>3. CASE Head(wire[j]) # "error"
    <3>1. Head(wire[j]) \in StreamItems /\ "failed" \in StreamItems
      BY <2>1, <2>3 DEF R!Items, StreamItems
    <3> QED
      BY <1>2, <2>3, <3>1 DEF SystemStream, WorkerStep
  <2> QED
    BY <2>2, <2>3
<1>3. CASE wire[j] = <<>>
  BY <1>3 DEF SystemStream, WorkerStep
<1> QED
  BY <1>2, <1>3

LEMMA WorkerMaps ==
  ASSUME {"runner_error", "os_error"} \subseteq Faults,
         TypeOK, Work, Socket, NEW w \in Workers, SystemWorker(w)
  PROVE  WorkerStep(w)
<1>1. "ok" \in Replies
  BY DEF Replies
<1>2. CASE SystemStream(w)
  BY <1>2, StreamMaps
<1>3. CASE SystemListed(w)
  BY <1>1, <1>3 DEF SystemListed, WorkerStep
<1>4. CASE ~SystemStream(w) /\ ~SystemListed(w)
  BY <1>1, <1>4 DEF SystemWorker, WorkerStep
<1> QED
  BY <1>2, <1>3, <1>4

\* An answer is only used by a handler that waits for one.
LEMMA CallMaps ==
  ASSUME {"runner_error", "os_error"} \subseteq Faults,
         TypeOK, Socket, NEW c \in Callers, SystemCall(c)
  PROVE  CallStep(c) \/ Arrive(c)
<1>1. CASE \/ StopEvent(c) \/ DisableBegin(c) \/ DisableNext(c)
           \/ \E j \in Jobs : StopBegin(c, j)
           \/ \E u \in Users : DisableLoad(c, u) \/ EnableLoad(c, u)
  BY <1>1 DEF CallStep, Arrive
<1>2. CASE /\ asked[c] # "sent"
           /\ \/ StopReply(c, asked[c])
              \/ DisableReply(c, asked[c])
              \/ EnableReply(c, asked[c])
  <2>1. call[c].pc \in Waits
    BY <1>2 DEF StopReply, DisableReply, EnableReply, Waits
  <2>2. asked[c] \in Replies
    BY <1>2, <2>1 DEF Socket, Answers, Replies
  <2> QED
    BY <1>2, <2>2 DEF CallStep
<1> QED
  BY <1>1, <1>2 DEF SystemCall

LEMMA StepMaps ==
  ASSUME {"runner_error", "os_error"} \subseteq Faults,
         TypeOK, Work, Socket, SystemNext
  PROVE  [Next]_vars
<1>1. CASE \E w \in Workers : SystemWorker(w)
  BY <1>1, WorkerMaps DEF Next
<1>2. CASE \E c \in Callers : SystemCall(c)
  BY <1>2, CallMaps DEF Next
<1>3. CASE \/ \E c \in Callers : Serve(c)
           \/ \E j \in Jobs : RunnerStep(j) \/ ServeClose(j)
           \/ RunnerCrash
  BY <1>3 DEF Serve, RunnerStep, RunnerOnly, ServeClose, RunnerCrash
<1>4. CASE \/ SystemStart \/ SystemCloseBegin \/ SystemHalt
           \/ \E j \in Jobs : SystemCloseReply(j)
           \/ \E j \in Jobs : Send(j) /\ WebOnly
  BY <1>4 DEF SystemStart, SystemCloseBegin, SystemHalt, SystemCloseReply,
     Next, CloseStep
<1> QED
  BY <1>1, <1>2, <1>3, <1>4 DEF SystemNext

\* The Runner's handlers send items.
LEMMA RunnerSends ==
  ASSUME wire \in [Jobs -> Seq(R!Items)], NEW j \in Jobs,
         R!RunStep(j) \/ R!UnitStep(j)
  PROVE  wire' \in [Jobs -> Seq(R!Items)]
<1>1. ASSUME NEW item \in R!Items, R!Sent(j, item)
      PROVE  wire' \in [Jobs -> Seq(R!Items)]
  BY <1>1 DEF R!Sent
<1>2. CASE UNCHANGED wire
  BY <1>2
<1>3. "error" \in R!Items /\ "started" \in R!Items /\ "output" \in R!Items
  BY DEF R!Items
<1>4. R!ExitItems(j) \subseteq R!Items
  BY DEF R!ExitItems, R!Items
<1> QED
  BY <1>1, <1>2, <1>3, <1>4 DEF R!RunStep, R!UnitStep, R!RunBegin, R!RunSpawn,
     R!RunOutput, R!RunLimit, R!RunRaises, R!RunFinish, R!UnitStarts, R!UnitEnds

LEMMA WorkerSocket ==
  ASSUME TypeOK, Work, Socket, NEW w \in Workers, SystemWorker(w)
  PROVE  Socket'
<1>1. UNCHANGED <<call, asked>>
  BY DEF SystemWorker, SystemListed, SystemStream, WebOnly, socket, Dequeue,
     Claim, Announce, Done, Report, Compare, Listed, Resumed, StreamItem,
     StreamRaises, StreamEnd
<1>2. wire' \in [Jobs -> Seq(R!Items)]
  <2>1. CASE UNCHANGED wire
    BY <2>1 DEF Socket
  <2>2. CASE /\ wire[worker[w].job] # <<>>
             /\ wire' = [wire EXCEPT ![worker[w].job] = Tail(@)]
             /\ worker[w].pc \in {"stream", "drain"}
    <3>1. worker[w].job \in Jobs
      BY <2>2 DEF Work, WorkerKnows, WorkingPcs
    <3>2. Tail(wire[worker[w].job]) \in Seq(R!Items)
      BY <2>2, <3>1 DEF Socket
    <3> QED
      BY <2>2, <3>2 DEF Socket
  <2> QED
    BY <2>1, <2>2 DEF SystemWorker, SystemListed, SystemStream, WebOnly, runner,
       R!RunRequest
<1> QED
  BY <1>1, <1>2 DEF Socket

LEMMA CallSocket ==
  ASSUME TypeOK, Safe, Socket, NEW c \in Callers, SystemCall(c), CallStep(c) \/ Arrive(c)
  PROVE  Socket'
<1>1. \A d \in Callers : d # c => call'[d] = call[d]
  BY CallFrame DEF Safe
<1>2. asked' \in [Callers -> Answers]
  BY DEF Socket, SystemCall, Request, Answers
<1>3. \A d \in Callers : call'[d].pc \in Waits <=> asked'[d] # "none"
  BY <1>1 DEF Socket, SystemCall, Request
<1> QED
  BY <1>2, <1>3 DEF Socket, SystemCall, runner

LEMMA SocketStep ==
  ASSUME {"runner_error", "os_error"} \subseteq Faults,
         Safe, Work, Socket, [SystemNext]_systemVars
  PROVE  Socket'
<1> TypeOK
  BY DEF Safe
<1>1. CASE \E w \in Workers : SystemWorker(w)
  BY <1>1, WorkerSocket
<1>2. CASE \E c \in Callers : SystemCall(c)
  BY <1>2, CallMaps, CallSocket
<1>3. CASE \E c \in Callers : Serve(c)
  BY <1>3 DEF Serve, Carried, Failed, Socket, Answers, Waits, vars, R!Stop,
     R!StopFails, R!Disable, R!Enable, R!SaveFails
<1>4. CASE \E j \in Jobs : RunnerStep(j)
  BY <1>4, RunnerSends DEF RunnerStep, RunnerOnly, Socket, vars, socket
<1>5. CASE SystemHalt
  BY <1>5 DEF SystemHalt, WebGone, Crash, CloseEnd, Halt, Socket, Answers, Waits, IdleCall
<1>6. CASE RunnerCrash
  BY <1>6 DEF RunnerCrash, R!Crash, Socket, Answers, vars
<1>7. CASE \E j \in Jobs : ServeClose(j)
  BY <1>7 DEF ServeClose, R!Stop, R!StopFails, Socket, vars
<1>8. CASE \/ SystemStart \/ SystemCloseBegin
           \/ \E j \in Jobs : SystemCloseReply(j)
           \/ \E j \in Jobs : Send(j) /\ WebOnly
  BY <1>8 DEF SystemStart, SystemCloseBegin, SystemCloseReply, WebOnly, socket,
     runner, Socket, StartStep, StartScan, StartNotify, StartEnqueue,
     StartServe, CloseBegin, CloseReply, Send
<1>9. CASE UNCHANGED systemVars
  BY <1>9 DEF systemVars, vars, runner, socket, Socket
<1> QED
  BY <1>1, <1>2, <1>3, <1>4, <1>5, <1>6, <1>7, <1>8, <1>9 DEF SystemNext

SystemInvariant == Safe /\ Work /\ Socket

LEMMA SystemStarts == SystemInit => SystemInvariant
  BY SafeInit, WorkInit DEF SystemInit, SystemInvariant, Socket, Answers, Init,
     Waits, IdleCall, R!Init

LEMMA SystemSteps ==
  ASSUME {"runner_error", "os_error"} \subseteq Faults,
         SystemInvariant, [SystemNext]_systemVars
  PROVE  SystemInvariant' /\ [Next]_vars
<1>1. TypeOK
  BY DEF SystemInvariant, Safe
<1>2. [Next]_vars
  BY <1>1, StepMaps DEF SystemInvariant, systemVars
<1> QED
  BY <1>1, <1>2, SafeStep, WorkStep, SocketStep DEF SystemInvariant

\* Whatever the two processes do, the scheduler alone could do: its theorems
\* hold of the system.
THEOREM SystemIsScheduler ==
  ASSUME {"runner_error", "os_error"} \subseteq Faults
  PROVE  SystemSpec => ImplementsScheduler
<1>1. SystemInvariant /\ [SystemNext]_systemVars => SystemInvariant' /\ [Next]_vars
  BY SystemSteps
<1>2. SystemInit => Init
  BY DEF SystemInit
<1> QED
  BY <1>1, <1>2, SystemStarts, PTL DEF SystemSpec, Spec, ImplementsScheduler

\* With the Runner at the other end of the socket, too, a user's jobs do not
\* overlap, inactive users have none, and maintenance meets none.
THEOREM SystemSafe ==
  ASSUME {"runner_error", "os_error"} \subseteq Faults
  PROVE  SystemSpec => []UserLock
  BY SystemIsScheduler, LockIsEnough, PTL DEF ImplementsScheduler

\* Jobs are neither lost nor started twice, and their logs are true, whichever
\* of the two processes dies.
THEOREM SystemScheduled ==
  ASSUME {"runner_error", "os_error"} \subseteq Faults
  PROVE  SystemSpec => [](JobsAreScheduled /\ LogIsTrue) /\ NothingAfterClosing
  BY SystemIsScheduler, Scheduled, LogTrue, NothingAfter, PTL DEF ImplementsScheduler

(***************************************************************************)
(* Completed jobs.  The truth travels from the unit over the socket to the *)
(* worker and from there into the database; at each stop the unit has      *)
(* ended with 0 and a unit that has ended changes no more.                 *)
(***************************************************************************)
USE DEF Serving, database

(***************************************************************************)
(* A unit is new until its handler reads from it.                          *)
(***************************************************************************)
Runner ==
    /\ unit \in [Jobs -> R!UnitStates]
    /\ handler \in [Jobs -> R!HandlerPcs]
    /\ client \in [Jobs -> {"none", "open", "closed"}]
    /\ \A j \in Jobs : client[j] = "none" => handler[j] = "none"
    /\ \A j \in Jobs :
          handler[j] \in {"none", "accepted", "spawning"} => unit[j] = "none"

LEMMA RunnerInit == R!Init => Runner
  BY DEF R!Init, Runner, R!UnitStates, R!HandlerPcs

LEMMA HandlerStep ==
  ASSUME Runner, NEW j \in Jobs, R!RunStep(j) \/ R!UnitStep(j)
  PROVE  Runner'
<1> USE DEF Runner, R!At, R!HandlerPcs, R!UnitStates, R!SystemctlStop,
        R!SystemctlTimesOut, R!Finally, R!AtWork, R!Open
<1>1. CASE R!RunBegin(j)
  BY <1>1 DEF R!RunBegin
<1>2. CASE R!RunSpawn(j)
  BY <1>2 DEF R!RunSpawn
<1>3. CASE R!RunOutput(j)
  BY <1>3 DEF R!RunOutput
<1>4. CASE R!RunLimit(j)
  BY <1>4 DEF R!RunLimit
<1>5. CASE R!RunRaises(j)
  BY <1>5 DEF R!RunRaises
<1>6. CASE R!RunFinish(j)
  BY <1>6 DEF R!RunFinish
<1>7. CASE R!UnitStep(j)
  BY <1>7 DEF R!UnitStep, R!UnitStarts, R!UnitEnds
<1> QED
  BY <1>1, <1>2, <1>3, <1>4, <1>5, <1>6, <1>7 DEF R!RunStep

\* What a request may do to a unit.
LEMMA ServesUnits ==
  ASSUME Socket, Runner,
         \/ \E c \in Callers : Serve(c)
         \/ \E j \in Jobs : ServeClose(j)
  PROVE  /\ UNCHANGED <<worker, state, handler, client, wire>>
         /\ unit' \in [Jobs -> R!UnitStates]
         /\ \A k \in Jobs :
               unit'[k] = unit[k] \/ (R!AtWork(k) /\ unit'[k] \in {"killed", "stopping"})
<1> USE DEF Runner, R!UnitStates
<1>1. ASSUME NEW j, R!Stop(j) \/ R!StopFails(j)
      PROVE  /\ UNCHANGED <<handler, client, wire>>
             /\ unit' \in [Jobs -> R!UnitStates]
             /\ \A k \in Jobs : unit'[k] = unit[k] \/ (R!AtWork(k) /\ unit'[k] \in {"killed", "stopping"})
  BY <1>1 DEF R!Stop, R!StopFails, R!SystemctlStop, R!SystemctlTimesOut
<1>2. ASSUME NEW u, R!Disable(u)
      PROVE  /\ UNCHANGED <<handler, client, wire>>
             /\ unit' \in [Jobs -> R!UnitStates]
             /\ \A k \in Jobs : unit'[k] = unit[k] \/ (R!AtWork(k) /\ unit'[k] = "killed")
  BY <1>2 DEF R!Disable, R!SystemctlStop
<1>3. ASSUME NEW u, NEW flag, R!Enable(u) \/ R!SaveFails(u, flag)
      PROVE  UNCHANGED <<handler, client, wire, unit>>
  BY <1>3 DEF R!Enable, R!SaveFails
<1>4. CASE \E j \in Jobs : ServeClose(j)
  BY <1>1, <1>4 DEF ServeClose, vars
<1>5. CASE \E c \in Callers : Serve(c)
  <2>1. PICK c \in Callers : Serve(c)
    BY <1>5
  <2>2. call[c].pc \in Waits /\ UNCHANGED <<worker, state>> /\ (Carried(c) \/ Failed(c))
    BY <2>1 DEF Serve, Socket, vars
  <2>3. CASE call[c].pc = "stop_rpc"
    BY <1>1, <2>2, <2>3 DEF Carried, Failed
  <2>4. CASE call[c].pc = "disable_rpc"
    BY <1>2, <1>3, <2>2, <2>4 DEF Carried, Failed
  <2>5. CASE call[c].pc = "enable_rpc"
    BY <1>3, <2>2, <2>5 DEF Carried, Failed
  <2> QED
    BY <2>2, <2>3, <2>4, <2>5 DEF Waits
<1> QED
  BY <1>4, <1>5

\* The steps of the system that touch a unit, a handler or a connection.
LEMMA RunnerStepOK ==
  ASSUME Socket, Runner, [SystemNext]_systemVars
  PROVE  Runner'
<1>1. CASE \E j \in Jobs : RunnerStep(j)
  BY <1>1, HandlerStep DEF RunnerStep
<1>2. CASE \E w \in Workers : SystemWorker(w)
  <2>1. PICK w \in Workers : SystemWorker(w)
    BY <1>2
  <2>2. CASE UNCHANGED runner
    BY <2>2 DEF runner, Runner
  <2>3. CASE R!RunRequest(worker[w].job)
    BY <2>3 DEF R!RunRequest, R!At, Runner, R!HandlerPcs
  <2>4. CASE SystemStream(w)
    BY <2>4 DEF SystemStream, R!ClientCloses, Runner
  <2> QED
    BY <2>1, <2>2, <2>3, <2>4 DEF SystemWorker, SystemListed, WebOnly
<1>3. CASE SystemHalt
  BY <1>3 DEF SystemHalt, WebGone, R!ClientCloses, R!Unbound, Runner, R!UnitStates
<1>4. CASE RunnerCrash
  BY <1>4 DEF RunnerCrash, R!Crash, R!Unbound, Runner, R!UnitStates, R!HandlerPcs
<1>5. CASE \/ \E c \in Callers : Serve(c)
           \/ \E j \in Jobs : ServeClose(j)
  BY <1>5, ServesUnits DEF Runner, R!UnitStates, R!AtWork
<1>6. CASE UNCHANGED runner
  BY <1>6 DEF runner, Runner
<1> QED
  BY <1>1, <1>2, <1>3, <1>4, <1>5, <1>6 DEF SystemNext, systemVars, SystemStart,
     SystemCall, SystemCloseBegin, SystemCloseReply, WebOnly

\* An ended unit stays as it is, and so does a handler that died.
LEMMA UnitEndedStays ==
  ASSUME Socket, Runner, [SystemNext]_systemVars, NEW k \in Jobs
  PROVE  /\ unit[k] \in {"done", "killed"} => unit'[k] = unit[k]
         /\ handler[k] = "died" => handler'[k] = "died"
<1>1. CASE \E j \in Jobs : RunnerStep(j)
  <2>1. PICK j \in Jobs : R!RunStep(j) \/ R!UnitStep(j)
    BY <1>1 DEF RunnerStep
  <2> QED
    BY <2>1 DEF R!RunStep, R!UnitStep, R!RunBegin, R!RunSpawn, R!RunOutput,
       R!RunLimit, R!RunRaises, R!RunFinish, R!UnitStarts, R!UnitEnds, R!At,
       R!SystemctlStop, R!SystemctlTimesOut, R!Finally, R!AtWork, Runner
<1>2. CASE \/ SystemHalt \/ RunnerCrash
  BY <1>2 DEF SystemHalt, WebGone, RunnerCrash, R!Crash, R!Unbound, Runner
<1>3. CASE \/ \E c \in Callers : Serve(c)
           \/ \E j \in Jobs : ServeClose(j)
  BY <1>3, ServesUnits DEF R!AtWork
<1>4. CASE UNCHANGED <<unit, handler>>
  BY <1>4
<1>5. CASE \E w \in Workers : SystemWorker(w)
  BY <1>5 DEF SystemWorker, SystemListed, SystemStream, R!RunRequest, R!At, WebOnly,
     runner, Runner
<1> QED
  BY <1>1, <1>2, <1>3, <1>4, <1>5 DEF SystemNext, systemVars, runner, SystemStart,
     SystemCall, SystemCloseBegin, SystemCloseReply, WebOnly

(***************************************************************************)
(* A worker on a stream has an open connection, and a handler that is over *)
(* has left it a last item.                                                *)
(***************************************************************************)
Final == {"exit_ok", "exit_bad", "error"}
FinalOnWire(j) == \E i \in DOMAIN wire[j] : wire[j][i] \in Final
Streams ==
    \A w \in Workers : worker[w].pc \in {"stream", "drain"} =>
        /\ client[worker[w].job] = "open"
        /\ worker[w].pc = "stream" /\ handler[worker[w].job] = "over"
              => FinalOnWire(worker[w].job)

LEMMA SentFinal ==
  ASSUME wire \in [Jobs -> Seq(R!Items)], NEW j \in Jobs, NEW item \in R!Items,
         R!Sent(j, item), NEW k \in Jobs
  PROVE  /\ FinalOnWire(k) => FinalOnWire(k)'
         /\ k = j /\ item \in Final => FinalOnWire(k)'
<1>1. CASE k # j
  BY <1>1 DEF R!Sent, FinalOnWire
<1>2. CASE k = j
  <2>1. wire'[k] = Append(wire[k], item) /\ wire[k] \in Seq(R!Items)
    BY <1>2 DEF R!Sent
  <2>2. /\ \A i \in DOMAIN wire[k] : i \in DOMAIN wire'[k] /\ wire'[k][i] = wire[k][i]
        /\ Len(wire[k]) + 1 \in DOMAIN wire'[k]
        /\ wire'[k][Len(wire[k]) + 1] = item
    BY <2>1
  <2> QED
    BY <2>2 DEF FinalOnWire
<1> QED
  BY <1>1, <1>2

\* A handler that returns to an open connection has sent its last item.
LEMMA HandlerFinal ==
  ASSUME Socket, Runner, NEW j \in Jobs, R!RunStep(j) \/ R!UnitStep(j),
         NEW k \in Jobs, client[k] = "open", handler'[k] = "over",
         handler[k] = "over" => FinalOnWire(k)
  PROVE  FinalOnWire(k)'
<1> USE DEF Socket, Runner, R!At
<1>1. ASSUME NEW item \in R!Items, R!Sent(j, item) PROVE FinalOnWire(k) => FinalOnWire(k)'
  BY <1>1, SentFinal
<1>2. {"error", "started", "output"} \subseteq R!Items /\ R!ExitItems(j) \subseteq R!Items
  BY DEF R!ExitItems, R!Items
<1>3. CASE handler[k] = "over"
  BY <1>1, <1>2, <1>3 DEF R!RunStep, R!UnitStep, R!RunBegin, R!RunSpawn,
     R!RunOutput, R!RunLimit, R!RunRaises, R!RunFinish, R!UnitStarts,
     R!UnitEnds, FinalOnWire
<1>4. CASE handler[k] # "over"
  <2>1. k = j
    BY <1>4 DEF R!RunStep, R!UnitStep, R!RunBegin, R!RunSpawn, R!RunOutput,
       R!RunLimit, R!RunRaises, R!RunFinish, R!UnitStarts, R!UnitEnds
  <2>2. \E item \in R!Items \cap Final : R!Sent(j, item)
    <3>1. "error" \in R!Items \cap Final
      BY DEF Final, R!Items
    <3>2. R!ExitItems(j) \subseteq R!Items \cap Final
      BY DEF R!ExitItems, Final, R!Items
    <3> QED
      BY <1>4, <2>1, <3>1, <3>2 DEF R!RunStep, R!UnitStep, R!RunBegin,
         R!RunSpawn, R!RunOutput, R!RunLimit, R!RunRaises, R!RunFinish,
         R!UnitStarts, R!UnitEnds, R!Open
  <2> QED
    BY <2>1, <2>2, SentFinal
<1> QED
  BY <1>3, <1>4

\* A worker that reads on has not read the last item.
LEMMA ReadsOn ==
  ASSUME TypeOK, Work, Socket, NEW w \in Workers, SystemStream(w),
         worker'[w].pc = "stream", FinalOnWire(worker[w].job)
  PROVE  /\ worker[w].pc = "stream" /\ worker'[w].job = worker[w].job
         /\ FinalOnWire(worker[w].job)'
<1> DEFINE j == worker[w].job
<1>1. j \in Jobs /\ wire[j] \in Seq(R!Items)
  BY DEF SystemStream, Work, WorkerKnows, WorkingPcs, Socket
<1>2. ASSUME Fail(w) \/ Released(w) \/ Becomes(w, "compare") \/ Becomes(w, "drain")
      PROVE  worker'[w].pc # "stream"
  BY <1>2, RecordMoves DEF Fail, IdleWorker
<1>3. ASSUME StreamEnd(w) PROVE FALSE
  BY <1>2, <1>3 DEF StreamEnd
<1>4. ASSUME NEW fault, StreamRaises(w, fault) PROVE FALSE
  BY <1>2, <1>4 DEF StreamRaises
<1>5. ASSUME NEW item, StreamItem(w, item)
      PROVE  /\ item \in {"started", "output"}
             /\ worker' = worker /\ worker[w].pc = "stream"
  BY <1>2, <1>5 DEF StreamItem, Resumed
<1>6. /\ wire[j] # <<>> /\ wire' = [wire EXCEPT ![j] = Tail(@)]
      /\ worker' = worker /\ worker[w].pc = "stream"
      /\ Head(wire[j]) \in {"started", "output"}
  BY <1>3, <1>4, <1>5 DEF SystemStream
<1>7. PICK i \in DOMAIN wire[j] : wire[j][i] \in Final
  BY DEF FinalOnWire
<1>8. i # 1 /\ wire'[j] = Tail(wire[j])
  BY <1>1, <1>6, <1>7 DEF Final, Socket
<1>9. i - 1 \in DOMAIN wire'[j] /\ wire'[j][i - 1] = wire[j][i]
  <2>1. ASSUME NEW q \in Seq(R!Items), q # <<>>, NEW n \in DOMAIN q, n # 1
        PROVE  n - 1 \in DOMAIN Tail(q) /\ Tail(q)[n - 1] = q[n]
    BY <2>1
  <2> QED
    BY <1>1, <1>6, <1>7, <1>8, <2>1
<1>10. FinalOnWire(j)'
  BY <1>6, <1>7, <1>9 DEF FinalOnWire
<1> QED
  BY <1>6, <1>10

LEMMA WorkerStreams ==
  ASSUME TypeOK, Work, Socket, Runner, Streams, NEW w \in Workers, SystemWorker(w)
  PROVE  Streams'
<1> DEFINE j == worker[w].job
<1>1. CASE SystemStream(w)
  <2>1. /\ j \in Jobs /\ worker[w].pc \in {"stream", "drain"}
        /\ UNCHANGED handler
        /\ R!ClientCloses(Left)
        /\ \A k \in Jobs : k # j => wire'[k] = wire[k]
    BY <1>1 DEF SystemStream, Work, WorkerKnows, WorkingPcs, Socket
  <2>2. /\ \A v \in Workers : v # w => worker'[v] = worker[v]
        /\ worker'[w].pc \in {"stream", "drain"} => worker'[w].job = j
    BY <1>1, RecordMoves DEF SystemStream, StreamItem, StreamEnd, StreamRaises,
       Fail, IdleWorker, Held
  <2> SUFFICES ASSUME NEW v \in Workers, worker'[v].pc \in {"stream", "drain"}
               PROVE  /\ client'[worker'[v].job] = "open"
                      /\ worker'[v].pc = "stream" /\ handler'[worker'[v].job] = "over"
                            => FinalOnWire(worker[v].job)'
    BY DEF Streams
  <2>3. worker'[v].job = worker[v].job /\ worker[v].job \in Jobs
        /\ worker[v].pc \in {"stream", "drain"}
    BY <2>1, <2>2 DEF Work, WorkerKnows, WorkingPcs
  <2>4. client'[worker'[v].job] = "open"
    <3>1. Streaming(worker', worker'[v].job)
      BY DEF Streaming
    <3>2. client[worker[v].job] = "open"
      BY <2>3 DEF Streams
    <3> QED
      BY <2>1, <2>3, <3>1, <3>2 DEF R!ClientCloses, Left
  <2>5. ASSUME worker'[v].pc = "stream", handler'[worker'[v].job] = "over"
        PROVE  FinalOnWire(worker[v].job)'
    <3>1. CASE v = w
      <4>1. worker[w].pc = "stream"
        BY <1>1, <2>1, <2>5, <3>1, RecordMoves DEF SystemStream, StreamItem,
           StreamEnd, StreamRaises, Resumed, Fail, IdleWorker
      <4>2. FinalOnWire(j)
        BY <2>1, <2>3, <2>5, <3>1, <4>1 DEF Streams
      <4> QED
        BY <1>1, <2>3, <2>5, <3>1, <4>2, ReadsOn
    <3>2. CASE v # w
      <4>1. worker[v].pc = "stream" /\ worker[v].job # j
        BY <2>1, <2>2, <2>5, <3>2 DEF Work, Alone, WorkingPcs
      <4>2. FinalOnWire(worker[v].job)
        BY <2>1, <2>3, <2>5, <4>1 DEF Streams
      <4> QED
        BY <2>1, <2>3, <4>1, <4>2 DEF FinalOnWire
    <3> QED
      BY <3>1, <3>2
  <2> QED
    BY <2>4, <2>5
<1>2. CASE SystemListed(w)
  <2>1. worker[w].pc = "list" /\ j \in Jobs
    BY <1>2 DEF SystemListed, Listed, Resumed, Work, WorkerKnows, WorkingPcs
  <2>2. /\ \A v \in Workers : v # w => worker'[v] = worker[v]
        /\ worker'[w].pc = "stream" => worker'[w].job = j
        /\ worker'[w].pc # "drain"
    BY <1>2, RecordMoves DEF SystemListed, Listed, Fail, IdleWorker, Held
  <2>3. \A v \in Workers : worker[v].pc \in {"stream", "drain"} =>
            worker[v].job # j /\ worker[v].job \in Jobs
    BY <2>1 DEF Work, Alone, WorkingPcs, WorkerKnows
  <2>4. CASE worker'[w].pc = "stream"
    <3>1. R!RunRequest(j)
      BY <1>2, <2>4 DEF SystemListed
    <3>2. /\ client'[j] = "open" /\ handler'[j] = "accepted" /\ UNCHANGED wire
          /\ \A k \in Jobs \ {j} : client'[k] = client[k] /\ handler'[k] = handler[k]
      BY <2>1, <3>1 DEF R!RunRequest, R!At, Runner
    <3> QED
      BY <2>2, <2>3, <3>2 DEF Streams, FinalOnWire
  <2>5. CASE worker'[w].pc # "stream"
    <3>1. UNCHANGED <<client, handler, wire>>
      BY <1>2, <2>5 DEF SystemListed, runner
    <3> QED
      BY <2>2, <2>5, <3>1 DEF Streams, FinalOnWire
  <2> QED
    BY <2>4, <2>5
<1>3. CASE ~SystemStream(w) /\ ~SystemListed(w)
  <2>1. /\ \/ Dequeue(w) \/ Claim(w) \/ Announce(w) \/ Done(w) \/ Report(w)
           \/ \E changed \in BOOLEAN : Compare(w, "ok", changed)
        /\ UNCHANGED <<client, handler, wire>>
    BY <1>3 DEF SystemWorker, WebOnly, runner
  <2>2. worker'[w].pc \notin {"stream", "drain"}
    BY <2>1, RecordMoves DEF Dequeue, Claim, Announce, Done, Report, Compare,
       IdleWorker, TypeOK
  <2>3. \A v \in Workers : v # w => worker'[v] = worker[v]
    BY <2>1, RecordMoves DEF Dequeue, Claim, Announce, Done, Report, Compare, TypeOK
  <2> QED
    BY <2>1, <2>2, <2>3 DEF Streams, FinalOnWire
<1> QED
  BY <1>1, <1>2, <1>3

LEMMA StreamsStep ==
  ASSUME SystemInvariant, Runner, Streams, [SystemNext]_systemVars
  PROVE  Streams'
<1> USE DEF SystemInvariant
<1> TypeOK
  BY DEF Safe
<1>1. CASE \E w \in Workers : SystemWorker(w)
  BY <1>1, WorkerStreams
<1>2. CASE \E j \in Jobs : RunnerStep(j)
  <2>1. PICK j \in Jobs : R!RunStep(j) \/ R!UnitStep(j)
    BY <1>2 DEF RunnerStep
  <2>2. UNCHANGED <<worker, client>>
    BY <1>2, <2>1 DEF RunnerStep, RunnerOnly, vars, R!RunStep, R!UnitStep,
       R!RunBegin, R!RunSpawn, R!RunOutput, R!RunLimit, R!RunRaises, R!RunFinish,
       R!UnitStarts, R!UnitEnds
  <2>3. \A w \in Workers : worker[w].pc \in {"stream", "drain"} => worker[w].job \in Jobs
    BY DEF Work, WorkerKnows, WorkingPcs
  <2> QED
    BY <2>1, <2>2, <2>3, HandlerFinal DEF Streams
<1>3. CASE SystemHalt
  BY <1>3 DEF SystemHalt, Crash, CloseEnd, Halt, IdleWorker, Streams
<1>4. CASE RunnerCrash
  <2>1. UNCHANGED <<worker, client, wire>>
        /\ \A k \in Jobs : handler'[k] = "over" => handler[k] = "over"
    BY <1>4 DEF RunnerCrash, R!Crash, vars, Runner
  <2>2. \A w \in Workers : worker[w].pc \in {"stream", "drain"} => worker[w].job \in Jobs
    BY DEF Work, WorkerKnows, WorkingPcs
  <2> QED
    BY <2>1, <2>2 DEF Streams, FinalOnWire
<1>5. CASE \/ \E c \in Callers : Serve(c)
           \/ \E j \in Jobs : ServeClose(j)
  BY <1>5, ServesUnits DEF Streams, FinalOnWire
<1>6. CASE UNCHANGED <<worker, client, handler, wire>>
  BY <1>6 DEF Streams, FinalOnWire
<1>7. ASSUME NEW c \in Callers, SystemCall(c)
      PROVE  UNCHANGED <<worker, client, handler, wire>>
  BY <1>7 DEF SystemCall, runner, StopEvent, DisableBegin, DisableNext, StopBegin,
     DisableLoad, EnableLoad, StopReply, DisableReply, EnableReply
<1> QED
  BY <1>1, <1>2, <1>3, <1>4, <1>5, <1>6, <1>7 DEF SystemNext, systemVars, vars,
     runner, SystemStart, StartStep, StartScan, StartNotify, StartEnqueue,
     StartServe, Send, SystemCloseBegin, CloseBegin, SystemCloseReply, CloseReply,
     WebOnly

(***************************************************************************)
(* The truth at each of its stops.                                         *)
(***************************************************************************)
ExitOnWire(j) == \E i \in DOMAIN wire[j] : wire[j][i] = "exit_ok"
Zero(j) == unit[j] = "done" \/ (CleanStop /\ unit[j] = "killed")

Truth ==
    /\ \A j \in Jobs : ExitOnWire(j) => Zero(j)
    /\ \A w \in Workers : worker[w].pc = "drain" => Zero(worker[w].job)
    /\ CompletedIsExplained

LEMMA ZeroStays ==
  ASSUME Socket, Runner, [SystemNext]_systemVars, NEW k \in Jobs
  PROVE  /\ Zero(k) => Zero(k)'
         /\ handler[k] = "died" => handler'[k] = "died"
  BY UnitEndedStays DEF Zero

LEMMA SentTruth ==
  ASSUME Socket, NEW j \in Jobs, NEW item \in R!Items, R!Sent(j, item)
  PROVE  \A k \in Jobs : ExitOnWire(k)' => ExitOnWire(k) \/ (k = j /\ item = "exit_ok")
<1> SUFFICES ASSUME NEW k \in Jobs, ExitOnWire(k)'
             PROVE  ExitOnWire(k) \/ (k = j /\ item = "exit_ok")
  OBVIOUS
<1>1. CASE k # j
  BY <1>1 DEF R!Sent, Socket, ExitOnWire
<1>2. CASE k = j
  <2>1. wire'[j] = Append(wire[j], item) /\ wire[j] \in Seq(R!Items)
    BY DEF R!Sent, Socket
  <2>2. PICK i \in DOMAIN wire'[j] : wire'[j][i] = "exit_ok"
    BY <1>2 DEF ExitOnWire
  <2>3. \/ i \in DOMAIN wire[j] /\ wire'[j][i] = wire[j][i]
        \/ wire'[j][i] = item
    BY <2>1, <2>2
  <2> QED
    BY <1>2, <2>2, <2>3 DEF ExitOnWire
<1> QED
  BY <1>1, <1>2

\* Only a handler whose unit has ended so sends a zero exit.
LEMMA WireTruth ==
  ASSUME TypeOK, Work, Socket, Runner, Truth,
         [SystemNext]_systemVars, NEW k \in Jobs, ExitOnWire(k)'
  PROVE  ExitOnWire(k) \/ Zero(k)
<1>1. CASE \E j \in Jobs : RunnerStep(j)
  <2>1. PICK j \in Jobs : R!RunStep(j) \/ R!UnitStep(j)
    BY <1>1 DEF RunnerStep
  <2>2. ASSUME NEW item \in {"error", "started", "output"}, R!Sent(j, item)
        PROVE  ExitOnWire(k)
    BY <2>2, SentTruth DEF R!Items
  <2>3. ASSUME NEW item \in R!ExitItems(j), R!Sent(j, item)
        PROVE  ExitOnWire(k) \/ Zero(k)
    <3>1. item \in R!Items /\ (item = "exit_ok" => Zero(j))
      BY <2>3 DEF R!ExitItems, R!Items, Zero
    <3> QED
      BY <2>3, <3>1, SentTruth
  <2>4. CASE UNCHANGED wire
    BY <2>4 DEF ExitOnWire
  <2> QED
    BY <2>1, <2>2, <2>3, <2>4 DEF R!RunStep, R!UnitStep, R!RunBegin,
       R!RunSpawn, R!RunOutput, R!RunLimit, R!RunRaises, R!RunFinish,
       R!UnitStarts, R!UnitEnds
<1>2. CASE \E w \in Workers : SystemWorker(w) /\ wire' # wire
  <2>1. PICK w \in Workers : SystemStream(w) /\ wire' # wire
    BY <1>2 DEF SystemWorker, SystemListed, WebOnly, runner, R!RunRequest
  <2> DEFINE j == worker[w].job
  <2>2. /\ j \in Jobs
        /\ wire[j] # <<>>
        /\ wire' = [wire EXCEPT ![j] = Tail(@)]
    BY <2>1 DEF SystemStream, Work, WorkerKnows, WorkingPcs
  <2>3. \A i \in DOMAIN Tail(wire[j]) :
            i + 1 \in DOMAIN wire[j] /\ Tail(wire[j])[i] = wire[j][i + 1]
    BY <2>2 DEF Socket
  <2> QED
    BY <2>2, <2>3 DEF ExitOnWire, Socket
<1>3. CASE UNCHANGED wire
  BY <1>3 DEF ExitOnWire
<1>4. ASSUME \/ \E c \in Callers : Serve(c)
             \/ \E j \in Jobs : ServeClose(j)
      PROVE  UNCHANGED wire
  BY <1>4, ServesUnits
<1> QED
  BY <1>1, <1>2, <1>3, <1>4 DEF SystemNext, systemVars, runner, SystemStart,
     SystemCall, SystemCloseBegin, SystemCloseReply, SystemHalt, WebGone,
     RunnerCrash, R!Crash, WebOnly

\* A worker drains a stream only after it has read a zero exit.
LEMMA DrainTruth ==
  ASSUME TypeOK, Work, Socket, Truth, NEW w \in Workers, SystemWorker(w),
         NEW v \in Workers, worker'[v].pc = "drain"
  PROVE  worker'[v].job \in Jobs /\ Zero(worker'[v].job)
<1>1. CASE worker'[v] = worker[v]
  BY <1>1 DEF Work, WorkerKnows, WorkingPcs, Truth
<1>2. CASE worker'[v] # worker[v]
  <2> DEFINE j == worker[w].job
  <2>1. SystemStream(w) /\ v = w /\ worker'[w].job = j
        /\ wire[j] # <<>> /\ Head(wire[j]) = "exit_ok"
    BY <1>2 DEF SystemWorker, SystemListed, SystemStream, StreamItem, Dequeue,
       Claim, Announce, Done, Report, Compare, Listed, StreamEnd, StreamRaises,
       Fail, Fails, Released, Becomes, IdleWorker, TypeOK
  <2>2. j \in Jobs
    BY <2>1 DEF SystemStream, Work, WorkerKnows, WorkingPcs
  <2>3. ExitOnWire(j)
    BY <2>1, <2>2 DEF ExitOnWire, Socket
  <2> QED
    BY <2>1, <2>2, <2>3 DEF Truth
<1> QED
  BY <1>1, <1>2

LEMMA FailCompletes ==
  ASSUME TypeOK, NEW w \in Workers, Fail(w), NEW k \in Jobs, state'[k] = "completed"
  PROVE  state[k] = "completed"
  BY DEF Fail, TypeOK

\* A worker completes its job only from there, or at the end of a stream whose
\* handler died with the Runner.
LEMMA CompletesTruth ==
  ASSUME TypeOK, Work, Socket, Runner, Streams, Truth, NEW w \in Workers,
         SystemWorker(w), NEW k \in Jobs, state'[k] = "completed"
  PROVE  Zero(k) \/ handler[k] = "died"
<1>1. CASE state[k] = "completed"
  BY <1>1 DEF Truth, CompletedIsExplained, Zero
<1>2. CASE state[k] # "completed"
  <2>1. ASSUME Fail(w) \/ UNCHANGED state PROVE FALSE
    BY <1>2, <2>1, FailCompletes
  <2>2. ~SystemListed(w)
    BY <2>1 DEF SystemListed, Listed
  <2>3. ~(Dequeue(w) \/ Announce(w) \/ Done(w) \/ Report(w) \/ Claim(w))
    BY <1>2 DEF Dequeue, Announce, Done, Report, Claim, TypeOK
  <2>4. ~\E changed \in BOOLEAN : Compare(w, "ok", changed)
    BY <2>1 DEF Compare
  <2>5. SystemStream(w)
    BY <2>2, <2>3, <2>4 DEF SystemWorker
  <2> DEFINE j == worker[w].job
  <2>6. (\E item : StreamItem(w, item)) => Fail(w) \/ UNCHANGED state
    BY DEF StreamItem
  <2>7. (\E fault : StreamRaises(w, fault)) => Fail(w)
    BY DEF StreamRaises
  <2>8. wire[j] = <<>> /\ handler[j] \in {"over", "died"} /\ StreamEnd(w)
    BY <2>1, <2>5, <2>6, <2>7 DEF SystemStream
  <2>9. k = j
    BY <1>2, <2>8 DEF StreamEnd, TypeOK
  <2>10. CASE worker[w].pc = "drain"
    BY <2>9, <2>10 DEF Truth
  <2>11. CASE worker[w].pc = "stream"
    <3>1. ~FinalOnWire(j)
      BY <2>8 DEF FinalOnWire
    <3> QED
      BY <2>8, <2>9, <2>11, <3>1 DEF Streams
  <2> QED
    BY <2>5, <2>10, <2>11 DEF SystemStream
<1> QED
  BY <1>1, <1>2

LEMMA TruthStep ==
  ASSUME SystemInvariant, Runner, Streams, Truth, [SystemNext]_systemVars
  PROVE  Truth'
<1> USE DEF SystemInvariant
<1> TypeOK
  BY DEF Safe
<1>1. \A j \in Jobs : ExitOnWire(j)' => Zero(j)'
  BY WireTruth, ZeroStays DEF Truth
<1>2. CASE \E w \in Workers : SystemWorker(w)
  <2>1. PICK w \in Workers : SystemWorker(w)
    BY <1>2
  <2>2. \A v \in Workers : worker'[v].pc = "drain" => Zero(worker[v].job)'
    <3> SUFFICES ASSUME NEW v \in Workers, worker'[v].pc = "drain"
                 PROVE  Zero(worker[v].job)'
      OBVIOUS
    <3>1. worker'[v].job \in Jobs /\ Zero(worker'[v].job)
      BY <2>1, DrainTruth
    <3>2. ASSUME NEW k \in Jobs, Zero(k) PROVE Zero(k)'
      BY <3>2, ZeroStays
    <3> QED
      BY <3>1, <3>2 DEF Zero
  <2>3. \A k \in Jobs : state'[k] = "completed" => Zero(k)' \/ handler'[k] = "died"
    BY <2>1, CompletesTruth, ZeroStays
  <2>4. CompletedIsExplained'
    BY <2>3 DEF CompletedIsExplained, Zero
  <2> QED
    BY <1>1, <2>2, <2>4 DEF Truth
<1>3. CASE ~\E w \in Workers : SystemWorker(w)
  <2>1. \A v \in Workers : worker'[v] \in {worker[v], IdleWorker}
    BY <1>3 DEF SystemNext, systemVars, vars, SystemStart, StartStep, StartScan,
       StartNotify, StartEnqueue, StartServe, Send, SystemCall, StopEvent,
       StopReply, StopBegin, DisableLoad, DisableBegin, DisableNext,
       DisableReply, EnableLoad, EnableReply, Serve, RunnerStep, RunnerOnly,
       SystemCloseBegin, CloseBegin, ServeClose, SystemCloseReply, CloseReply,
       SystemHalt, Crash, CloseEnd, Halt, RunnerCrash
  <2>2. ASSUME NEW v \in Workers, worker'[v].pc = "drain" PROVE Zero(worker[v].job)'
    <3>1. worker'[v] = worker[v] /\ worker[v].pc = "drain"
      BY <2>1, <2>2 DEF IdleWorker
    <3>2. worker[v].job \in Jobs /\ Zero(worker[v].job)
      BY <3>1 DEF Truth, Work, WorkerKnows, WorkingPcs
    <3>3. ASSUME NEW k \in Jobs, Zero(k) PROVE Zero(k)'
      BY <3>3, ZeroStays
    <3> QED
      BY <3>1, <3>2, <3>3 DEF Zero
  <2>3. \A k \in Jobs : state'[k] = "completed" => state[k] = "completed"
    <3>1. CASE UNCHANGED state
      BY <3>1
    <3>2. CASE \E j \in Jobs : Send(j)
      BY <3>2 DEF Send, TypeOK
    <3>3. CASE StartScan
      BY <3>3 DEF StartScan, Recovered, TypeOK
    <3>4. CASE \E c \in Callers : DisableNext(c) \/ \E j \in Jobs : StopBegin(c, j)
      BY <3>4 DEF DisableNext, StopBegin, Cancel, TypeOK
    <3> QED
      BY <1>3, <3>1, <3>2, <3>3, <3>4 DEF SystemNext, systemVars, vars,
         SystemStart, StartStep, StartNotify, StartEnqueue, StartServe,
         SystemCall, StopEvent, StopReply, DisableLoad, DisableBegin,
         DisableReply, EnableLoad, EnableReply, Serve, RunnerStep, RunnerOnly,
         SystemCloseBegin, CloseBegin, ServeClose, SystemCloseReply,
         CloseReply, SystemHalt, Crash, CloseEnd, Halt, RunnerCrash
  <2>4. \A k \in Jobs : state'[k] = "completed" => Zero(k)' \/ handler'[k] = "died"
    BY <2>3, ZeroStays DEF Truth, CompletedIsExplained, Zero
  <2>5. CompletedIsExplained'
    BY <2>4 DEF CompletedIsExplained, Zero
  <2> QED
    BY <1>1, <2>2, <2>5 DEF Truth
<1> QED
  BY <1>2, <1>3

LEMMA TruthInit == SystemInit => Streams /\ Truth
  BY DEF SystemInit, Init, R!Init, Streams, Truth, ExitOnWire, CompletedIsExplained,
     IdleWorker

\* Nothing but a zero exit of the job's own unit, a SIGTERM that counts as one,
\* or a Runner that died under the run makes a job completed: whatever the
\* Runner's calls raise, whoever stops or dies, and however long stops take.
THEOREM CompletedExplained ==
  ASSUME {"runner_error", "os_error"} \subseteq Faults
  PROVE  SystemSpec => []CompletedIsExplained
<1> DEFINE Inv == SystemInvariant /\ Runner /\ Streams /\ Truth
<1>1. SystemInit => Inv
  BY SystemStarts, RunnerInit, TruthInit DEF SystemInit
<1>2. Inv /\ [SystemNext]_systemVars => Inv'
  BY SystemSteps, RunnerStepOK, StreamsStep, TruthStep DEF SystemInvariant
<1>3. Inv => CompletedIsExplained
  BY DEF Truth
<1> QED
  BY <1>1, <1>2, <1>3, PTL DEF SystemSpec

(***************************************************************************)
(* Processes at work.  A connection is open only while a worker is on the  *)
(* stream, and a worker on the stream has a running or a cancelled job.    *)
(***************************************************************************)
OpenIsStreamed == \A j \in Jobs : client[j] = "open" => Streaming(worker, j)

\* A worker that is not on a stream leaves none.
LEMMA StreamsKept ==
  ASSUME NEW w \in Workers, worker[w].pc \notin {"stream", "drain"},
         \A v \in Workers : v # w => worker'[v] = worker[v],
         NEW j \in Jobs, Streaming(worker, j)
  PROVE  Streaming(worker', j)
  BY DEF Streaming

LEMMA WorkerOpen ==
  ASSUME TypeOK, Work, Runner, OpenIsStreamed, NEW w \in Workers, SystemWorker(w)
  PROVE  OpenIsStreamed'
<1>1. CASE SystemStream(w)
  BY <1>1 DEF SystemStream, R!ClientCloses, Left, OpenIsStreamed
<1>2. CASE SystemListed(w)
  <2>1. worker[w].pc = "list" /\ worker[w].job \in Jobs
    BY <1>2 DEF SystemListed, Listed, Resumed, Work, WorkerKnows, WorkingPcs
  <2>2. \A v \in Workers : v # w => worker'[v] = worker[v]
    BY <1>2, RecordMoves DEF SystemListed, Listed, Fail
  <2>3. ASSUME NEW j \in Jobs, client[j] = "open" PROVE Streaming(worker', j)
    BY <2>1, <2>2, <2>3, StreamsKept DEF OpenIsStreamed
  <2>4. CASE worker'[w].pc = "stream"
    <3>1. worker'[w].job = worker[w].job
      BY <1>2, <2>4, RecordMoves DEF SystemListed, Listed, Held
    <3>2. \A j \in Jobs : client'[j] = "open" => client[j] = "open" \/ j = worker[w].job
      BY <1>2, <2>4 DEF SystemListed, R!RunRequest, Runner
    <3> QED
      BY <2>3, <2>4, <3>1, <3>2 DEF OpenIsStreamed, Streaming
  <2>5. CASE worker'[w].pc # "stream"
    BY <1>2, <2>3, <2>5 DEF SystemListed, runner, OpenIsStreamed
  <2> QED
    BY <2>4, <2>5
<1>3. CASE ~SystemStream(w) /\ ~SystemListed(w)
  <2>1. /\ \/ Dequeue(w) \/ Claim(w) \/ Announce(w) \/ Done(w) \/ Report(w)
           \/ \E changed \in BOOLEAN : Compare(w, "ok", changed)
        /\ UNCHANGED client
    BY <1>3 DEF SystemWorker, WebOnly, runner
  <2>2. worker[w].pc \notin {"stream", "drain"}
    BY <2>1 DEF Dequeue, Claim, Announce, Done, Report, Compare, Resumed
  <2>3. \A v \in Workers : v # w => worker'[v] = worker[v]
    BY <2>1, RecordMoves DEF Dequeue, Claim, Announce, Done, Report, Compare, TypeOK
  <2> QED
    BY <2>1, <2>2, <2>3, StreamsKept DEF OpenIsStreamed
<1> QED
  BY <1>1, <1>2, <1>3

LEMMA OpenStep ==
  ASSUME SystemInvariant, Runner, OpenIsStreamed, [SystemNext]_systemVars
  PROVE  OpenIsStreamed'
<1>1. CASE \E w \in Workers : SystemWorker(w)
  BY <1>1, WorkerOpen DEF SystemInvariant, Safe
<1>2. CASE SystemHalt
  BY <1>2 DEF SystemHalt, WebGone, R!ClientCloses, OpenIsStreamed
<1>3. CASE UNCHANGED <<worker, client>>
  BY <1>3 DEF OpenIsStreamed
<1>4. ASSUME NEW c \in Callers, SystemCall(c) PROVE UNCHANGED <<worker, client>>
  BY <1>4 DEF SystemCall, runner, StopEvent, DisableBegin, DisableNext, StopBegin,
     DisableLoad, EnableLoad, StopReply, DisableReply, EnableReply
<1>5. ASSUME \/ \E c \in Callers : Serve(c)
             \/ \E j \in Jobs : ServeClose(j)
      PROVE  UNCHANGED <<worker, client>>
  BY <1>5, ServesUnits DEF SystemInvariant
<1>6. ASSUME NEW j \in Jobs, RunnerStep(j) PROVE UNCHANGED <<worker, client>>
  BY <1>6 DEF RunnerStep, RunnerOnly, vars, R!RunStep, R!UnitStep, R!RunBegin,
     R!RunSpawn, R!RunOutput, R!RunLimit, R!RunRaises, R!RunFinish, R!UnitStarts,
     R!UnitEnds
<1> QED
  BY <1>1, <1>2, <1>3, <1>4, <1>5, <1>6 DEF SystemNext, systemVars, vars, runner,
     SystemStart, StartStep, StartScan, StartNotify, StartEnqueue, StartServe,
     Send, SystemCloseBegin, CloseBegin, SystemCloseReply, CloseReply, WebOnly,
     RunnerCrash, R!Crash

\* A process that is still at work belongs to a running job, or the Web has
\* hung up or is about to: whichever of the two dies, and whatever the Runner
\* reports.
THEOREM LiveAccounted ==
  ASSUME {"runner_error", "os_error"} \subseteq Faults
  PROVE  SystemSpec => []LiveUnitIsAccountedFor
<1> DEFINE Inv == SystemInvariant /\ Runner /\ OpenIsStreamed
<1>1. SystemInit => Inv
  <2>1. SystemInit => OpenIsStreamed
    BY DEF SystemInit, R!Init, OpenIsStreamed
  <2> QED
    BY <2>1, SystemStarts, RunnerInit DEF SystemInit
<1>2. Inv /\ [SystemNext]_systemVars => Inv'
  BY SystemSteps, RunnerStepOK, OpenStep DEF SystemInvariant
<1>3. Inv => LiveUnitIsAccountedFor
  <2> SUFFICES ASSUME Inv, NEW j \in Jobs, R!AtWork(j)
               PROVE  \/ state[j] = "running"
                      \/ client[j] = "closed"
                      \/ state[j] = "cancelled" /\ Streaming(worker, j)
    BY DEF LiveUnitIsAccountedFor, R!Live
  <2>1. client[j] # "none" /\ client[j] \in {"none", "open", "closed"}
    BY DEF Runner, R!AtWork
  <2>2. Streaming(worker, j) => state[j] \in {"running", "cancelled"}
    BY DEF SystemInvariant, Streaming, Work, WorkerKnows, WorkingPcs
  <2> QED
    BY <2>1, <2>2 DEF OpenIsStreamed
<1> QED
  BY <1>1, <1>2, <1>3, PTL DEF SystemSpec
=============================================================================
