---------------------------- MODULE RunnerProofs ----------------------------
(***************************************************************************)
(* The Runner, for any users, jobs and clients: no unit without a handler, *)
(* truthful exits, and no start after a stop that came before the fork.    *)
(***************************************************************************)
EXTENDS RunnerServer, TLAPS

LEMMA SentType ==
  ASSUME wire \in [Jobs -> Seq(Items)], NEW j \in Jobs, NEW item \in Items,
         Sent(j, item)
  PROVE  wire' \in [Jobs -> Seq(Items)]
  BY DEF Sent

LEMMA ItemKinds ==
  /\ {"started", "output", "error"} \subseteq Items
  /\ \A j \in Jobs : ExitItems(j) \subseteq Items
  BY DEF Items, ExitItems

LEMMA InitType == Init => TypeOK
  BY RunnerAssumption DEF Init, TypeOK, HandlerPcs, UnitStates

\* What a handler and its unit do keeps the shape of the state.
LEMMA RunType ==
  ASSUME TypeOK, NEW j \in Jobs, RunStep(j) \/ UnitStep(j) \/ RunRequest(j)
  PROVE  TypeOK'
<1> USE RunnerAssumption DEF TypeOK, HandlerPcs, UnitStates, At, Forgotten,
        SystemctlStop, SystemctlTimesOut, Finally, AtWork, Open
<1>1. CASE RunBegin(j)
  <2>1. wire' \in [Jobs -> Seq(Items)]
    BY <1>1, SentType, ItemKinds DEF RunBegin
  <2>2. \E pc \in HandlerPcs : handler' = [handler EXCEPT ![j] = pc]
    BY <1>1 DEF RunBegin
  <2>3. registered' \subseteq Jobs /\ UNCHANGED <<enabled, stored, marked, unit, lines, client>>
    BY <1>1 DEF RunBegin
  <2> QED
    BY <2>1, <2>2, <2>3
<1>2. CASE RunSpawn(j)
  BY <1>2 DEF RunSpawn
<1>3. CASE RunOutput(j)
  <2>1. wire' \in [Jobs -> Seq(Items)]
    BY <1>3, SentType, ItemKinds DEF RunOutput
  <2>2. /\ handler' \in [Jobs -> HandlerPcs]
        /\ registered' \subseteq Jobs
        /\ marked' \subseteq Jobs
    BY <1>3 DEF RunOutput
  <2>3. lines' \in [Jobs -> 0..MaxOutput] /\ UNCHANGED <<enabled, stored, client>>
    BY <1>3 DEF RunOutput
  <2>4. unit' \in [Jobs -> UnitStates]
    BY <1>3 DEF RunOutput
  <2> QED
    BY <2>1, <2>2, <2>3, <2>4
<1>4. CASE RunLimit(j)
  BY <1>4 DEF RunLimit
<1>5. CASE RunRaises(j)
  <2>1. wire' \in [Jobs -> Seq(Items)]
    BY <1>5, SentType, ItemKinds DEF RunRaises
  <2> QED
    BY <1>5, <2>1 DEF RunRaises
<1>6. CASE RunFinish(j)
  <2>1. wire' \in [Jobs -> Seq(Items)]
    BY <1>6, SentType, ItemKinds DEF RunFinish
  <2> QED
    BY <1>6, <2>1 DEF RunFinish
<1>7. CASE UnitStep(j)
  BY <1>7 DEF UnitStep, UnitStarts, UnitEnds
<1>8. CASE RunRequest(j)
  BY <1>8 DEF RunRequest
<1> QED
  BY <1>1, <1>2, <1>3, <1>4, <1>5, <1>6, <1>7, <1>8 DEF RunStep

LEMMA NextType == TypeOK /\ [Next]_runnerVars => TypeOK'
<1> SUFFICES ASSUME TypeOK, [Next]_runnerVars PROVE TypeOK'
  OBVIOUS
<1> USE RunnerAssumption
<1>1. CASE \E j \in Jobs : Stop(j) \/ StopFails(j)
  BY <1>1 DEF Stop, StopFails, Marked, SystemctlStop, SystemctlTimesOut, TypeOK,
     UnitStates
<1>2. CASE \/ \E u \in Users : Disable(u) \/ Enable(u)
           \/ \E u \in Users, flag \in BOOLEAN : SaveFails(u, flag)
  <2>1. ASSUME NEW u \in Users, Disable(u) PROVE TypeOK'
    BY <2>1 DEF Disable, SystemctlStop, TypeOK, UnitStates
  <2>2. ASSUME NEW u \in Users, Enable(u) PROVE TypeOK'
    BY <2>2 DEF Enable, TypeOK
  <2>3. ASSUME NEW u \in Users, NEW flag \in BOOLEAN, SaveFails(u, flag)
        PROVE  TypeOK'
    BY <2>3 DEF SaveFails, TypeOK
  <2> QED
    BY <1>2, <2>1, <2>2, <2>3
<1>3. CASE Crash
  BY <1>3 DEF Crash, Unbound, TypeOK, UnitStates, HandlerPcs
<1>4. CASE \E j \in Jobs :
             ClientCloses({j}) /\ UNCHANGED <<enabled, stored, registered, marked,
                                              handler, unit, lines, wire>>
  BY <1>4 DEF ClientCloses, TypeOK
<1>5. CASE UNCHANGED runnerVars
  BY <1>5 DEF runnerVars, TypeOK
<1> QED
  BY <1>1, <1>2, <1>3, <1>4, <1>5, RunType DEF Next

\* The Runner's state has its shape in every behaviour.
THEOREM TypeCorrect == Spec => []TypeOK
  BY InitType, NextType, PTL DEF Spec

(***************************************************************************)
(* Each handler with its unit and connection: a job's unit appears when    *)
(* its handler begins to read and is watched from then on.                 *)
(***************************************************************************)
Fresh(j) ==
    /\ client[j] = "none" => handler[j] = "none"
    /\ handler[j] \in {"none", "accepted", "spawning", "reset"} => unit[j] = "none"
    /\ unit[j] \in {"pending", "alive"} => handler[j] = "reading"

\* ... and its stream ends when the handler is over.
Final == {"exit_ok", "exit_bad", "error"}
WireEnds(j) ==
    \A i \in DOMAIN wire[j] : wire[j][i] \in Final =>
        i = Len(wire[j]) /\ handler[j] = "over"

\* A zero exit is one of the unit.
Zero(j) == unit[j] = "done" \/ (CleanStop /\ unit[j] = "killed")
Honest(j) == \A i \in DOMAIN wire[j] : wire[j][i] = "exit_ok" => Zero(j)

Handlers == TypeOK /\ \A j \in Jobs : Fresh(j) /\ WireEnds(j)

\* Whatever a step does to one job it leaves the others alone.
Elsewhere(j) ==
    \A k \in Jobs : k # j =>
        /\ handler'[k] = handler[k] /\ unit'[k] = unit[k]
        /\ client'[k] = client[k] /\ wire'[k] = wire[k]

LEMMA RunElsewhere ==
  ASSUME TypeOK, NEW j \in Jobs, RunStep(j) \/ UnitStep(j) \/ RunRequest(j)
  PROVE  Elsewhere(j)
  BY DEF RunStep, UnitStep, RunBegin, RunSpawn, RunOutput, RunLimit, RunRaises,
     RunFinish, UnitStarts, UnitEnds, RunRequest, At, Sent, SystemctlStop,
     SystemctlTimesOut, Finally, Open, TypeOK, Elsewhere

LEMMA RunFresh ==
  ASSUME TypeOK, NEW j \in Jobs, Fresh(j), RunStep(j) \/ UnitStep(j) \/ RunRequest(j)
  PROVE  Fresh(j)'
<1> USE DEF TypeOK, Fresh, At, SystemctlStop, SystemctlTimesOut, Finally, AtWork, Open
<1>1. CASE RunBegin(j)
  BY <1>1 DEF RunBegin
<1>2. CASE RunSpawn(j)
  BY <1>2 DEF RunSpawn
<1>3. CASE RunOutput(j)
  BY <1>3 DEF RunOutput
<1>4. CASE RunLimit(j) \/ RunRaises(j) \/ RunFinish(j)
  BY <1>4 DEF RunLimit, RunRaises, RunFinish
<1>5. CASE UnitStep(j)
  BY <1>5 DEF UnitStep, UnitStarts, UnitEnds
<1>6. CASE RunRequest(j)
  BY <1>6 DEF RunRequest
<1> QED
  BY <1>1, <1>2, <1>3, <1>4, <1>5, <1>6 DEF RunStep

\* One more item, sent by a handler that was not over.
LEMMA SentEnds ==
  ASSUME TypeOK, NEW j \in Jobs, WireEnds(j), handler[j] # "over",
         NEW item \in Items, Sent(j, item),
         item \in Final => handler'[j] = "over"
  PROVE  WireEnds(j)'
<1>1. wire'[j] = Append(wire[j], item) /\ wire[j] \in Seq(Items)
  BY DEF Sent, TypeOK
<1>2. \A i \in DOMAIN wire'[j] :
         \/ i \in DOMAIN wire[j] /\ wire'[j][i] = wire[j][i]
         \/ i = Len(wire'[j]) /\ wire'[j][i] = item
  BY <1>1
<1>3. \A i \in DOMAIN wire[j] : wire[j][i] \notin Final
  BY DEF WireEnds
<1> QED
  BY <1>2, <1>3 DEF WireEnds

LEMMA SameEnds ==
  ASSUME NEW j \in Jobs, WireEnds(j), wire'[j] = wire[j],
         handler[j] = "over" => handler'[j] = "over"
  PROVE  WireEnds(j)'
  BY DEF WireEnds

LEMMA RunEnds ==
  ASSUME TypeOK, NEW j \in Jobs, Fresh(j), WireEnds(j),
         RunStep(j) \/ UnitStep(j) \/ RunRequest(j)
  PROVE  WireEnds(j)'
<1> USE DEF TypeOK, At
<1>1. "started" \notin Final /\ "output" \notin Final
  BY DEF Final
<1>2. CASE RunBegin(j)
  BY <1>1, <1>2, SentEnds, SameEnds, ItemKinds DEF RunBegin
<1>3. CASE RunOutput(j)
  BY <1>1, <1>3, SentEnds, SameEnds, ItemKinds DEF RunOutput
<1>4. CASE RunRaises(j)
  BY <1>1, <1>4, SentEnds, SameEnds, ItemKinds DEF RunRaises
<1>5. CASE RunFinish(j)
  BY <1>1, <1>5, SentEnds, SameEnds, ItemKinds DEF RunFinish
<1>6. CASE RunSpawn(j) \/ RunLimit(j) \/ UnitStep(j) \/ RunRequest(j)
  BY <1>6, SameEnds DEF RunSpawn, RunLimit, UnitStep, UnitStarts, UnitEnds,
     RunRequest, Fresh
<1> QED
  BY <1>2, <1>3, <1>4, <1>5, <1>6 DEF RunStep

LEMMA HandlersStep == Handlers /\ [Next]_runnerVars => Handlers'
<1> SUFFICES ASSUME Handlers, [Next]_runnerVars PROVE Handlers'
  OBVIOUS
<1>1. TypeOK /\ TypeOK'
  BY NextType DEF Handlers
<1>2. CASE \E j \in Jobs : RunStep(j) \/ UnitStep(j) \/ RunRequest(j)
  <2>1. PICK j \in Jobs : RunStep(j) \/ UnitStep(j) \/ RunRequest(j)
    BY <1>2
  <2>2. Fresh(j)' /\ WireEnds(j)'
    BY <1>1, <2>1, RunFresh, RunEnds DEF Handlers
  <2>3. \A k \in Jobs : k # j => Fresh(k)' /\ WireEnds(k)'
    BY <1>1, <2>1, RunElsewhere DEF Handlers, Fresh, WireEnds, Elsewhere
  <2> QED
    BY <1>1, <2>2, <2>3 DEF Handlers
<1>3. CASE Crash
  BY <1>1, <1>3 DEF Crash, Unbound, Handlers, Fresh, WireEnds, TypeOK
<1>4. CASE \/ \E j \in Jobs : Stop(j) \/ StopFails(j)
           \/ \E u \in Users : Disable(u) \/ Enable(u)
           \/ \E u \in Users, flag \in BOOLEAN : SaveFails(u, flag)
  BY <1>1, <1>4 DEF Stop, StopFails, Disable, Enable, SaveFails, SystemctlStop,
     SystemctlTimesOut, AtWork, Handlers, Fresh, WireEnds, TypeOK
<1>5. CASE \E j \in Jobs : ClientCloses({j}) /\ UNCHANGED <<handler, unit, wire>>
  BY <1>1, <1>5 DEF ClientCloses, Handlers, Fresh, WireEnds, TypeOK
<1>6. CASE UNCHANGED runnerVars
  BY <1>1, <1>6 DEF runnerVars, Handlers, Fresh, WireEnds
<1> QED
  BY <1>2, <1>3, <1>4, <1>5, <1>6 DEF Next

LEMMA HandlersAlways == Spec => []Handlers
<1>1. Init => Handlers
  BY InitType DEF Init, Handlers, Fresh, WireEnds
<1> QED
  BY <1>1, HandlersStep, PTL DEF Spec

\* A unit that may start or run has a handler that reads from it, whoever
\* dies, hangs up or times out: one without a handler is being stopped.
THEOREM UnitWatched == Spec => []UnitIsWatched
<1>1. Handlers => UnitIsWatched
  BY DEF Handlers, Fresh, UnitIsWatched
<1> QED
  BY <1>1, HandlersAlways, PTL

(***************************************************************************)
(* Exits.                                                                  *)
(***************************************************************************)
LEMMA ZeroStays ==
  ASSUME Handlers, [Next]_runnerVars, NEW k \in Jobs, Zero(k)
  PROVE  Zero(k)'
<1>1. ASSUME unit[k] \in {"done", "killed"} PROVE unit'[k] = unit[k]
  <2>1. CASE \E j \in Jobs : RunStep(j) \/ UnitStep(j)
    BY <1>1, <2>1 DEF RunStep, UnitStep, RunBegin, RunSpawn, RunOutput, RunLimit,
       RunRaises, RunFinish, UnitStarts, UnitEnds, SystemctlStop,
       SystemctlTimesOut, Finally, AtWork, Handlers, Fresh, TypeOK
  <2>2. CASE ~\E j \in Jobs : RunStep(j) \/ UnitStep(j)
    BY <1>1, <2>2 DEF Next, runnerVars, RunRequest, Stop, StopFails, Disable,
       Enable, SaveFails, Crash, Unbound, SystemctlStop, SystemctlTimesOut,
       AtWork, Handlers, TypeOK
  <2> QED
    BY <2>1, <2>2
<1> QED
  BY <1>1 DEF Zero

LEMMA SentHonest ==
  ASSUME TypeOK, NEW j \in Jobs, Honest(j), NEW item \in Items, Sent(j, item),
         Zero(j) => Zero(j)', item = "exit_ok" => Zero(j)
  PROVE  Honest(j)'
<1>1. wire'[j] = Append(wire[j], item) /\ wire[j] \in Seq(Items)
  BY DEF Sent, TypeOK
<1>2. \A i \in DOMAIN wire'[j] :
         \/ i \in DOMAIN wire[j] /\ wire'[j][i] = wire[j][i]
         \/ wire'[j][i] = item
  BY <1>1
<1> QED
  BY <1>2 DEF Honest

LEMMA HonestStep ==
  ASSUME Handlers, [Next]_runnerVars, NEW k \in Jobs, Honest(k)
  PROVE  Honest(k)'
<1>1. Zero(k) => Zero(k)'
  BY ZeroStays
<1>2. CASE wire'[k] = wire[k]
  BY <1>1, <1>2 DEF Honest
<1>3. CASE wire'[k] # wire[k]
  <2>1. RunStep(k)
    <3>1. PICK j \in Jobs : RunStep(j) \/ UnitStep(j) \/ RunRequest(j)
      BY <1>3 DEF Next, runnerVars, Stop, StopFails, Disable, Enable, SaveFails, Crash
    <3>2. j = k
      BY <1>3, <3>1, RunElsewhere DEF Handlers, Elsewhere
    <3> QED
      BY <1>3, <3>1, <3>2 DEF UnitStep, UnitStarts, UnitEnds, RunRequest
  <2>2. \E item \in Items : Sent(k, item) /\ (item = "exit_ok" => Zero(k))
    <3>1. \A item \in ExitItems(k) : item = "exit_ok" => Zero(k)
      BY DEF ExitItems, Zero
    <3> QED
      BY <1>3, <2>1, <3>1, ItemKinds DEF RunStep, RunBegin, RunSpawn, RunOutput,
         RunLimit, RunRaises, RunFinish
  <2> QED
    BY <1>1, <2>2, SentHonest DEF Handlers
<1> QED
  BY <1>2, <1>3

\* The stream of a run ends with one exit or error item, and a zero exit is
\* the unit's own, or that of a stopped unit where a SIGTERM counts as success.
THEOREM ExitTrue == Spec => []ExitIsTrue
<1> DEFINE Inv == Handlers /\ \A k \in Jobs : Honest(k)
<1>1. Init => \A k \in Jobs : Honest(k)
  BY DEF Init, Honest
<1>2. Inv /\ [Next]_runnerVars => (\A k \in Jobs : Honest(k))'
  BY HonestStep
<1>3. Inv => ExitIsTrue
  BY DEF Handlers, WireEnds, Honest, Zero, ExitIsTrue, Final
<1>4. Spec => []Inv
  BY <1>1, <1>2, HandlersAlways, PTL DEF Spec
<1> QED
  BY <1>3, <1>4, PTL

(***************************************************************************)
(* Stops.                                                                  *)
(***************************************************************************)
\* What a stop before the fork leaves behind, until its handler is over.
Doomed(j) ==
    \/ j \in marked /\ handler[j] \in {"accepted", "spawning"} /\ unit[j] = "none"
    \/ /\ handler[j] \in {"reading", "over", "died", "reset"}
       /\ unit[j] \notin {"pending", "alive"}

LEMMA DoomedStep ==
  ASSUME Handlers, [Next]_runnerVars, NEW j \in Jobs, Doomed(j)
  PROVE  Doomed(j)'
<1> USE DEF Handlers, TypeOK, Doomed, At, SystemctlStop, SystemctlTimesOut,
        Finally, AtWork, Forgotten
<1>1. CASE RunStep(j)
  BY <1>1 DEF RunStep, RunBegin, RunSpawn, RunOutput, RunLimit, RunRaises, RunFinish
<1>2. CASE UnitStep(j) \/ RunRequest(j)
  BY <1>2 DEF UnitStep, UnitStarts, UnitEnds, RunRequest, Fresh
<1>3. CASE \E k \in Jobs \ {j} : RunStep(k) \/ UnitStep(k) \/ RunRequest(k)
  <2>1. PICK k \in Jobs \ {j} : RunStep(k) \/ UnitStep(k) \/ RunRequest(k)
    BY <1>3
  <2>2. handler'[j] = handler[j] /\ unit'[j] = unit[j]
    BY <2>1, RunElsewhere DEF Elsewhere
  <2>3. j \in marked => j \in marked'
    BY <2>1 DEF RunStep, UnitStep, RunBegin, RunSpawn, RunOutput, RunLimit,
       RunRaises, RunFinish, UnitStarts, UnitEnds, RunRequest
  <2> QED
    BY <2>2, <2>3
<1>4. CASE \E k \in Jobs : Stop(k) \/ StopFails(k)
  BY <1>4 DEF Stop, StopFails, Marked
<1>5. CASE \/ \E u \in Users : Disable(u) \/ Enable(u)
           \/ \E u \in Users, flag \in BOOLEAN : SaveFails(u, flag)
  BY <1>5 DEF Disable, Enable, SaveFails
<1>6. CASE Crash
  BY <1>6 DEF Crash, Unbound
<1>7. CASE UNCHANGED <<marked, handler, unit>>
  BY <1>7
<1> QED
  BY <1>1, <1>2, <1>3, <1>4, <1>5, <1>6, <1>7 DEF Next, runnerVars

\* A job that was stopped before its process was forked never gets a unit,
\* whatever else the Runner is asked, however long the fork takes.
THEOREM StoppedStays == Spec => StoppedNeverStarts
<1> SUFFICES ASSUME NEW j \in Jobs
             PROVE  Spec => [](j \in marked /\ handler[j] \in {"accepted", "spawning"}
                               => [](unit[j] \notin {"pending", "alive"}))
  BY DEF StoppedNeverStarts
<1>1. Handlers /\ j \in marked /\ handler[j] \in {"accepted", "spawning"} => Doomed(j)
  BY DEF Handlers, Fresh, Doomed
<1>2. Handlers /\ Doomed(j) /\ [Next]_runnerVars => Doomed(j)'
  BY DoomedStep
<1>3. Doomed(j) => unit[j] \notin {"pending", "alive"}
  BY DEF Doomed
<1> QED
  BY <1>1, <1>2, <1>3, HandlersAlways, PTL DEF Spec
=============================================================================
