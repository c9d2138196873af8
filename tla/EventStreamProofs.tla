-------------------------- MODULE EventStreamProofs --------------------------
(***************************************************************************)
(* The page and the stream only look on: the scheduler under them is       *)
(* JobManager, so its theorems hold, and every row reaches the page once,  *)
(* in order.                                                               *)
(***************************************************************************)
EXTENDS EventStream, JobScheduleProofs

USE DEF Serving, database

(***************************************************************************)
(* What a page relies on: an ended job stays ended, a log only grows.      *)
(***************************************************************************)
Onward ==
    \A j \in Jobs :
       /\ state[j] \in TerminalStates => state'[j] \in TerminalStates
       /\ Len(log[j]) <= Len(log'[j])

LEMMA MoreRows ==
  ASSUME TypeOK, NEW j \in Jobs, NEW kind \in EventKinds
  PROVE  Len(Append(log[j], kind)) = Len(log[j]) + 1 /\ Len(log[j]) \in Nat
<1>1. log[j] \in Seq(EventKinds)
  BY DEF TypeOK
<1> QED
  BY <1>1

LEMMA TurnOnward ==
  ASSUME TypeOK, Work, Placed, NEW w \in Workers, Turns(w)
  PROVE  Onward
<1> SUFFICES ASSUME NEW j \in Jobs
             PROVE  /\ state[j] \in TerminalStates => state'[j] \in TerminalStates
                    /\ Len(log[j]) <= Len(log'[j])
  BY DEF Onward
<1>1. PICK next \in WorkerPcs, new \in States, kind \in EventKinds \cup {"nothing"} :
        Turn(w, next, new, kind)
  BY DEF Turns
<1>2. log'[j] = log[j] \/ (kind \in EventKinds /\ log'[j] = Append(log[j], kind))
  BY <1>1 DEF Turn
<1>3. Len(log[j]) <= Len(log'[j])
  BY <1>2, MoreRows, Kinds
<1>4. CASE j = Held(w)
  <2>1. Row(worker[w].pc, state[j], next, new, kind) /\ state'[j] = new /\ worker[w].pc # "idle"
    BY <1>1, <1>4 DEF Turn, Held, Row
  <2>2. worker[w].pc \in WorkingPcs => state[j] \in {"running", "cancelled"}
    BY <1>4, <2>1, JobInHand
  <2>3. state[j] \in TerminalStates => new \in TerminalStates
    BY <2>1, <2>2 DEF Row, WorkingPcs, TerminalStates
  <2> QED
    BY <1>3, <2>1, <2>3
<1>5. CASE j # Held(w)
  BY <1>1, <1>3, <1>5 DEF Turn, Held
<1> QED
  BY <1>4, <1>5

LEMMA StepOnward ==
  ASSUME TypeOK, Work, Placed, Found, [Next]_vars
  PROVE  Onward
<1>0. \A j \in Jobs : Len(log[j]) \in Nat
  BY MoreRows, Kinds
<1>1. CASE UNCHANGED <<state, log>>
  BY <1>0, <1>1 DEF Onward
<1>2. CASE StartScan
  BY <1>0, <1>2 DEF StartScan, Recovered, Onward, TerminalStates
<1>3. CASE \E j \in Jobs : StartNotify(j)
  BY <1>0, <1>3, MoreRows, Kinds DEF StartNotify, Logged, Onward, TypeOK
<1>4. CASE \E j \in Jobs : Send(j)
  BY <1>0, <1>4 DEF Send, MayCreate, Onward, TypeOK, TerminalStates
<1>5. ASSUME NEW w \in Workers, WorkerStep(w) PROVE Onward
  BY <1>1, <1>5, WorkerTurns, TurnOnward DEF Dequeue, vars
<1>6. ASSUME NEW c \in Callers, CallStep(c) \/ Arrive(c) PROVE Onward
  <2>1. Acts(c)
    BY <1>6, HandlerActs
  <2>2. CASE Cancels(c)
    BY <1>0, <2>2 DEF Cancels, Onward, TerminalStates
  <2>3. CASE Reports(c)
    <3>1. \A j \in Jobs : log'[j] = log[j] \/ log'[j] = Append(log[j], "cancelled")
      BY <2>3 DEF Reports
    <3>2. \A j \in Jobs : Len(Append(log[j], "cancelled")) = Len(log[j]) + 1
      BY MoreRows, Kinds
    <3>3. \A j \in Jobs : Len(log[j]) <= Len(log'[j])
      BY <1>0, <3>1, <3>2
    <3> QED
      BY <2>3, <3>3 DEF Reports, Onward
  <2>4. CASE Passes(c)
    BY <1>1, <2>4 DEF Passes
  <2> QED
    BY <2>1, <2>2, <2>3, <2>4 DEF Acts
<1> QED
  BY <1>1, <1>2, <1>3, <1>4, <1>5, <1>6 DEF Next, StartStep, CloseStep, StartEnqueue,
     StartServe, CloseBegin, CloseReply, CloseEnd, Crash, Halt, vars

(***************************************************************************)
(* The page and its connection.                                            *)
(***************************************************************************)
PageType ==
    /\ submitting \in Jobs \cup {NoJob}
    /\ listed \in Jobs \cup {NoJob}
    /\ source \in [job : Jobs \cup {NoJob}, last : Nat,
                   status : {"connecting", "open", "closed", "failed"}]
    /\ stream \in [on : BOOLEAN, seq : Nat]
    /\ frames \in Seq(Nat)

\* Only an open connection has a generator, or frames on it.
Connection ==
    /\ source.status # "open" => ~stream.on /\ frames = <<>>
    /\ source.job = NoJob => source.status = "closed" /\ source.last = 0

Window == PageType /\ Connection /\ DeliveredInOrder /\ FinishedIsTerminal

LEMMA StreamOnlyLooks == StreamNext => [Next]_vars
  BY DEF StreamNext, Service, Submit, Page, Submitted, SubmitFails, Connect,
     Refused, Receive, Reconnect, Drop, Select, Reload, Poll, Next, CloseStep

LEMMA ActiveJobIsJob == ActiveJob \in Jobs \cup {NoJob}
  BY DEF ActiveJob, ActiveJobs

\* The page stays as it is.
LEMMA PageStays ==
  ASSUME TypeOK, TypeOK', Window, Onward,
         UNCHANGED <<submitting, listed, source, stream, frames>>
  PROVE  Window'
<1>1. PageType' /\ Connection'
  BY DEF Window, PageType, Connection
<1>2. DeliveredInOrder'
  <2>1. source.job # NoJob => source.job \in Jobs /\ Len(log[source.job]) <= Len(log'[source.job])
    BY DEF Window, PageType, Onward
  <2>2. source.job # NoJob => Len(log[source.job]) \in Nat /\ Len(log'[source.job]) \in Nat
    BY <2>1, MoreRows, Kinds DEF TypeOK
  <2>3. Len(frames) \in Nat /\ source.last \in Nat
    BY DEF Window, PageType
  <2> QED
    BY <2>1, <2>2, <2>3 DEF Window, DeliveredInOrder
<1>3. FinishedIsTerminal'
  BY DEF Window, PageType, Onward, FinishedIsTerminal
<1> QED
  BY <1>1, <1>2, <1>3 DEF Window

\* A new source, or none.
LEMMA FreshWindow ==
  ASSUME TypeOK', submitting' \in Jobs \cup {NoJob}, listed' \in Jobs \cup {NoJob},
         Disconnected,
         \/ source' = NoSource
         \/ \E j \in Jobs : source' = [job |-> j, status |-> "connecting", last |-> 0]
  PROVE  Window'
<1>1. frames' = <<>> /\ frames' \in Seq(Nat) /\ Len(frames') = 0 /\ DOMAIN frames' = {}
  BY DEF Disconnected
<1>2. stream' = NoStream /\ stream' \in [on : BOOLEAN, seq : Nat] /\ stream'.on = FALSE
  BY DEF Disconnected, NoStream
<1>3. \A j \in Jobs : Len(log'[j]) \in Nat
  BY DEF TypeOK
<1>4. CASE source' = NoSource
  <2>1. source' = [job |-> NoJob, status |-> "closed", last |-> 0]
    BY <1>4 DEF NoSource
  <2> QED
    BY <1>1, <1>2, <2>1 DEF Window, PageType, Connection, DeliveredInOrder, FinishedIsTerminal
<1>5. ASSUME NEW j \in Jobs, source' = [job |-> j, status |-> "connecting", last |-> 0]
      PROVE  Window'
  <2>1. j # NoJob
    BY DistinctAssumption
  <2> QED
    BY <1>1, <1>2, <1>3, <1>5, <2>1 DEF Window, PageType, Connection, DeliveredInOrder, FinishedIsTerminal
<1> QED
  BY <1>4, <1>5

\* The connection is gone; what the page has received it keeps.
LEMMA BrokenWindow ==
  ASSUME TypeOK, TypeOK', Window, Onward, UNCHANGED <<submitting, listed>>, Disconnected,
         \/ source' = source
         \/ source.status = "open" /\ source' = [source EXCEPT !.status = "connecting"]
  PROVE  Window'
<1>1. frames' = <<>> /\ frames' \in Seq(Nat) /\ Len(frames') = 0 /\ DOMAIN frames' = {}
  BY DEF Disconnected
<1>2. stream' = NoStream /\ stream' \in [on : BOOLEAN, seq : Nat] /\ stream'.on = FALSE
  BY DEF Disconnected, NoStream
<1>3. /\ source'.job = source.job /\ source'.last = source.last
      /\ source'.status = "connecting" \/ source'.status = source.status
      /\ source' \in [job : Jobs \cup {NoJob}, last : Nat,
                      status : {"connecting", "open", "closed", "failed"}]
      /\ source.job = NoJob => source' = source
  BY DEF Window, PageType, Connection
<1>4. source.job # NoJob => source.job \in Jobs /\ Len(log[source.job]) <= Len(log'[source.job])
  BY DEF Window, PageType, Onward
<1>5. source.job # NoJob => Len(log[source.job]) \in Nat /\ Len(log'[source.job]) \in Nat
  BY <1>4, MoreRows, Kinds DEF TypeOK
<1>6. Len(frames) \in Nat /\ source.last \in Nat
  BY DEF Window, PageType
<1>7. DeliveredInOrder'
  BY <1>1, <1>2, <1>3, <1>4, <1>5, <1>6 DEF Window, DeliveredInOrder
<1>8. FinishedIsTerminal'
  BY <1>3, <1>4 DEF Window, FinishedIsTerminal, Onward
<1>9. PageType' /\ Connection'
  BY <1>1, <1>2, <1>3 DEF Window, PageType, Connection
<1> QED
  BY <1>7, <1>8, <1>9 DEF Window

LEMMA ConnectWindow ==
  ASSUME TypeOK, Window, Connect
  PROVE  Window'
<1>1. /\ source.status = "connecting" /\ frames = <<>> /\ Len(frames) = 0
      /\ source.job \in Jobs /\ source.last \in Nat
  BY DEF Connect, Window, PageType, Connection
<1>2. /\ source'.job = source.job /\ source'.last = source.last /\ source'.status = "open"
      /\ source' \in [job : Jobs \cup {NoJob}, last : Nat,
                      status : {"connecting", "open", "closed", "failed"}]
      /\ stream' = [on |-> TRUE, seq |-> source.last]
      /\ UNCHANGED <<log, frames, submitting, listed>>
  BY <1>1 DEF Connect, Window, PageType, vars
<1>3. DeliveredInOrder'
  BY <1>1, <1>2 DEF Window, DeliveredInOrder
<1> QED
  BY <1>1, <1>2, <1>3, DistinctAssumption DEF Window, PageType, Connection, FinishedIsTerminal

LEMMA RefusedWindow ==
  ASSUME TypeOK, Window, Refused
  PROVE  Window'
<1>1. /\ source'.job = source.job /\ source'.last = source.last /\ source'.status = "failed"
      /\ source' \in [job : Jobs \cup {NoJob}, last : Nat,
                      status : {"connecting", "open", "closed", "failed"}]
      /\ source.job # NoJob
      /\ ~stream.on /\ frames = <<>>
      /\ UNCHANGED <<log, frames, stream, submitting, listed>>
  BY DEF Refused, Window, PageType, Connection, vars
<1>2. DeliveredInOrder'
  BY <1>1 DEF Window, DeliveredInOrder
<1> QED
  BY <1>1, <1>2 DEF Window, PageType, Connection, FinishedIsTerminal

\* The frame at the head is the row after the last one, and its job has one.
LEMMA NextFrame ==
  ASSUME TypeOK, Window, frames # <<>>
  PROVE  /\ Head(frames) = source.last + 1
         /\ source.status = "open" /\ source.job \in Jobs
         /\ Head(frames) \in DOMAIN log[source.job]
         /\ Len(Tail(frames)) = Len(frames) - 1 /\ Tail(frames) \in Seq(Nat)
         /\ \A i \in DOMAIN Tail(frames) : Tail(frames)[i] = Head(frames) + i
<1>1. /\ Len(frames) \in Nat /\ Len(frames) # 0 /\ DOMAIN frames = 1..Len(frames)
      /\ Head(frames) = frames[1] /\ source.last \in Nat
      /\ Len(Tail(frames)) = Len(frames) - 1 /\ Tail(frames) \in Seq(Nat)
      /\ DOMAIN Tail(frames) = 1..Len(frames) - 1
      /\ \A i \in 1..Len(frames) - 1 : Tail(frames)[i] = frames[i + 1]
  BY DEF Window, PageType
<1>2. \A i \in 1..Len(frames) : frames[i] = source.last + i
  BY <1>1 DEF Window, DeliveredInOrder
<1>3. Head(frames) = source.last + 1
  BY <1>1, <1>2
<1>4. source.status = "open" /\ source.job \in Jobs
  BY DEF Window, PageType, Connection
<1>5. log[source.job] \in Seq(EventKinds) /\ Len(log[source.job]) \in Nat
  BY <1>4 DEF TypeOK
<1>6. source.last + Len(frames) <= Len(log[source.job])
  BY <1>4, DistinctAssumption DEF Window, DeliveredInOrder
<1>7. Head(frames) \in DOMAIN log[source.job]
  BY <1>1, <1>3, <1>5, <1>6
<1>8. \A i \in 1..Len(frames) - 1 : Tail(frames)[i] = Head(frames) + i
  <2> TAKE i \in 1..Len(frames) - 1
  <2>1. Tail(frames)[i] = source.last + (i + 1)
    BY <1>1, <1>2
  <2> QED
    BY <1>1, <1>3, <2>1
<1> QED
  BY <1>1, <1>3, <1>4, <1>7, <1>8

LEMMA ReceiveWindow ==
  ASSUME TypeOK, LogIsTrue, Window, Receive
  PROVE  Window'
<1>1. frames # <<>> /\ UNCHANGED <<state, log, submitting>>
  BY DEF Receive, vars
<1> DEFINE h == Head(frames)
<1>2. /\ h = source.last + 1 /\ h \in Nat
      /\ source.status = "open" /\ source.job \in Jobs
      /\ h \in DOMAIN log[source.job]
      /\ Len(Tail(frames)) = Len(frames) - 1 /\ Tail(frames) \in Seq(Nat)
      /\ \A i \in DOMAIN Tail(frames) : Tail(frames)[i] = h + i
      /\ Len(frames) \in Nat /\ source.last \in Nat /\ Len(log[source.job]) \in Nat
      /\ source.last + Len(frames) <= Len(log[source.job])
  BY <1>1, NextFrame, MoreRows, Kinds, DistinctAssumption DEF Window, PageType, DeliveredInOrder
<1> HIDE DEF h
<1>3. CASE Ends(log[source.job][h])
  <2>1. /\ source'.status = "closed" /\ source'.last = h /\ source'.job = source.job
        /\ source' \in [job : Jobs \cup {NoJob}, last : Nat,
                        status : {"connecting", "open", "closed", "failed"}]
        /\ stream' = NoStream /\ frames' = <<>>
        /\ listed' \in Jobs \cup {NoJob}
    BY <1>2, <1>3, ActiveJobIsJob DEF Receive, h, Window, PageType, Disconnected
  <2>2. state'[source.job] \in TerminalStates
    BY <1>1, <1>2, <1>3 DEF Ends, LogIsTrue, LogAgreesWithState, TerminalStates
  <2>3. Len(frames') = 0 /\ DOMAIN frames' = {} /\ frames' \in Seq(Nat)
    BY <2>1
  <2>4. h <= Len(log[source.job])
    BY <1>1, <1>2 DEF Window, PageType
  <2>5. DeliveredInOrder'
    BY <1>1, <1>2, <2>1, <2>3, <2>4 DEF DeliveredInOrder, NoStream
  <2> QED
    BY <1>1, <1>2, <2>1, <2>2, <2>3, <2>5, DistinctAssumption
    DEF Window, PageType, Connection, FinishedIsTerminal, NoStream
<1>4. CASE ~Ends(log[source.job][h])
  <2>1. /\ source'.status = "open" /\ source'.last = h /\ source'.job = source.job
        /\ source' \in [job : Jobs \cup {NoJob}, last : Nat,
                        status : {"connecting", "open", "closed", "failed"}]
        /\ frames' = Tail(frames) /\ UNCHANGED <<stream, listed>>
    BY <1>2, <1>4 DEF Receive, h, Window, PageType
  <2>2. DeliveredInOrder'
    BY <1>1, <1>2, <2>1 DEF Window, DeliveredInOrder
  <2> QED
    BY <1>1, <1>2, <2>1, <2>2, DistinctAssumption DEF Window, PageType, Connection, FinishedIsTerminal
<1> QED
  BY <1>3, <1>4

LEMMA Concatenated ==
  ASSUME NEW s \in Seq(Nat), NEW t \in Seq(Nat)
  PROVE  /\ s \o t \in Seq(Nat) /\ Len(s \o t) = Len(s) + Len(t)
         /\ DOMAIN (s \o t) = 1..Len(s) + Len(t)
         /\ \A i \in 1..Len(s) : (s \o t)[i] = s[i]
         /\ \A i \in 1..Len(t) : (s \o t)[Len(s) + i] = t[i]
  OBVIOUS

LEMMA PollWindow ==
  ASSUME TypeOK, Window, Poll
  PROVE  Window'
<1> DEFINE rows == log[source.job]
           new == [i \in 1..(Len(rows) - stream.seq) |-> stream.seq + i]
<1>1. /\ stream.on /\ source.status = "open" /\ source.job \in Jobs /\ stream.seq \in Nat
      /\ UNCHANGED <<log, submitting, listed, source>>
  BY DEF Poll, Window, PageType, Connection, NoStream, vars
<1>2. rows \in Seq(EventKinds) /\ Len(rows) \in Nat
  BY <1>1 DEF TypeOK
<1>3. /\ stream.seq = source.last + Len(frames) /\ stream.seq <= Len(rows)
      /\ Len(frames) \in Nat /\ source.last \in Nat /\ frames \in Seq(Nat)
      /\ \A i \in 1..Len(frames) : frames[i] = source.last + i
  BY <1>1, DistinctAssumption DEF Window, PageType, DeliveredInOrder
<1>4. /\ frames' = frames \o new
      /\ stream' = [on |-> new # <<>> \/ state[source.job] \notin TerminalStates, seq |-> Len(rows)]
  BY DEF Poll
<1> DEFINE n == Len(rows) - stream.seq
<1>5. n \in Nat
  BY <1>1, <1>2, <1>3
<1>6. new \in Seq(Nat) /\ Len(new) = n /\ \A i \in 1..n : new[i] = stream.seq + i
  BY <1>1, <1>5
<1> HIDE DEF new, n
<1>7. /\ frames' \in Seq(Nat) /\ Len(frames') = Len(frames) + n
      /\ DOMAIN frames' = 1..Len(frames) + n
      /\ \A i \in 1..Len(frames) : frames'[i] = frames[i]
      /\ \A i \in 1..n : frames'[Len(frames) + i] = new[i]
  BY <1>3, <1>4, <1>6, Concatenated
<1>8. \A i \in DOMAIN frames' : frames'[i] = source.last + i
  <2> TAKE i \in DOMAIN frames'
  <2>1. CASE i \in 1..Len(frames)
    BY <1>3, <1>7, <2>1
  <2>2. CASE i \notin 1..Len(frames)
    <3>1. i - Len(frames) \in 1..n /\ i = Len(frames) + (i - Len(frames))
      BY <1>3, <1>5, <1>7, <2>2
    <3>2. frames'[i] = stream.seq + (i - Len(frames))
      BY <1>6, <1>7, <3>1
    <3> QED
      BY <1>3, <1>5, <1>7, <3>1, <3>2
  <2> QED
    BY <2>1, <2>2
<1>9. Len(rows) = source.last + Len(frames')
  <2>1. n = Len(rows) - stream.seq
    BY DEF n
  <2>2. Len(frames') = Len(frames) + n /\ stream.seq = source.last + Len(frames)
    BY <1>3, <1>7
  <2>3. Len(rows) \in Nat /\ stream.seq \in Nat /\ source.last \in Nat /\ Len(frames) \in Nat
    BY <1>1, <1>2, <1>3
  <2>4. Len(rows) = stream.seq + n
    BY <2>1, <2>3
  <2>5. stream.seq + n = source.last + (Len(frames) + n)
    BY <1>5, <2>2, <2>3
  <2> QED
    BY <2>2, <2>4, <2>5
<1>10. DeliveredInOrder'
  BY <1>1, <1>2, <1>4, <1>8, <1>9 DEF DeliveredInOrder
<1> QED
  BY <1>1, <1>2, <1>4, <1>7, <1>10, DistinctAssumption
  DEF Window, PageType, Connection, FinishedIsTerminal

LEMMA ServiceWindow ==
  ASSUME TypeOK, TypeOK', Window, Onward, Service
  PROVE  Window'
<1>1. CASE UNCHANGED pageVars
  BY <1>1, PageStays DEF pageVars
<1>2. CASE Gone
  BY <1>2, BrokenWindow DEF Gone
<1> QED
  BY <1>1, <1>2 DEF Service

LEMMA WindowStep ==
  ASSUME TypeOK, TypeOK', LogIsTrue, Window, Onward, [StreamNext]_streamVars
  PROVE  Window'
<1>0. /\ submitting \in Jobs \cup {NoJob} /\ listed \in Jobs \cup {NoJob}
      /\ ActiveJob \in Jobs \cup {NoJob} /\ NoJob \notin Jobs
  BY ActiveJobIsJob, DistinctAssumption DEF Window, PageType
<1>1. CASE Service
  BY <1>1, ServiceWindow
<1>2. ASSUME NEW j \in Jobs, Submit(j) PROVE Window'
  <2>1. submitting' \in Jobs \cup {NoJob} /\ UNCHANGED <<listed, source, stream, frames>>
    BY <1>2 DEF Submit
  <2>2. CASE submitting' = submitting
    BY <2>1, <2>2, PageStays
  <2>3. PageType' /\ Connection'
    BY <2>1 DEF Window, PageType, Connection
  <2>4. DeliveredInOrder' /\ FinishedIsTerminal'
    <3>1. log' = log
      BY <1>2 DEF Submit, Send
    <3> QED
      BY <2>1, <3>1 DEF Window, PageType, Onward, DeliveredInOrder, FinishedIsTerminal
  <2> QED
    BY <2>3, <2>4 DEF Window
<1>3. CASE Submitted
  <2>1. /\ submitting \in Jobs /\ Disconnected
        /\ source' = [job |-> submitting, status |-> "connecting", last |-> 0]
        /\ submitting' = NoJob /\ listed' = listed
    BY <1>0, <1>3 DEF Submitted, Streams
  <2> QED
    BY <1>0, <2>1, FreshWindow
<1>4. CASE SubmitFails
  <2>1. submitting' = NoJob /\ UNCHANGED <<state, log, listed, source, stream, frames>>
    BY <1>4 DEF SubmitFails, vars
  <2> QED
    BY <2>1 DEF Window, PageType, Connection, DeliveredInOrder, FinishedIsTerminal
<1>5. CASE Connect
  BY <1>5, ConnectWindow
<1>6. CASE Refused
  BY <1>6, RefusedWindow
<1>7. CASE Receive
  BY <1>7, ReceiveWindow
<1>8. CASE Reconnect
  <2>1. /\ source'.status = "connecting" /\ source'.job = source.job /\ source'.last = source.last
        /\ source' \in [job : Jobs \cup {NoJob}, last : Nat,
                        status : {"connecting", "open", "closed", "failed"}]
        /\ source.job # NoJob /\ ~stream.on /\ frames = <<>>
        /\ UNCHANGED <<state, log, submitting, listed, stream, frames>>
    BY <1>8 DEF Reconnect, Window, PageType, Connection, vars
  <2> QED
    BY <2>1 DEF Window, PageType, Connection, DeliveredInOrder, FinishedIsTerminal
<1>9. CASE Drop
  BY <1>9, BrokenWindow DEF Drop
<1>10. CASE Select
  <2>1. CASE listed = NoJob
    <3>1. listed' \in Jobs \cup {NoJob} /\ UNCHANGED <<state, log, submitting, source, stream, frames>>
      BY <1>0, <1>10, <2>1 DEF Select, vars
    <3> QED
      BY <3>1 DEF Window, PageType, Connection, DeliveredInOrder, FinishedIsTerminal
  <2>2. CASE listed # NoJob
    <3>1. /\ listed \in Jobs /\ Disconnected /\ listed' = ActiveJob /\ submitting' = submitting
          /\ source' = [job |-> listed, status |-> "connecting", last |-> 0]
      BY <1>0, <1>10, <2>2 DEF Select, Streams
    <3> QED
      BY <1>0, <3>1, FreshWindow
  <2> QED
    BY <2>1, <2>2
<1>11. CASE Reload
  <2>1. /\ submitting' = NoJob /\ listed' = ActiveJob /\ Disconnected
        /\ \/ source' = NoSource
           \/ /\ ActiveJob \in Jobs
              /\ source' = [job |-> ActiveJob, status |-> "connecting", last |-> 0]
    BY <1>0, <1>11 DEF Reload, Streams
  <2> QED
    BY <1>0, <2>1, FreshWindow
<1>12. CASE Poll
  BY <1>12, PollWindow
<1>13. CASE UNCHANGED streamVars
  BY <1>13, PageStays DEF streamVars, pageVars
<1> QED
  BY <1>1, <1>2, <1>3, <1>4, <1>5, <1>6, <1>7, <1>8, <1>9, <1>10, <1>11, <1>12, <1>13
  DEF StreamNext, Page

LEMMA WindowInit == StreamInit => Window
<1> SUFFICES ASSUME StreamInit PROVE Window
  OBVIOUS
<1>1. frames = <<>> /\ frames \in Seq(Nat) /\ Len(frames) = 0 /\ DOMAIN frames = {}
  BY DEF StreamInit
<1> QED
  BY <1>1 DEF StreamInit, NoSource, NoStream, Window, PageType, Connection,
     DeliveredInOrder, FinishedIsTerminal

\* Whatever pages and streams do, the scheduler takes only steps of its own.
THEOREM StreamIsScheduler == StreamSpec => Spec
<1>1. StreamInit => Init
  BY DEF StreamInit
<1>2. [StreamNext]_streamVars => [Next]_vars
  BY StreamOnlyLooks DEF streamVars
<1> QED
  BY <1>1, <1>2, PTL DEF StreamSpec, Spec

LEMMA WindowAlways == StreamSpec => []Window
<1>1. /\ TypeOK /\ Work /\ Schedule /\ Logs /\ Window
      /\ TypeOK' /\ [Next]_vars /\ [StreamNext]_streamVars
      => Window'
  <2>1. TypeOK /\ Work /\ Schedule /\ [Next]_vars => Onward
    BY StepOnward DEF Schedule
  <2> QED
    BY <2>1, WindowStep DEF Logs
<1>2. StreamSpec => Spec
  BY StreamIsScheduler
<1> QED
  BY <1>1, <1>2, WindowInit, TypeCorrect, WorkAlways, ScheduleAlways, PTL
  DEF StreamSpec, Spec

\* Between the rows and the page nothing is lost, repeated or out of order,
\* through broken connections, ends of the stream, restarts and every fault.
THEOREM Delivered == StreamSpec => []DeliveredInOrder
<1>1. Window => DeliveredInOrder
  BY DEF Window
<1> QED
  BY <1>1, WindowAlways, PTL

\* The page takes a job for finished only when it is, and it stays finished.
THEOREM Finished == StreamSpec => []FinishedIsTerminal
<1>1. Window => FinishedIsTerminal
  BY DEF Window
<1> QED
  BY <1>1, WindowAlways, PTL
=============================================================================
