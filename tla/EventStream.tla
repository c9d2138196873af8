----------------------------- MODULE EventStream -----------------------------
(***************************************************************************)
(* How the events of a job reach the page: event_stream (webapp/jobs.py),  *)
(* job_events (webapp/chats.py) and sendPrompt, streamJob and selectChat   *)
(* (webapp/static/app.js), over the rows JobManager writes.  One window of *)
(* one user with one chat; other windows send and stop, too.               *)
(*                                                                         *)
(* A job's row number i has seq i (_event takes the maximum plus one).     *)
(* EventSource is the browser's: it remembers the id of the last frame,    *)
(* connects again when a stream ends or breaks and sends that id, but      *)
(* gives up for good on an answer other than 200, which is what the proxy  *)
(* in front sends while the Web process is not there.                      *)
(***************************************************************************)
EXTENDS JobManager

CONSTANTS Viewer,    \* the user at the page
          MaxDrops   \* bound: broken connections

VARIABLES
    currentJob,  \* the job the page waits for; the composer is locked with it
    submitting,  \* the job of a message that is on its way, or NoJob
    listed,      \* active_job_id in the list of chats the page loaded last
    source,      \* its EventSource: job, status and the last frame's id
    stream,      \* event_stream at the other end: running or not, its sequence
    frames,      \* the seq of each frame sent and not yet received
    drops

pageVars == <<currentJob, submitting, listed, source, stream, frames, drops>>
streamVars == <<vars, pageVars>>

NoSource == [job |-> NoJob, status |-> "closed", last |-> 0]
NoStream == [on |-> FALSE, seq |-> 0]

StreamInit ==
    /\ Init
    /\ currentJob = NoJob
    /\ submitting = NoJob
    /\ listed = NoJob
    /\ source = NoSource
    /\ stream = NoStream
    /\ frames = <<>>
    /\ drops = 0

\* What list_chats answers: the active job of the user's chat.
ActiveJob == IF ActiveJobs(Viewer) = {} THEN NoJob
             ELSE CHOOSE j \in ActiveJobs(Viewer) : TRUE

\* The connection is gone, with what was on it.
Disconnected == stream' = NoStream /\ frames' = <<>>

-----------------------------------------------------------------------------
(* The page.                                                               *)

\* streamJob: a new EventSource replaces the old one.
Streams(j) ==
    /\ source' = [job |-> j, status |-> "connecting", last |-> 0]
    /\ Disconnected

\* sendPrompt: nothing is sent while a job is awaited or a message under way.
Submit(j) ==
    /\ currentJob = NoJob /\ submitting = NoJob
    /\ Owner[j] = Viewer
    /\ Send(j)
    /\ submitting' = j
    /\ UNCHANGED <<currentJob, listed, source, stream, frames, drops>>

\* The answer carries the job's id, or does not arrive.
Submitted ==
    /\ submitting # NoJob
    /\ web = "up"
    /\ submitting' = NoJob
    /\ currentJob' = submitting
    /\ Streams(submitting)
    /\ UNCHANGED <<vars, listed, drops>>

SubmitFails ==
    /\ submitting # NoJob
    /\ \/ web # "up" /\ UNCHANGED drops
       \/ drops < MaxDrops /\ drops' = drops + 1
    /\ submitting' = NoJob
    /\ UNCHANGED <<vars, currentJob, listed, source, stream, frames>>

\* The EventSource connects (job_events takes over the id it was sent); or the
\* proxy answers for a Web process that does not.
Connect_FromStart ==  \* mutant: the id of the last frame is not looked at
    /\ source.status = "connecting"
    /\ web = "up" /\ loop = NoTask
    /\ source' = [source EXCEPT !.status = "open"]
    /\ stream' = [on |-> TRUE, seq |-> 0]
    /\ UNCHANGED <<vars, currentJob, submitting, listed, frames, drops>>
Connect ==
    /\ source.status = "connecting"
    /\ web = "up" /\ loop = NoTask
    /\ source' = [source EXCEPT !.status = "open"]
    /\ stream' = [on |-> TRUE, seq |-> source.last]
    /\ UNCHANGED <<vars, currentJob, submitting, listed, frames, drops>>

Refused ==
    /\ source.status = "connecting"
    /\ web # "up"
    /\ source' = [source EXCEPT !.status = "failed"]
    /\ UNCHANGED <<vars, currentJob, submitting, listed, stream, frames, drops>>

\* Which events end the page's wait.
Ends_Status(kind) == kind \notin {"output", "artifact"}  \* mutant
Ends(kind) == kind \in {"done", "error"}

\* A frame arrives.  After an ending one the source is closed, the composer
\* unlocked and the list of chats loaded again.
Receive ==
    /\ source.status = "open"
    /\ frames # <<>>
    /\ IF Ends(log[source.job][Head(frames)])
       THEN /\ source' = [source EXCEPT !.status = "closed", !.last = Head(frames)]
            /\ currentJob' = NoJob
            /\ listed' \in {listed, ActiveJob}
            /\ Disconnected
       ELSE /\ source' = [source EXCEPT !.last = Head(frames)]
            /\ frames' = Tail(frames)
            /\ UNCHANGED <<currentJob, listed, stream>>
    /\ UNCHANGED <<vars, submitting, drops>>

\* The stream is at its end: the EventSource connects again.
Reconnect_Never == FALSE  \* mutant: waits at a stream that has ended
Reconnect ==
    /\ source.status = "open"
    /\ ~stream.on /\ frames = <<>>
    /\ source' = [source EXCEPT !.status = "connecting"]
    /\ UNCHANGED <<vars, currentJob, submitting, listed, stream, frames, drops>>

\* The network breaks the connection.
Drop ==
    /\ source.status = "open"
    /\ drops < MaxDrops
    /\ drops' = drops + 1
    /\ source' = [source EXCEPT !.status = "connecting"]
    /\ Disconnected
    /\ UNCHANGED <<vars, currentJob, submitting, listed>>

\* selectChat on the page's own chat: the awaited job becomes the listed one,
\* however old the list; the list is loaded again at the end.
Select ==
    /\ web = "up" /\ submitting = NoJob
    /\ currentJob' = listed
    /\ listed' = ActiveJob
    /\ IF listed # NoJob THEN Streams(listed)
                         ELSE UNCHANGED <<source, stream, frames>>
    /\ UNCHANGED <<vars, submitting, drops>>

\* The page is loaded again: a fresh list, and its chat is selected.
Reload ==
    /\ web = "up"
    /\ submitting' = NoJob
    /\ listed' = ActiveJob
    /\ currentJob' = ActiveJob
    /\ IF ActiveJob # NoJob THEN Streams(ActiveJob)
                            ELSE source' = NoSource /\ Disconnected
    /\ UNCHANGED <<vars, drops>>

-----------------------------------------------------------------------------
(* event_stream.                                                           *)

\* One turn of its loop: the rows after `sequence` and the state, read in one
\* transaction, are sent; it returns on a terminal state with nothing to send.
Poll ==
    /\ stream.on
    /\ Serving /\ loop = NoTask
    /\ LET rows == log[source.job]
           new == [i \in 1..(Len(rows) - stream.seq) |-> stream.seq + i]
       IN  /\ frames' = frames \o new
           /\ stream' = [on |-> new # <<>> \/ state[source.job] \notin TerminalStates,
                         seq |-> Len(rows)]
    /\ UNCHANGED <<vars, currentJob, submitting, listed, source, drops>>

-----------------------------------------------------------------------------
(* The service.                                                            *)

\* The process ends, and with it the connection.
Gone ==
    /\ Disconnected
    /\ source' = IF source.status = "open" THEN [source EXCEPT !.status = "connecting"]
                                           ELSE source
    /\ UNCHANGED <<currentJob, submitting, listed, drops>>

\* A shutdown waits for open streams, which end when their job has.
Service ==
    \/ /\ \/ StartStep
          \/ CloseBegin /\ ~stream.on
          \/ \E j \in Jobs : Send(j) \/ CloseReply(j)
          \/ \E w \in Workers : WorkerStep(w)
          \/ \E c \in Callers : CallStep(c) \/ Arrive(c)
       /\ UNCHANGED pageVars
    \/ (Crash \/ CloseEnd) /\ Gone

Page == Submitted \/ SubmitFails \/ Connect \/ Refused \/ Receive \/ Reconnect

StreamNext ==
    \/ Service
    \/ \E j \in Jobs : Submit(j)
    \/ Page
    \/ Drop
    \/ Select
    \/ Reload
    \/ Poll

StreamSpec == StreamInit /\ [][StreamNext]_streamVars

\* The scheduler's fairness; the browser does what it is due, and the loop
\* serves a stream that polls every half second.  Nobody has to click.
StreamFairSpec ==
    /\ StreamSpec
    /\ Fairness
    /\ WF_streamVars(Submitted \/ SubmitFails)
    /\ WF_streamVars(Receive)
    /\ WF_streamVars(Reconnect)
    /\ SF_streamVars(Connect \/ Refused)
    /\ SF_streamVars(Poll)
-----------------------------------------------------------------------------
(* Properties.                                                             *)

\* Nothing is lost, repeated or out of order between the rows and the page,
\* through broken connections, ends of the stream and restarts: what is on its
\* way continues what was received, and the generator continues both.
DeliveredInOrder ==
    /\ \A i \in DOMAIN frames : frames[i] = source.last + i
    /\ stream.on => stream.seq = source.last + Len(frames)
    /\ source.job # NoJob => source.last + Len(frames) <= Len(log[source.job])

\* The page takes a job for finished only when it is.
FinishedIsTerminal ==
    source.job # NoJob /\ source.status = "closed" => state[source.job] \in TerminalStates

\* Every event of a job a page watches reaches it, the last ones included:
\* those are committed after the state that makes event_stream return.
EventsArrive ==
    \A j \in Jobs :
        source.job = j /\ source.last < Len(log[j])
            ~> \/ source.job # j
               \/ source.last = Len(log[j])
               \/ source.status \in {"failed", "closed"}

\* When the job a page waits for has ended the page stops waiting, so that the
\* user can go on ("wait for the current task to end", newChat).
WaitEnds ==
    \A j \in Jobs :
        currentJob = j /\ state[j] \in TerminalStates ~> currentJob # j
=============================================================================
