---------------------------- MODULE SqliteWriter ----------------------------
(***************************************************************************)
(* One SQLite database (webapp/db.py), one event loop.  SQLite has one     *)
(* writer: a transaction becomes it at its first INSERT or UPDATE and      *)
(* stays it until it commits or rolls back; another one that wants to      *)
(* write waits in SQLite's busy handler for at most 30 s (db.py) and then  *)
(* raises "database is locked".                                            *)
(*                                                                         *)
(* The workers and the async handlers write on the loop's own thread, so   *)
(* while one of them waits in the busy handler the loop runs nobody else.  *)
(* create_user (webapp/admin.py) is an async handler that flushes its row  *)
(* and then awaits the Runner: it is the writer for as long as the Runner  *)
(* provisions, and needs the loop to stop being it.  The sync handlers     *)
(* (login and others) write from threads beside the loop and await nothing *)
(* in between.                                                             *)
(*                                                                         *)
(* Here only the writers are modelled: what a transaction writes is in     *)
(* JobManager, Accounts and Usage, where a transaction always succeeds.    *)
(***************************************************************************)
EXTENDS FiniteSets

CONSTANTS Workers,   \* JobManager.workers
          Creates,   \* calls of create_user in flight
          Threads,   \* sync handlers in flight
          Nothing

ASSUME ActorsDistinct ==
    /\ Workers \cap Creates = {} /\ Workers \cap Threads = {}
    /\ Creates \cap Threads = {}
    /\ Nothing \notin Workers \cup Creates \cup Threads

VARIABLES
    writer,     \* whose transaction holds SQLite's write lock
    blocking,   \* the task that waits in the busy handler on the loop
    work,       \* each _worker task
    create,     \* each create_user call
    thread      \* each sync handler

writerVars == <<writer, blocking, work, create, thread>>

WriterInit ==
    /\ writer = Nothing
    /\ blocking = Nothing
    /\ work = [w \in Workers |-> "idle"]
    /\ create = [c \in Creates |-> "new"]
    /\ thread = [t \in Threads |-> "idle"]

LoopIsFree == blocking = Nothing

\* SQLite's timeout.  A thread's transaction is over in milliseconds, so only
\* one that waits for the loop can outlast it.
Expires_Never == FALSE                                            \* mutant
Expires == writer \in Creates

-----------------------------------------------------------------------------
(* create_user.                                                            *)

\* db.flush: the INSERT needs the write lock.
Insert(c) ==
    /\ LoopIsFree
    /\ create[c] = "new"
    /\ blocking' = c
    /\ create' = [create EXCEPT ![c] = "flushing"]
    /\ UNCHANGED <<writer, work, thread>>

\* The row is in; the handler awaits the Runner with its transaction open.
Inserted(c) ==
    /\ blocking = c
    /\ writer = Nothing
    /\ writer' = c
    /\ blocking' = Nothing
    /\ create' = [create EXCEPT ![c] = "provisioning"]
    /\ UNCHANGED <<work, thread>>

\* "database is locked": get_db closes the session, the caller gets a 500.
InsertFails(c) ==
    /\ blocking = c
    /\ Expires
    /\ blocking' = Nothing
    /\ create' = [create EXCEPT ![c] = "returned"]
    /\ UNCHANGED <<writer, work, thread>>

\* The Runner's answer, or its 180 s are over; the task can be resumed.
Provisioned(c) ==
    /\ create[c] = "provisioning"
    /\ create' = [create EXCEPT ![c] = "answered"]
    /\ UNCHANGED <<writer, blocking, work, thread>>

\* The commit, or the rollback after a RunnerError.
Commit(c) ==
    /\ LoopIsFree
    /\ create[c] = "answered"
    /\ writer' = Nothing
    /\ create' = [create EXCEPT ![c] = "returned"]
    /\ UNCHANGED <<blocking, work, thread>>

-----------------------------------------------------------------------------
(* _worker, _execute and _fail.                                            *)

\* A claim, an event, a session id, the end: any write of _execute.
Write(w) ==
    /\ LoopIsFree
    /\ work[w] \in {"idle", "awaiting"}
    /\ blocking' = w
    /\ work' = [work EXCEPT ![w] = "writing"]
    /\ UNCHANGED <<writer, create, thread>>

\* It commits, and the worker awaits the Runner or its queue; or, after
\* _fail, its queue.
Committed(w) ==
    /\ blocking = w
    /\ writer = Nothing
    /\ blocking' = Nothing
    /\ \E pc \in IF work[w] = "failing" THEN {"idle"} ELSE {"idle", "awaiting"} :
          work' = [work EXCEPT ![w] = pc]
    /\ UNCHANGED <<writer, create, thread>>

\* It raises; _worker calls _fail, which writes before it awaits anything.
WriteFails(w) ==
    /\ blocking = w
    /\ work[w] = "writing"
    /\ Expires
    /\ work' = [work EXCEPT ![w] = "failing"]
    /\ UNCHANGED <<writer, blocking, create, thread>>

\* _fail raises too, inside the except clause: the task is over.
FailFails(w) ==
    /\ blocking = w
    /\ work[w] = "failing"
    /\ Expires
    /\ blocking' = Nothing
    /\ work' = [work EXCEPT ![w] = "ended"]
    /\ UNCHANGED <<writer, create, thread>>

-----------------------------------------------------------------------------
(* A sync handler, in a thread of its own.  One that waits in vain answers *)
(* with a 500 and changes nothing here.                                    *)

ThreadWrites(t) ==
    /\ thread[t] = "idle"
    /\ writer = Nothing
    /\ writer' = t
    /\ thread' = [thread EXCEPT ![t] = "writing"]
    /\ UNCHANGED <<blocking, work, create>>

ThreadCommits(t) ==
    /\ thread[t] = "writing"
    /\ writer' = Nothing
    /\ thread' = [thread EXCEPT ![t] = "idle"]
    /\ UNCHANGED <<blocking, work, create>>

-----------------------------------------------------------------------------
CreateStep(c) ==
    Insert(c) \/ Inserted(c) \/ InsertFails(c) \/ Provisioned(c) \/ Commit(c)
Waits(w) == Committed(w) \/ WriteFails(w) \/ FailFails(w)
WorkStep(w) == Write(w) \/ Waits(w)

WriterNext ==
    \/ \E c \in Creates : CreateStep(c)
    \/ \E w \in Workers : WorkStep(w)
    \/ \E t \in Threads : ThreadWrites(t) \/ ThreadCommits(t)

WriterSpec == WriterInit /\ [][WriterNext]_writerVars

-----------------------------------------------------------------------------
(***************************************************************************)
(* Fairness.  SQLite polls the lock for the task that waits, and a thread  *)
(* may take it in between (strong); threads run.  Nothing else is needed,  *)
(* and nothing makes the Runner answer or users ask.                       *)
(***************************************************************************)
Unblocks ==
    \/ \E c \in Creates : Inserted(c) \/ InsertFails(c)
    \/ \E w \in Workers : Waits(w)
WriterFairness ==
    /\ SF_writerVars(Unblocks)
    /\ \A t \in Threads : WF_writerVars(ThreadCommits(t))

WriterFairSpec == WriterSpec /\ WriterFairness

\* The workers stay at work as long as the process serves: what fails a job
\* does not end the worker that runs it (_worker catches every exception).
\* This is what docs/web/troubleshooting.md counts on when it says that there
\* are three workers and the fourth job waits; it does not hold, because the
\* write in _fail can fail for the same reason.
WorkersStay == \A w \in Workers : work[w] # "ended"

\* The loop is never blocked for good, although a task on it can wait for the
\* transaction of a create_user that needs the loop to commit: a deadlock that
\* only the busy timeout ends.
LoopGoesOn == []<>LoopIsFree
=============================================================================
