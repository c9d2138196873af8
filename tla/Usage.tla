------------------------------- MODULE Usage --------------------------------
(***************************************************************************)
(* daily_usage: what is counted and charged to a user by create_job        *)
(* (webapp/jobs.py) and by the DeepSeek proxy (webapp/deepseek_proxy.py),  *)
(* and replaced by a restore (deploy/scripts/restore_user_db.py).          *)
(*                                                                         *)
(* Jobs and accounts behave as JobLifecycle says.  A job's process calls   *)
(* the proxy with a token that names user and job; the proxy asks the      *)
(* database once whether the job runs, forwards the request, counts it     *)
(* when the provider answers, and adds the tokens when the answer's stream *)
(* is over, however it ends: on the day it is then, and even if the job    *)
(* has been stopped.  These writers are coroutines of one event loop and   *)
(* each commits before its next await: a row has one writer at a time.     *)
(*                                                                         *)
(* The provider says what a request used in pieces: the input with the     *)
(* first event of a stream, the output so far with later ones.             *)
(***************************************************************************)
EXTENDS Naturals, FiniteSets, FiniteSetsExt

CONSTANTS Users, Jobs, Owner, Nobody,
          Calls,       \* the proxy's requests in flight
          Days,        \* bound: days are 1..Days
          JobLimits,   \* what an administrator sets as daily_job_limit
          TokenLimit,  \* daily_token_limit
          MaxTokens,   \* bound: tokens of an input, and of an output
          MaxRequests  \* bound: requests of a user in a day

ASSUME UsageBounds == Days \in Nat \ {0} /\ MaxTokens \in Nat /\ TokenLimit \in Nat
ASSUME UsageOwners == Owner \in [Jobs -> Users] /\ Nobody \notin Users \cup Jobs
ASSUME JobsFinite == IsFiniteSet(Jobs)

VARIABLES
    jobState, userActive,  \* jobs.state, users.is_active
    created,   \* jobs.created_at: its quota day, 0 while there is no row
    usage,     \* daily_usage: usage[u][d], all 0 while there is no row
    limit,     \* users.daily_job_limit
    today,     \* quota_day()
    served,    \* whether the Web process is up
    proxied,   \* the proxy's requests
    snapshot   \* the three tables in the backup

usageVars == <<jobState, userActive, created, usage, limit, today, served,
               proxied, snapshot>>

Life == INSTANCE JobLifecycle WITH state <- jobState, active <- userActive

NoUsage == [u \in Users |-> [d \in 1..Days |->
              [jobs |-> 0, requests |-> 0, tokens |-> 0]]]
Zero == [in |-> 0, out |-> 0]
NoProxied == [pc |-> "idle", job |-> Nobody, used |-> Zero, seen |-> Zero]
Tables == [jobState |-> jobState, created |-> created, usage |-> usage]

UsageInit ==
    /\ Life!Init
    /\ created = [j \in Jobs |-> 0]
    /\ usage = NoUsage
    /\ limit \in [Users -> JobLimits]
    /\ today = 1
    /\ served = TRUE
    /\ proxied = [r \in Calls |-> NoProxied]
    /\ snapshot = Tables

\* The row of the day, made when it is missing (create_job; ON CONFLICT DO
\* UPDATE in the proxy).
Added(u, column, n) == usage' = [usage EXCEPT ![u][today][column] = @ + n]

-----------------------------------------------------------------------------
(* Jobs.                                                                   *)

\* create_job: within the day's quota, a job and its count, in one commit.
CreateJob_Later(j) ==  \* mutant: counted when the job begins
    /\ served
    /\ usage[Owner[j]][today].jobs < limit[Owner[j]]
    /\ usage[Owner[j]][today].tokens < TokenLimit
    /\ Life!Submit(j)
    /\ created' = [created EXCEPT ![j] = today]
    /\ UNCHANGED <<usage, limit, today, served, proxied, snapshot>>
CreateJob(j) ==
    /\ served
    /\ usage[Owner[j]][today].jobs < limit[Owner[j]]
    /\ usage[Owner[j]][today].tokens < TokenLimit
    /\ Life!Submit(j)
    /\ Added(Owner[j], "jobs", 1)
    /\ created' = [created EXCEPT ![j] = today]
    /\ UNCHANGED <<limit, today, served, proxied, snapshot>>

\* What else the scheduler does with jobs and accounts, as JobLifecycle has it.
\* (That a job ends as failed makes no difference here.)
JobMoves ==
    /\ served
    /\ \/ \E j \in Jobs : Life!Begin(j) \/ Life!Cancel(j)
       \/ \E j \in Jobs : Life!End(j, "completed")
       \/ \E u \in Users, on \in BOOLEAN : Life!SetActive(u, on)
    /\ UNCHANGED <<created, usage, limit, today, served, proxied, snapshot>>

UpdateQuota(u, n) ==
    /\ served
    /\ limit' = [limit EXCEPT ![u] = n]
    /\ UNCHANGED <<jobState, userActive, created, usage, today, served, proxied,
                   snapshot>>

-----------------------------------------------------------------------------
(* The proxy.                                                              *)

Turns(r, value) ==
    /\ served
    /\ proxied' = [proxied EXCEPT ![r] = value]
    /\ UNCHANGED <<jobState, userActive, created, limit, today, served, snapshot>>

\* _authorize: the token's job runs and its user is active.
Authorize(r, j) ==
    /\ proxied[r] = NoProxied
    /\ jobState[j] = "running" /\ userActive[Owner[j]]
    /\ usage[Owner[j]][today].requests < MaxRequests
    /\ Turns(r, [NoProxied EXCEPT !.pc = "sent", !.job = j])
    /\ UNCHANGED usage

\* The body is refused, or the provider cannot be reached: nothing is counted.
Refuse(r) ==
    /\ proxied[r].pc = "sent"
    /\ Turns(r, NoProxied)
    /\ UNCHANGED usage

\* The provider answers a request with an input of n tokens (_record_request).
Answered(r, n) ==
    /\ proxied[r].pc = "sent"
    /\ Added(Owner[proxied[r].job], "requests", 1)
    /\ Turns(r, [proxied[r] EXCEPT !.pc = "answered", !.used.in = n])

\* stream: the largest of what the lines said so far, input and output apart.
Seen_Summed(seen, line) == [c \in DOMAIN Zero |-> seen[c] + line[c]]  \* mutant
Seen(seen, line) == [c \in DOMAIN Zero |-> Max({seen[c], line[c]})]

\* A line of the stream.  The first one says what the input was; a later one
\* has more output and says nothing of it, or says how much there was, with or
\* without the input; the last one does.
Line(r) ==
    LET q == proxied[r] IN
    /\ \/ /\ q.pc = "answered"
          /\ Turns(r, [q EXCEPT !.pc = "streaming",
                                !.seen = Seen(@, [q.used EXCEPT !.out = 0])])
       \/ /\ q.pc = "streaming" /\ q.used.out < MaxTokens
          /\ Turns(r, [q EXCEPT !.used.out = @ + 1])
       \/ /\ q.pc = "streaming"
          /\ \E in \in {0, q.used.in}, pc \in {"streaming", "ended"} :
               Turns(r, [q EXCEPT !.pc = pc,
                                  !.seen = Seen(@, [in |-> in, out |-> q.used.out])])
    /\ UNCHANGED usage

\* The stream's finally, after the last line, or because the client is gone, the
\* job was stopped or the provider broke off (_record_tokens).
Record(r) ==
    /\ proxied[r].pc \in {"answered", "streaming", "ended"}
    /\ Added(Owner[proxied[r].job], "tokens", proxied[r].seen.in + proxied[r].seen.out)
    /\ Turns(r, NoProxied)

-----------------------------------------------------------------------------
(* Days, the process, the backup.                                          *)

NewDay ==
    /\ today < Days
    /\ today' = today + 1
    /\ UNCHANGED <<jobState, userActive, created, usage, limit, served, proxied,
                   snapshot>>

\* The Web process ends with its requests; when it starts the running jobs are
\* interrupted.
WebStops ==
    /\ served
    /\ served' = FALSE
    /\ proxied' = [r \in Calls |-> NoProxied]
    /\ UNCHANGED <<jobState, userActive, created, usage, limit, today, snapshot>>
WebStarts ==
    /\ ~served
    /\ served' = TRUE
    /\ Life!Restart
    /\ UNCHANGED <<created, usage, limit, today, proxied, snapshot>>

\* A backup of the database, which SQLite makes of one committed state.  (Bound:
\* one, after which a day or a restore can make the tables anything.)
TakeSnapshot ==
    /\ snapshot.usage = NoUsage /\ Tables # snapshot
    /\ snapshot' = Tables
    /\ UNCHANGED <<jobState, userActive, created, usage, limit, today, served,
                   proxied>>

\* A job that was active in the snapshot is restored as interrupted.
RestoredState_AsItWas(s) == s  \* mutant
RestoredState(s) == IF s \in {"queued", "running"} THEN "interrupted" ELSE s

\* restore_user_db, with the services stopped, of an inactive user: the user's
\* rows are the snapshot's, in one transaction; is_active and the limits stay.
RestoreUser(u) ==
    LET mine(f, g) == [j \in Jobs |-> IF Owner[j] = u THEN g[j] ELSE f[j]] IN
    /\ ~served /\ ~userActive[u]
    /\ jobState' = mine(jobState, [j \in Jobs |-> RestoredState(snapshot.jobState[j])])
    /\ created' = mine(created, snapshot.created)
    /\ usage' = [usage EXCEPT ![u] = snapshot.usage[u]]
    /\ UNCHANGED <<userActive, limit, today, served, proxied, snapshot>>

UsageNext ==
    \/ \E j \in Jobs : CreateJob(j)
    \/ JobMoves
    \/ \E u \in Users, n \in JobLimits : UpdateQuota(u, n)
    \/ \E r \in Calls :
         \/ \E j \in Jobs : Authorize(r, j)
         \/ Refuse(r)
         \/ \E n \in 0..MaxTokens : Answered(r, n)
         \/ Line(r)
         \/ Record(r)
    \/ NewDay
    \/ WebStops \/ WebStarts
    \/ TakeSnapshot
    \/ \E u \in Users : RestoreUser(u)

UsageSpec == UsageInit /\ [][UsageNext]_usageVars
-----------------------------------------------------------------------------
(* Properties.                                                             *)

\* What create_job limits is what the table of jobs says: a day's count is the
\* number of the user's jobs of that day, over midnight, a crash, and a restore
\* that replaces both (usage.jobs += 1; restore_user_db.py).
JobsCounted ==
    \A u \in Users, d \in 1..Days :
        usage[u][d].jobs = Cardinality({j \in Jobs : Owner[j] = u /\ created[j] = d})

\* An inactive user has nothing queued or running, even after a restore of a
\* snapshot in which they had: start would queue them again, and _execute
\* would fail them (jobs.py:330), or run them if the user is enabled by then.
RestoredIsIdle == \A u \in Users : ~userActive[u] => Life!Idle(u)

\* The users' accounts: what the proxy counts in a row.
Account(table) == [u \in Users |-> [d \in 1..Days |->
    [requests |-> table[u][d].requests, tokens |-> table[u][d].tokens]]]

\* What the provider is answering for a row of the proxy.
Answering(q) ==
    IF q.pc \in {"idle", "sent"} THEN [user |-> Nobody, used |-> 0, whole |-> FALSE]
    ELSE [user |-> Owner[q.job], used |-> q.used.in + q.used.out, whole |-> q.pc = "ended"]

\* Every answered request is counted once, on that day, and charged once, on the
\* day its stream is over, to the user whose job sent it; never above what the
\* provider counted and exactly that when the stream ended properly, whatever
\* happens to the job, the process and other users' rows meanwhile
\* (_record_request, _record_tokens, stream).
Meter == INSTANCE Metering WITH
    day <- today,
    Most <- 2 * MaxTokens,
    charged <- Account(usage),
    saved <- Account(snapshot.usage),
    open <- [r \in Calls |-> Answering(proxied[r])]
ImplementsMetering == Meter!Spec
=============================================================================
