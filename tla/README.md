# A TLA+ model of the job-hunting Web service

The repository is a template workspace for a job search that Claude Code works
in, and a small multi-user Web service around it: a FastAPI process that keeps
accounts, chats and a job queue in SQLite, and a privileged Runner that starts
one transient systemd unit per job in the Linux account of its user. This
directory holds TLA+ modules of the service's core, the TLC configurations that
check them, and theorems about them with proofs checked by TLAPS.

Contents: [the system](#1-the-system), [the modules](#2-the-modules),
[the correspondence with the code](#3-state-and-actions),
[runs](#4-runs), [fairness](#5-fairness), [proofs](#6-proofs),
[findings](#7-findings), [not modelled](#8-what-is-not-modelled),
[plan](#9-plan).

## 1. The system

| Component | State it keeps | Operations | What makes it correct |
|---|---|---|---|
| Job scheduler (`webapp/jobs.py`, `chats.py`) | `jobs`, `job_events` rows; in memory: queue, worker tasks, one `asyncio.Lock` per user | `create_job`, `submit`, `start`, `close`, `stop`, `_worker`, `_execute`, `_fail` | one active job per user; queued jobs are neither forgotten nor run twice; what has ended stays ended, and as it ended but for one case (findings); the event log tells the truth; every job ends |
| Administration (`admin.py`) | `users` rows | create, disable, enable, reset password, quota, template upgrade, stop | an inactive user has nothing at work; database and Runner agree on who is enabled |
| Runner: runs (`runner_server.py` `_run`, `_stop`, `_disable`, `_enable`; `runner_client.py`) | `registry.json`; in memory: `active_units`, `cancelled_jobs`; the transient units | run, stop, disable, enable | no unit without a handler that watches it, unless systemd is stopping it; a stopped job does not start; the exit that is reported is the one that happened; one unit per user |
| Runner: workspaces (`_provision`, `_upgrade`, `_file_import`, ...) | Linux accounts, directories, Git repositories | provision, upgrade, import, list, read | all or nothing; the user's own files survive; an upgrade commits its own |
| Event stream (`event_stream`, `static/app.js` `streamJob`) | the last `seq` seen | replay, follow, reconnect | every event once, in order; the page learns of the end |
| Files and uploads (`files.py`, `file_extract.py`) | `files` rows, staging directory | upload, preview, download | quota respected; rows and workspace agree |
| Authentication (`auth.py`, `dependencies.py`, `security.py`, `cli.py`) | `web_sessions`, `login_attempts`, `users.password_hash` | login, logout, change password, bootstrap | the failure limit is exceeded only by logins that run at once (finding 5); old sessions die with the password or the account |
| DeepSeek proxy (`deepseek_proxy.py`) | `daily_usage` rows | authorize, forward, record | each answered request is counted once and charged once, to the right user and day |
| Stream parser (`stream_parser.py`) | whether text was already streamed | `feed` | each text is shown once and in order |
| Database (`db.py`, `models.py`) | SQLite in WAL mode, one writer at a time | transactions | a writer that waits neither blocks the loop for good nor ends a worker |
| Backup and restore (`deploy/scripts`) | a copy of the database | `restore_user_db.py` | one user's rows replaced, nobody else's touched; counts fit the jobs; nothing is left to run |
| Shell (`main.py`, `audit.py`, `config.py`) | - | lifespan, audit | start before serving, close after the last request |
| Job-search tools (`build_dashboard.py`, `build_career_tree.py`, `build_resumes.py`, `resume_lint.py`, `check_links.py`) | files of the workspace; the live pages | command-line, `--serve`, `--watch` | findings are those of the rules; a live page follows the data |

**How they interact.** A message (`POST /chats/{id}/messages`) creates a job row
under the user's lock and puts its id on the queue. A worker takes the id, waits
for the same lock, marks the job running, lists the workspace through the
Runner, streams the run, lists the workspace again and writes events on the
way. Stopping a job or disabling a user changes rows first and then asks the
Runner to stop the unit, holding the user's lock. Uploads and template upgrades
hold that lock too and refuse to work beside an active job. The browser only
reads rows. The Runner learns that nobody listens by writing to a connection
that was closed. systemd stops every unit when either process ends (`BindsTo`).
A job's process calls the proxy, which asks for the job's state once and writes
to the usage row that `create_job` reads. Sync handlers (logins, passwords, quota)
run in threads beside the loop, and all of them share SQLite's one write lock.

**What is hard.**

* A worker and a stop handler both write the job's row; the worker looks at it
  again after each await, and what it saw is stale after the next.
* Each row and each event is a transaction of its own: the process can die
  between any two.
* `disable_user` works in four steps (list, stop each, tell the Runner, commit)
  and only the lock makes them one.
* `systemd-run` is a process: between its fork and the start of the unit there
  is nothing to stop.
* A job and its unit do not end together: a unit works on until its next line of
  output tells the Runner that the Web has hung up.
* Four different things end a run's stream: the exit event, an error event, a
  closed connection, a reset one.
* Nothing but fairness of locks and queue makes a job end.
* Two sync handlers interleave between any two statements, each with a row it
  loaded before; a commit writes the columns that differ from that row.
* An async handler that awaits in the middle of a write transaction keeps every
  other writer out, and those on the loop wait with the loop.
* Usage arrives after the job, the day or the process that it belongs to.

The full list, each hazard at its line with the properties that watch it, is
in `PROJECT.json` under `hazards`.

## 2. The modules

| Module | What it is |
|---|---|
| `JobLifecycle` | The abstract promise: rows of jobs and accounts only. A user has at most one active job and none while inactive; queued jobs begin or are cancelled; what has ended stays; a restart interrupts all running jobs at once. |
| `JobManager` | The scheduler and the handlers that drive it, transaction by transaction. Instantiates `JobLifecycle`. |
| `MCJobManager` | Values of its constants for TLC: who owns which job, and the symmetry. |
| `JobManagerProofs` | The theorems about `JobManager`: the user's lock, and the refinement of `JobLifecycle`. |
| `JobScheduleProofs` | Those about its schedule and its logs. Extends `JobManagerProofs`. |
| `EventStream` | `JobManager` extended by one page: how the rows of a job's events reach the browser through `event_stream` and `EventSource`. |
| `MCEventStream` | Values of its constants. |
| `EventStreamProofs` | The theorems about `EventStream`. Extends `JobScheduleProofs`. |
| `RunnerServer` | The Runner's part in a run: registry, `active_units`, `cancelled_jobs`, one handler, one unit and one connection per job. |
| `MCRunnerServer` | Values of its constants. |
| `RunnerProofs` | The theorems about `RunnerServer`. |
| `JobSystem` | `JobManager` and `RunnerServer` joined by the socket: each answer or stream item that `JobManager` takes from a set is here what `RunnerServer` sent. |
| `MCJobSystem` | Values of its constants. |
| `JobSystemProofs` | The theorems about `JobSystem`. |
| `Workspaces` | What creating an account, uploading a file and upgrading the template do to the database, the Runner's registry and the workspace with its repository. |
| `MCWorkspaces` | Values of its constants. |
| `WorkspaceProofs` | The theorems about `Workspaces`. |
| `Accounts` | One account: logins, password changes, resets, disables, bootstrap, in threads that interleave; the failures and the sessions. |
| `Metering` | The abstract promise about usage: a request counted once, its use charged once, on the right day, to the right user. |
| `Usage` | `daily_usage` over `create_job`, the proxy, midnight, a crash and a restore. Uses `JobLifecycle` for jobs and accounts, instantiates `Metering`. |
| `UsageProofs` | The theorems about `Usage`. |
| `SqliteWriter` | SQLite's write lock, the loop and who waits for which. |
| `StreamParser` | The parser over streamed and whole messages. |
| `ResumeLint` | The linter's pass over a file against what its rules say. |
| `LiveView` | The two live previews: editor, builder, server, tab. |
| `ServicesProofs` | The theorems about `Accounts`, `StreamParser` and `ResumeLint`. |
| `MCServices` | The six modules above side by side for TLC, one of them at work in each behaviour. |

`JobManager` sees the Runner only through what its calls return (`Replies`,
`StreamItems`, `StreamRaises`), chosen freely from what `Faults` allows. This
is what makes it provable without the Runner. Every step of `JobSystem` takes a
step of `JobManager` or leaves its variables alone, so that its safety results
carry over: the run `system_live` checks this (`ImplementsScheduler`) and
`JobSystemProofs!SystemIsScheduler` proves it.

Definitions with a suffix after an underscore and the comment *mutant*
(`DisableBegin_NoLock`) are plausible mistakes. None is part of a specification; each is
put in the place of the definition it is named after to see that a property
notices.

## 3. State and actions

`PROJECT.json` maps every definition to its lines. In outline:

**JobManager.** `state`, `log` and `active` are the database and survive a
crash; everything else is memory. asyncio runs one task until it awaits.
`loop` names the task that still has transactions to run before its next await;
while it is set no other task moves, but the process may be killed. An action
is one transaction, or one step without any.

| Code | Actions |
|---|---|
| `JobManager.start` | `StartScan` (one transaction: running becomes interrupted, queued are read), `StartNotify` per interrupted job, `StartEnqueue`, `StartServe` |
| `JobManager.close` | `CloseBegin` (reads the running jobs, one stop request each), `CloseReply`, `CloseEnd` (workers cancelled wherever they are) |
| kill, power loss | `Crash`, enabled between any two transactions |
| `send_message` + `create_job` + `submit` | `Send` (no await between the check under the lock and the queue) |
| `_worker`, `_execute` | `Dequeue`, `Claim`, `Announce`, `Listed`, `StreamItem`, `StreamRaises`, `StreamEnd`, `Compare`, `Done` |
| `_fail` | `Fail` (its transaction), `Report` (its event) |
| `JobManager.stop` via `stop_job`, `admin_stop_job` | `StopBegin`, `StopEvent`, `StopReply` |
| `disable_user` | `DisableLoad` (row loaded before the lock), `DisableBegin`, `DisableNext` per job, `DisableReply` |
| `enable_user` | `EnableLoad`, `EnableReply` (no lock; the row may be stale) |
| `upload_file`, `upgrade_template` | `MaintainBegin`, `MaintainReply` |

A lock is held in the model only across an await. `Claim` and `Send` take it and
give it back in one step. `DisableReply` writes `FALSE` only if the loaded row
said `TRUE`: SQLAlchemy issues no `UPDATE` for an attribute that is set to the
value it was loaded with.

**RunnerServer.** `RunBegin` is `_run` up to its first await, `RunSpawn` the
fork of `systemd-run` with the check of `cancelled_jobs` after it, `RunOutput`,
`RunLimit`, `RunRaises`, `RunFinish` what a reading handler does; `Finally` is the
`finally` of `_run` on each of these ways out. `Stop`, `Disable` and `Enable` are single
steps because `systemctl` runs in a blocking subprocess on the Runner's only loop.
Each can fail where the code can: `SystemctlTimesOut` is the `TimeoutExpired` after 30
seconds, in `_stop` (`StopFails`) and in the `finally` of `_run`, whose rest is then skipped;
`SaveFails` is a `registry.save` that raises in `_disable` or
`_enable` after the entry was changed. `unit[j] = "pending"` is the time between fork and
start of the unit, `"stopping"` the time systemd takes over a request to stop it;
`UnitStarts` and `UnitEnds` are systemd and Claude, `Unbound` is `BindsTo` when the Runner
or the Web is gone. `Disable` stops what is in
`active_units` and takes it out: a pending unit stays pending.

**JobSystem.** `SystemListed` sends the run request; `SystemStream` lets a
worker read the head of `wire[j]`, or the end of the stream when the handler is
over, and hangs up in the step in which the worker leaves the stream.
`SystemCall` sends the handlers' requests, `Serve` and `ServeClose` carry them
out or fail (`Carried`, `Failed`: the answers of the Runner's two outcomes), `RunnerCrash`
loses those not yet answered. `WebGone` closes every connection and sets systemd out to
stop every unit.

**EventStream.** One window of one user with one chat. `Submit`, `Submitted` and
`SubmitFails` are `sendPrompt`; `Connect` is `job_events` with the id the browser
sends, `Poll` one turn of `event_stream`; `Receive` is what `streamJob` does with a
frame; `Select` is `selectChat` on the page's own chat with the list it loaded
before, `Reload` the start of `app.js`. `listed' \in {listed, ActiveJob}` in
`Receive` is the reload of the list, which may fail. `CloseBegin` waits for open
streams: uvicorn drains them before the lifespan ends, and sets no limit.

**Workspaces.** Three stores: rows (`version`, `records`), the registry in memory
and on disk (`registry`, `saved`), the workspace (`work`, `head`, `place`,
`committed`, `report`). The contents of a file are the template version it came
from, or `Mine`. It stands beside `JobManager`, which knows an upload or upgrade
only as the holder of a lock (`MaintainBegin`); here a job is two flags: `active`, the job in the
database, and `unit`, what systemd was asked for and has not ended. They end apart: a
worker that fails a job, a stop and a disable end the job, while the unit goes on, or
comes up, until its next output. `astray` is a history variable: whether such a unit has
written since the upgrade under way looked at the working tree.

| Code | Actions |
|---|---|
| `create_user`, `upload_file`, `upgrade_template` | `Create`, `CreateReply`; `Upload`, `UploadReply`; `Upgrade`, `UpgradeReply`; `GiveUp` when 180 seconds are over and the Runner goes on |
| `_provision` | `ProvisionBegin` (account), `ProvisionFill` (template, first commit), `ProvisionRegister`; each may fail and undo |
| `_file_import` | `ImportBegin`, `ImportMove` per file, `ImportCommit`, `ImportUndo` |
| `_upgrade` | `UpgradeBegin`, `UpgradeStatus`, `UpgradeCopy` (`Conflict`, `Updated`, `Carried` are `template_files.upgrade_template`), `UpgradeCommit`, `UpgradeSave`; none undoes another |
| `_disable`, `_enable` | `Switch` (`Switched`: a unit may go on) |
| jobs in the database | `JobBegins`, `JobEnds` |
| units | `UnitBegins`, `UnitWrites`, `UnitCommits`, `UnitEnds` |
| kill, installation | `WebCrash`, `RunnerCrash`, `Deploy` |

`_provision` and `_file_import` call blocking programs only: while one of them is
half done no other handler of the Runner moves (`LoopFree`), but the process may
be killed. `_upgrade` runs git in threads under `registry.lock`: imports and, once
the caller has given up, jobs come in between. `Saved` and `Unsaved` are the two
outcomes of `registry.save` after the entry in memory was changed.

**Accounts.** `request[r]` is a handler in flight, with what it has loaded. A
password is the number of the change that set it; a session remembers the
password it was opened with. `Written` is SQLAlchemy's `UPDATE`: a column whose new
value equals the loaded one is not written.

| Code | Actions |
|---|---|
| `login` | `LoginBegin` (count of failures), `LoginVerify`, then `LoginFails` or `LoginOpens` |
| `logout`, end of `session_days`, end of the 15 minutes | `SessionCloses`, `FailureExpires` |
| `change_password`, `reset_password`, `bootstrap-admin` | `ChangeLoad`, `ResetLoad`, `BootstrapLoad`; `ChangePassword`, `ResetPassword`, `BootstrapAdmin` |
| `disable_user`, `enable_user` | `SwitchLoad`; `DisableUser`, `EnableUser` |

**Usage.** `CreateJob` is the part of `create_job` that reads and writes the row of the
day; `JobMoves` is the scheduler, as `JobLifecycle` has it. `Authorize`, `Refuse`,
`Answered`, `Line`, `Record` are one request of the proxy: token and job looked at
once, the request counted when the provider answers, the numbers of its stream's
lines merged by their maximum (`Seen`), and charged in the stream's `finally`.
`NewDay`, `WebStops`, `WebStarts`, `TakeSnapshot` and `RestoreUser` come in between.

**SqliteWriter.** `writer` holds the write lock, `blocking` waits for it on the
loop. `Insert` to `Commit` are `create_user`, `Write` to `FailFails` a worker and its
`_fail`, `ThreadWrites` and `ThreadCommits` a sync handler. `Expires` is the busy
timeout: a thread's transaction is over in milliseconds, so that only one that
itself needs the loop can outlast 30 seconds.

**StreamParser.** Claude Code writes the blocks of a message as they come
(`StreamEvent`) or all at once (`Collect`), and ends both with the `Assistant` line.
`saw` is `_saw_partial_text`, `shown` what the page gets; `message` has its blocks
twice, all of them and those that are not text, which is what the line shows after a
delta.

**ResumeLint.** `ReadLine` is one turn of `lint`'s loop, a line being what the patterns
make of it (`Line`): its kind, a bullet's faults, spaces at its end, and for a header
every style of dates that matches its slot (`Mar 2022 – Present` matches two).
`EndOfFile` is what comes after: the last entry, the styles, and how the file ends
(`AtEnd`: without a newline, or with empty lines).

**LiveView.** `Save` is an editor, which may leave the file away, such that the build
refuses it, or such that it breaks the build: an exception that `rebuild` does not
catch, after which the watch is over (`Ended`).
`WatchLook`, `WatchRead`, `WatchEmpty`, `WatchWrite` are `--watch`, `ServeRead`,
`ServeRender` a request to `--serve`, the polls and loads the tab.

**Outside the repository**, modelled from the way the code relies on it:

* A unit is stopped when the Web or the Runner ends (`BindsTo` in the command of
  `_systemd_command`); both are started again (`Restart=` in `deploy/systemd`).
* `systemctl stop` of a unit that does not exist yet does nothing. Of one that exists
  it hands the request to systemd, also when it is then given up after 30 seconds; a
  `systemctl` that cannot reach systemd is not modelled.
* `systemd-run --wait` may report success for a unit that ended on SIGTERM
  (`CleanStop = TRUE`) or not; `system_live` has the one, `runner` the other, the theorems both.
* A `systemd-run` that is terminated before it was given the prompt counts as a
  failed unit: without a prompt Claude does nothing.
* `git add .` with `git commit` takes the whole working tree; a file that a job
  writes between the two is left to the next commit. A job cannot write uploads,
  which belong to root; that it does not rename their directories is assumed.
* A local socket loses or reorders nothing; it can end, be reset, and deliver
  what is not a line of JSON.
* SQLAlchemy's `UPDATE` writes the columns that differ from the loaded row; FastAPI
  runs each sync handler in a thread of its own.
* SQLite has one writer, from the first `INSERT` or `UPDATE` to the commit; the
  backup is one committed state.
* The provider says the input with the first event of a stream and the output so
  far with later ones, so that the largest number is the right one.
* uvicorn drains its requests before the lifespan's `close` runs.
* `EventSource` connects again when a stream ends or breaks and sends the id of
  the last frame; after an answer other than 200, the proxy's when the Web is
  not there, it gives up (`Reconnect`, `Drop`, `Refused`).

## 4. Runs

| Run | Configuration | Question |
|---|---|---|
| `scheduler` | 1 user, 2 jobs, 2 workers, 2 handlers, 2 restarts; Runner errors and early ends | Do all invariants hold in every interleaving, and does the scheduler implement `JobLifecycle`? |
| `scheduler_faults` | 2 users with one job each, 1 worker, 1 handler, 1 restart; any exception | What survives exceptions nobody catches while the only worker waits for one user's lock; does every job end and every handler return? |
| `runner` | 1 user, 2 runs, 1 line of output each, any client; saves, sends and `systemctl` calls that fail, deaths of the Runner | Are units watched, stops effective, exits true, and do handlers return? |
| `system_live` | 1 job, 1 worker, 1 handler, Web and Runner may each die once, a SIGTERM may count as success | Is every step one of the scheduler, each completed job explained, no process unnoticed; do jobs end and connections close? |
| `system_runner_dies` | 1 job, the Runner dies once | finding 1 |
| `events` | 1 job, one page, 1 broken connection, 1 restart | Does the page receive every event once and in order? |
| `events_stopped` | 1 job, one page, no fault at all | finding 2 |
| `workspaces` | 1 user, 2 template versions, a preserved and a managed file, 1 upload with its text; failures, late answers, units that outlive their jobs, 1 death of either process | Do database, registry and workspace agree, does the user's own stay, and what else does an upgrade commit? |
| `workspaces_added` | a file that is new in version 2; nothing fails | finding 3 |
| `services` | 2 handlers, 2 sessions, limit 1; 2 users, 2 jobs, 1 proxy request, 2 days, 1 restore; 4 texts, 2 tools; files of 3 lines, 2 styles of dates; 4 saves; 2 workers, 2 `create_user`, 1 thread | Do the components that share no state with the scheduler keep their promises? |
| `sqlite_writer` | 2 workers, 2 `create_user`, 1 thread | finding 4 |
| `login_limit` | 2 handlers, limit 2 | finding 5 |

`system_runner_dies`, `events_stopped`, `workspaces_added`, `sqlite_writer` and
`login_limit` are expected to find a violation.

**Properties of the scheduler.** `UserLock`: what the user's lock is for, in four
parts. `OneActivePerUser`, `InactiveUserIsIdle` and `MaintenanceIsAlone` are the
rules; `LockProtects` is why they hold, namely that what a handler saw when it
took the lock is still true at each of its later steps. `JobsAreScheduled`: a
queued job is in the queue or with one waiting worker, exactly once; a running one
has a worker; no two workers have the same job. `WorksOnRunning`: the converse,
workers at work have a job that runs or was cancelled under them. `LogIsTrue`,
`NothingAfterClosing`: the event log against the rows; one start, one end.
`CancelIsFinal`, `EndedStaysEnded`: what a step may never undo. The latter holds under
every fault because it names the one exception: `_fail` makes a job failed whose worker
had completed it and is listing its files, and only until the closing event is logged.
That terminal states are final is not so (section 7).
`ImplementsLifecycle`: all of it in the words of the abstract module.
`EveryJobEnds`, `CallsReturn`: progress.

**Of the Runner.** `UnitIsWatched`: a unit that may start or is at work has a handler that
reads from it, unless systemd is stopping it, whatever save, send or `systemctl` fails. It
says nothing of the registry: a disabled user's unit may come up (section 7).
`StoppedNeverStarts`, `ExitIsTrue`, `RunsEnd`. **Of both.** `CompletedIsExplained`: the
process of a completed job ended with 0, or was stopped where a SIGTERM counts as success,
or its Runner died; that it always ended with 0 (`CompletedIsReal`) fails, finding 1.
`LiveUnitIsAccountedFor`, `ImplementsScheduler`, `ConnectionsClose`.

**Of the page.** `DeliveredInOrder`: what is on its way continues what was
received. `FinishedIsTerminal`: a page takes a job for finished only when it is.
`EventsArrive`: the last events reach the page although `completed` is committed
before the `done` event and `event_stream` may return in between; it is the
browser's reconnecting that brings them. `WaitEnds`: the page stops waiting.

**Of the workspaces.** `AccountIsBacked`: what the database says of an account is
so in the registry's file and on the disk. `RecordedIsStored`: a row in `files`
has its file and its extracted text, committed. `PersonalFilesKept`: nobody but a
unit touches preserved files, or the user's own where a hash is recorded.
`DisabledIsQuiet`: after a disable no import or upgrade changes the workspace, only a
unit that had been asked for. `CommitIsExplained`: what an upgrade the Web waits for
commits of the user's was written, after `git status`, by a unit whose job was over.
`UserWorkKept`: no upgrade replaces what the user wrote (it fails,
finding 3).

**Of the services.** `FailuresBounded`: `login` counts, verifies and records in
separate steps, so that the limit of failures is exceeded (`LoginLimit`, finding 5),
but only by what runs at once. `SessionsAreCurrent`: an open session belongs to an active account
and was opened with the password in force, or was spared by the change itself,
unless its login had verified the old row before the change and inserted the
session after it. `JobsCounted`: the count that `create_job` limits is the number
of the user's jobs of that day, also after a restore. `RestoredIsIdle`: a restore
leaves nothing queued or running for a disabled user. `ImplementsMetering`:
the proxy charges as `Metering` says. `TextShownOnce`: between two messages the
page has every text once and in order. `FindingsAreRight`: the linter's single pass
finds what its rules say of the whole file. `PageFollows`: a live page comes to show
the last version, as long as no save has ended the watch. `LoopGoesOn`: the loop is blocked again and again but never for
good, which the busy timeout alone brings about: without it a task that waits on
the loop and a `create_user` that needs the loop to commit wait for each other.
`WorkersStay` is what fails (finding 4).

**Why the bounds are enough.** `MaxOutput`, `MaxRestarts`, `MaxRunnerCrashes` and
`MaxDrops` only stop behaviours from growing; the state does not depend on them otherwise.
One line of output lets a stop fall before, at and after it. Two restarts let a
crash interrupt the recovery from another. Two jobs of one user are what the
per-user rules relate: with two, a stopped job's worker is still at work while
the next job is created, claimed and run. Two workers let it be run by another
one; with a single worker and two users a blocked worker holds up somebody else.
Two handlers meet on one lock. A third job, user or worker of the same kind
repeats these cases: users share nothing but queue and workers. Symmetry is
used for workers and handlers, and only in runs without liveness properties.
TLC reports no deadlock in the runs of scheduler, Runner, system and page: the
service can always take a message, start or stop. In `workspaces` the ids of
accounts and uploads are finite and used once, so that a behaviour may end and
deadlock is not checked. One user is enough there because users share nothing but
the Runner's loop and `registry.lock`, which only delay, and the file that every
save writes whole; the theorems cover this and longer histories, for any number of
users. Units touch the preserved file only in behaviours without an upload (`Apart`,
the constraint of the run): an upgrade leaves such files alone, an upload does not
look at them. In `system_live` one job is enough for its question, how a job and its
unit end; that two units of one user can be at work for a while needs a second job,
and `LiveUnitIsAccountedFor` is proved for any number of them.

In `services` each behaviour moves one module (`part`), because they share nothing;
the states add up instead of multiplying. Two handlers let one overtake another at
each step; a third cannot be told from a later one, and `ServicesProofs` has any
number. Three passwords are one before, one during and one after a change. Two
days are the one of the job or request and the one of its end; two jobs of one
user fill both; a second user is restored beside the first. One request of the
proxy is enough because a row is written without an await between reading and
commit. All jobs are of one user: that a call is charged to the right one of two rests
on the theorem `MeteringImplemented`. Three lines of a resume hold a header, its bullet
and what ends the entry (with a limit of no bullets), or a run of three blank lines;
`LintRight` has files of any length. Four texts and two tools fill two messages, one
streamed and one whole, in either order. Four saves let one come during and one
after the reading of another. Parser, linter and previews stop when their input
does, so that deadlock is not checked in this run.

## 5. Fairness

`scheduler_faults`, `runner`, `system_live`, `events`, `events_stopped` and `services` assume:

* `WF` of `StartStep`: systemd starts the Web again.
* `SF` of each worker, of each handler in flight and of `close`: asyncio's ready
  queue and the waiters of an `asyncio.Lock` are served first come first served.
  A step of a task is disabled again and again while others hold the loop or
  the lock, so weak fairness would be too little, and the FIFO order is more than
  strong fairness. An answer is always due: `request` gives up after 180
  seconds (`runner_client.py:84`), a unit ends at `RuntimeMaxSec`.
* `WF` of the Runner's handlers, of `systemd` and of the Runner's service of a
  request: one loop that does what is ready.

* For the page: `WF` of an answer to a message, of receiving and of reconnecting,
  which the browser does by itself; `SF` of connecting and of `Poll`, which the
  loop serves between the tasks' steps (it polls every half second).

* For the live previews: `WF` of the watcher's loop, which wakes every 400 ms, and
  of the tab, whose timers fire every 700 and 1200 ms and whose requests the local
  servers answer.
* For SQLite's writers: `SF` of whatever waits in the busy handler (SQLite asks for
  the lock again and again, and a thread may have it in between) and `WF` of a
  thread's commit. Not of the Runner's answer to `create_user`, which may be late.

`Workspaces`, `Accounts`, `Usage`, `StreamParser` and `ResumeLint` assume no fairness and
state no liveness: they are about what a step that never comes, or comes late,
leaves behind.

Nothing is assumed of users, administrators, crashes and shutdowns: jobs end
whether or not somebody stops them.

## 6. Proofs

Proved by TLAPS for all users, jobs, workers, handlers, bounds and faults, from
the assumptions named in the modules that declare the constants
(`OwnerAssumption`, `FaultsAssumption`, `BoundsAssumption`, `DistinctAssumption` of
`JobManager` and their like in the other modules):

| Theorem | Statement |
|---|---|
| `JobManagerProofs!TypeCorrect` | `Spec => []TypeOK` |
| `JobManagerProofs!LockIsEnough` | `Spec => []UserLock`, from `OneActive`, `LocksProtect`, `InactiveIdle`, `MaintenanceAlone`, one for each part |
| `JobManagerProofs!WorksRunning` | `Spec => []WorksOnRunning` |
| `JobManagerProofs!CancelFinal` | `Spec => CancelIsFinal` |
| `JobManagerProofs!Refinement` | if `"os_error" \notin Faults`: `Spec => ImplementsLifecycle` |
| `JobScheduleProofs!Scheduled` | `Spec => []JobsAreScheduled` |
| `JobScheduleProofs!LogTrue` | `Spec => []LogIsTrue` |
| `JobScheduleProofs!NothingAfter` | `Spec => NothingAfterClosing` |
| `JobScheduleProofs!EndedStays` | `Spec => EndedStaysEnded`, with every fault |
| `EventStreamProofs!StreamIsScheduler` | `StreamSpec => Spec`: the page only looks on |
| `EventStreamProofs!Delivered` | `StreamSpec => []DeliveredInOrder` |
| `EventStreamProofs!Finished` | `StreamSpec => []FinishedIsTerminal` |
| `RunnerProofs!TypeCorrect` | `Spec => []TypeOK` (of the Runner) |
| `RunnerProofs!UnitWatched` | `Spec => []UnitIsWatched` |
| `RunnerProofs!StoppedStays` | `Spec => StoppedNeverStarts` |
| `RunnerProofs!ExitTrue` | `Spec => []ExitIsTrue` |
| `JobSystemProofs!SystemIsScheduler` | if `{"runner_error", "os_error"} \subseteq Faults`: `SystemSpec => ImplementsScheduler` |
| `JobSystemProofs!SystemSafe` | so `UserLock` holds of the system |
| `JobSystemProofs!SystemScheduled` | so do `JobsAreScheduled`, `LogIsTrue` and `NothingAfterClosing` |
| `JobSystemProofs!LiveAccounted` | under the same assumption: `SystemSpec => []LiveUnitIsAccountedFor` |
| `JobSystemProofs!CompletedExplained` | under the same assumption: `SystemSpec => []CompletedIsExplained` |
| `WorkspaceProofs!TypeCorrect` | `Spec => []TypeOK` (of the workspaces) |
| `WorkspaceProofs!AccountsAreBacked` | `Spec => []AccountIsBacked` |
| `WorkspaceProofs!RecordedStaysStored` | `Spec => []RecordedIsStored` |
| `WorkspaceProofs!PersonalFilesAreKept` | `Spec => PersonalFilesKept` |
| `WorkspaceProofs!DisabledStaysQuiet` | `Spec => DisabledIsQuiet` |
| `WorkspaceProofs!CommitsAreExplained` | `Spec => CommitIsExplained` |
| `ServicesProofs!FailuresStayBounded` | `AccountsSpec => []FailuresBounded` |
| `ServicesProofs!SessionsStayCurrent` | `AccountsSpec => []SessionsAreCurrent` |
| `ServicesProofs!ShownOnce` | `ParserSpec => []TextShownOnce` |
| `ServicesProofs!LintRight` | `LintSpec => []FindingsAreRight` |
| `UsageProofs!MeteringImplemented` | `UsageSpec => ImplementsMetering` |
| `UsageProofs!JobsStayCounted` | `UsageSpec => []JobsCounted` |
| `UsageProofs!RestoredStaysIdle` | `UsageSpec => []RestoredIsIdle` |

**The argument.** None of `OneActivePerUser`, `InactiveUserIsIdle` and
`MaintenanceIsAlone` is inductive: a disable that is about to commit breaks the
second unless one knows that its user has been idle since. `LockProtects` says
that: a handler between taking and releasing the lock is its holder, and what is
active is among what it still has to deal with. The conjunction with `TypeOK`
(called `Safe`) is inductive, and the heart of it is one lemma: only `Send` makes
an inactive job active, and `Send` needs the lock to be free.

`WorksOnRunning` is proved from a second invariant about workers: a worker past
its claim is alone on its job, and while the process is down there is none. It
is what the refinement needs: a worker that ends its job moves it from running
(`End`) or, if it was cancelled, not at all. Each action of `JobManager` is then a step of
`JobLifecycle` or leaves `state` and `active` alone: `Send` is `Submit`, `Claim` is
`Begin` (or nothing: a queued job of an inactive user is impossible),
`Cancel` is `Cancel`, `StartScan` is `Restart`, `Fail` and `StreamEnd` are `End`.

`Refinement` needs the assumption on `Faults`. Without it there is a counterexample:
`_fail` spares only cancelled jobs (`jobs.py:300`), and the listing after the run, behind
the commit of `completed`, catches only `RunnerError`, so that a connection reset there
makes a completed job failed. `EndedStays` says what is true with every fault, and is
proved from the invariants of the schedule: only a worker at `"compare"` has a completed
job in its hands, and it has not logged the end yet.

**The schedule and the logs.** Neither `JobsAreScheduled` nor `LogIsTrue` is inductive,
and both hold under every fault. That a job is nowhere twice fails in `start`, which
puts jobs back one by one: `Placed` says that what is on the queue is there once, is
in nobody's hands and is not still to be put back. That
none is lost needs `Found`, the same of what is left to put back, and that the
process is down with an empty queue. What a log says next depends on what its
writer knew when it had the loop last: a worker about to announce has logged no
start, one about to report has logged no end, a stop that is about to log
`cancelled` has its job cancelled and the log open (`Logs`). All three look at a worker's step in the
same way, so that `Turn` and `Row` list once, as a table, what a worker may do to
its job, its log and the loop; the lemma `WorkerTurns` shows that each of its actions is a
row of it, and a row keeps each invariant.

**The page.** The theorems of `JobManager` hold beside the page, which reads only
(`StreamIsScheduler`). `Window` adds to `DeliveredInOrder` that frames and the generator
are gone with the connection and that a page without a job waits for nothing. It
rests on two facts about the scheduler (`Onward`): logs only grow and ended jobs stay
ended, the latter up to `_fail`, which may make a completed job failed.

**The Runner.** Three invariants on top of one another. `Handlers`: a handler that
has not begun has no unit and has sent nothing, one that is over has sent its
last item, and a unit that is pending or alive has a handler at its reading (`Fresh`):
each way out of `_run` ends in a request to stop the unit, and a request that times out
is still with systemd. `Honest`: a zero exit is of a unit that ended with 0 or, if
`CleanStop`, was killed (`Zero`). `Doomed`: a job that was stopped before its fork keeps
its mark until the fork, because only its own handler takes the mark away, and from
there on has no unit that may start; this is what makes a stop stronger than the moment
it was asked for.

**The system.** `Socket` says what is on the socket: lines of the protocol, one
request for each handler that waits, one of four answers. With it every answer `JobSystem` delivers is one that `JobManager`
would take from `Replies` or `StreamItems`, which is where the assumption on
`Faults` comes from: a Runner that refuses or is gone raises one of the two.
`CompletedExplained` needs two more: `Runner` (the Runner's own invariants, carried into
the composition) and `Truth` (a worker that has read a zero exit, and every zero
exit still on the wire, belong to a unit with `Zero`; and what is completed is
explained): a stream that ends without an exit is one whose handler died. Nothing is assumed of how a unit or a process ends.
`LiveAccounted` needs no `Truth`: with `OpenIsStreamed` (an open connection has a
worker reading from it) and the two parts before, a living unit's connection is
closed, or its worker's job is running or cancelled.

**The workspaces.** `Backed` is the invariant behind `AccountsAreBacked`. It has
two halves. `Opened`: a row needs an answer, an answer a save, and a save what was
made before it; it also says that memory knows whom the file knows, or a save for
another user would forget one. `Ordered`: versions only grow on the way from the
template over the variable of a handler and the registry's memory to its file and
the database. The lemma `SaveKeeps` is its heart: a save, or one that fails,
leaves every entry at least as new. `Stored`, `Homeless`, `Quiet`, `Alone` and `Own` serve
the other four. `Alone`: while the Web waits for an upgrade no job of the user is
active. `Own` is what the user's lock is worth to it: unless a unit has written that
outlived its job, the tree is clean from the check on, and after the copying each file is
as committed or of the new version. `Writers` and `Movers` list, once, who can change a tree or an upload at
all.

**The accounts.** `Shape` gives the rows their form. `FailuresBounded` is inductive
with it: a handler that passes the count leaves the idle ones and joins `Guessing`
while `failures < MaxFailures`, and every failure is one handler less; the lemmas
on cardinalities are the ones of `FiniteSetTheorems`. `SessionsAreCurrent` needs
`Current`: a login that has verified a row and is not marked late holds the password
in force of an active account. Every commit that touches the password or the
account marks all verified logins (`Overtaken`) and closes all sessions it does not
spare, and `enable_user`, whose row may be stale, can only write what is true or
leave the column alone.

**The parser and the linter.** Both keep less than they have read, and the invariant
says what the little stands for. `Streaming`: while a message is streamed the page
has every text written, and an unset bit means that the message has none, so that
the assistant line can be shown as it is; while one is collected the bit is unset and
page and message carry the texts between them, in order (`Carries`, `Carried`).
`Linted`: the entry in memory is the only one no header follows, its count is that of the
bullets below it (`OpenEntry`), the run of blank lines tells 0 and 1 from more
(`BlankRun`), the styles are those of the headers, and the findings are those of the
rules for all other entries. The
lemmas `BelowGrows` and `LocalRules` say how a rule's verdict on a file changes with one
more line; no induction over the file is needed, because the pass is itself one.

**Usage.** `UsageShape` gives the rows their form and says, in `Sane`, how far a request
of the proxy is: it has seen no more than was used, the whole input from the first
line of the stream on, and all of it once the stream has ended well. This is what
lets `Record` charge no more than was used, and exactly that at a proper end.
`JobsCounted` needs `Counted`, which says the same of the backup: a user's rows are
replaced all together, jobs and counts of the same moment. For the refinement every
step is one of `Metering` (`Answered` is `Answer`, `Line` is `Use`, `Record` is `Charge`, a stop
of the Web is `Forget`) or changes nothing there: a refused request, a job's move, a
new job, whose count `Metering` does not have. The set of jobs is assumed finite
(`JobsFinite`), which any database is.

**Only model-checked.** Every invariant and action property that a passing run checks is
proved. What
TLC alone checks is liveness: `EveryJobEnds`, `CallsReturn`, `RunsEnd`,
`ConnectionsClose`, `EventsArrive`, and with them all that is said of `LiveView`
(`PageFollows`) and `SqliteWriter` (`LoopGoesOn`). Liveness under fairness and `ENABLED` are out of the prover's reach; so is
induction over data (the library's induction theorems take an operator as a
parameter), and no module with a theorem may use `RECURSIVE` operators.

## 7. Findings

1. **The end of the stream counts as success** (`system_runner_dies`;
   `jobs.py:404`, `api.md:42`).
2. **A page waits for ever for a job that was stopped** (`events_stopped`;
   `app.js:267`, `app.js:152`). A stop logs a status event only; the page's wait ends
   on `done` and `error` alone. It goes on until the page is loaded again or the chat
   selected again. A crash between a terminal state and its event does the same.
3. **An upgrade replaces a file the user wrote** (`workspaces_added`;
   `template_files.py:112`, `template-upgrade.md:16`). A file at a path that is new
   in the template has no recorded hash, so it is no conflict: it is overwritten
   and reported as updated. Git's history still has it: the check for a clean tree
   sees to its being committed.
4. **Creating a user can end a worker** (`sqlite_writer`; `jobs.py:290`,
   `admin.py:82`, `troubleshooting.md:29`). `create_user` flushes its row and awaits the
   Runner with SQLite's write lock. A worker that writes meanwhile blocks the loop
   for 30 seconds, in which `create_user` cannot commit even if the Runner has
   answered. The write fails, `_fail` writes at once and fails too, inside the
   `except` clause, and the worker's task is over. Its job stays running with nobody
   at it; after three of these no job is run until the Web is restarted.
5. **Logins at once exceed the limit of failures** (`login_limit`; `auth.py:58`,
   `security.md:12`). `login` counts the failures, takes its time over the password and
   records its own failure afterwards. It runs in threads: each login passes the count
   before the others have recorded.

Met while modelling, and not stated as a property of a run:

* A completed job can become failed, though `jobs.py:31` calls both terminal: after its
  commit of `completed`, `_execute` lists the files and catches `RunnerError` alone
  (`jobs.py:431-446`); a reset connection or a line that is not JSON
  (`runner_client.py:79`, `:89`) goes to `_fail`, which spares cancelled jobs only
  (`jobs.py:300`). `EndedStaysEnded` has this as its exception.
* A disabled user's unit can come up, though `guide.md:20` has a disable stop it:
  `_disable` stops what is in `active_units` (`runner_server.py:233`), and for a unit that
  is forked but not there yet `systemctl stop` finds nothing; no mark is set as `_stop`
  sets one. It ends at its next line of output.
* An upgrade can commit what a unit wrote, though `template-upgrade.md:13` and `:17` want
  a clean tree and a commit of the upgrade's own: the unit of a job that is over writes
  after `git status` (`runner_server.py:491`). `CommitIsExplained` has this as its exception.
* A save in the middle of a bold, or of a character, ends `build_resumes.py --watch`,
  though its docstring says that it rebuilds whenever the file changes: `rebuild` catches
  two exceptions (`build_resumes.py:301`), not the `AttributeError` of `h3_line` and
  `skill_li` (`:128`, `:151`) nor a `UnicodeDecodeError`. `PageFollows` excepts it.
* A stop between the fork of `systemd-run` and the start of the unit finds nothing,
  answers ok, and the unit comes up beside the user's next one, though
  `deployment.md:178` wants users served serially (`runner_server.py:310`). It ends
  at its next line of output, which is what `LiveUnitIsAccountedFor` says.
* `reset_password` writes `must_change_password` only if it differs from the row it
  loaded: a change of the password that commits in between leaves a temporary
  password that need not be changed (`admin.py:179`).
* A streamed tool is shown twice, at its start and at the assistant line
  (`stream_parser.py:90`); texts are not.
* The dashboard's page takes its stamp after reading the data, so that a save in
  between is not shown, and an error page has no script that reloads it
  (`build_dashboard.py:785`, `:893`); the watcher's file can be loaded while it is
  empty (`build_resumes.py:244`). `PageFollows` excepts these.

## 8. What is not modelled

* *Contents*: texts of messages and events, chat rows. In `JobManager` a quota or
  chat check that refuses a message changes nothing, and `Send` is the message that
  was accepted; the quota itself is in `Usage`.
* *Archiving a chat*: `archive_chat` runs in a thread and checks for an active job
  without the lock; the chat is only hidden, its job runs and ends as any other.
* *Late execution* of stops and disables: a request that was given up after 180
  seconds and is carried out afterwards. `Workspaces` has it for accounts, uploads
  and upgrades; in `JobSystem` a request is answered or fails, and one whose Runner dies
  is lost.
* *Accounts in `JobSystem`*: enable and disable at the same time, or a failing save,
  can leave database and registry disagreeing (`enable_user` takes no lock); the model has the
  interleaving and no property of it, because nothing reconciles the two.
* *Leftovers*: a crash or late answer leaves orphans (an account, an imported file
  without a row, staged files, files of half an upgrade). `Workspaces` has them; no
  property says they go away, because they do not.
* *One iteration of the loop*: the model hangs up in the step in which a worker
  leaves the stream; the async generator's finaliser does it an iteration later.
* *Database contention* outside `SqliteWriter`: there a transaction always succeeds.
* *The flag* `must_change_password`, cookies, CSRF tokens and hashing; of the proxy
  headers and bytes, and which request it forwards: `messages`, `count_tokens` and `models`
  are forwarded and counted alike.
* *Restoring* chats, messages and files: the same statements as for jobs and usage.
* *The pages* that `build_dashboard`, `build_career_tree` and `build_resumes` build, and
  `check_links`: layout and network I/O.
* *The development Runner* in `runner_client.py`, which runs Claude without
  systemd.
* *Views*: pages, styles, HTTP headers, CSRF, configuration, logging.
* *Pure I/O*: deployment scripts, migrations, `preview.js`, `file_extract.py`.

## 9. Plan

In order of importance. Done:

1. `JobLifecycle`, `JobManager`: the scheduler, its refinement and its proofs.
2. `RunnerServer`: runs, units, stops, and its proofs.
3. `JobSystem`: both together, and its proofs.
4. `EventStream`: `event_stream` and `streamJob` over the rows of one job.
5. `Workspaces`: accounts, uploads, upgrades, and its proofs.
6. `Accounts` and its proofs; `Metering`, `Usage` and its proofs; `SqliteWriter`.
7. `StreamParser`, `ResumeLint`, `LiveView`; every invariant and action property of
   the runs proved.

Left:

8. An abstract specification of the three stores (a row implies its file) that
   `Workspaces` implements.
9. Pure algorithms against reference definitions: the funnel of `build_dashboard`,
    the layout of `build_career_tree`, the states of `check_links`.
