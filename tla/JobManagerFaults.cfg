\* Two users, one worker: the worker waits for one user's lock while the other
\* user's job is queued.  The Runner's calls may raise any exception.
SPECIFICATION FairSpec
CONSTANTS
    u1 = u1  u2 = u2  j1 = j1  j2 = j2  j3 = j3
    Users = {u1, u2}
    Jobs = {j1, j3}
    Workers = {w1}
    Callers = {c1}
    Owner <- TwoUsers
    Faults = {"runner_error", "os_error", "eof"}
    MaxOutput = 1
    MaxRestarts = 1
    Main = Main
    NoTask = NoTask
    NoJob = NoJob
    NoUser = NoUser
PROPERTIES  EndedStaysEnded NothingAfterClosing EveryJobEnds CallsReturn
