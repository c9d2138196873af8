SPECIFICATION SystemSpec
CONSTANTS
    u1 = u1  j1 = j1
    Users = {u1}
    Jobs = {j1}
    Workers = {w1}
    Callers = {c1}
    Owner <- OneUser
    Faults = {"runner_error", "eof"}
    MaxOutput = 1
    MaxRestarts = 0
    CleanStop = FALSE
    MaxRunnerCrashes = 1
    Main = Main
    NoTask = NoTask
    NoJob = NoJob
    NoUser = NoUser
INVARIANT CompletedIsReal
