\* Liveness of the two processes: one job, and either may die once.
SPECIFICATION SystemFairSpec
CONSTANTS
    u1 = u1  j1 = j1
    Users = {u1}
    Jobs = {j1}
    Workers = {w1}
    Callers = {c1}
    Owner <- OneUser
    Faults = {"runner_error", "os_error", "eof"}
    MaxOutput = 1
    MaxRestarts = 1
    CleanStop = TRUE
    MaxRunnerCrashes = 1
    Main = Main
    NoTask = NoTask
    NoJob = NoJob
    NoUser = NoUser
INVARIANTS CompletedIsExplained LiveUnitIsAccountedFor
PROPERTIES ImplementsScheduler EveryJobEnds ConnectionsClose
