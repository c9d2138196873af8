\* One user with two jobs, two workers, two handlers; a Runner that answers or
\* raises RunnerError.
SPECIFICATION Spec
CONSTANTS
    u1 = u1  u2 = u2  j1 = j1  j2 = j2  j3 = j3
    Users = {u1}
    Jobs = {j1, j2}
    Workers = {w1, w2}
    Callers = {c1, c2}
    Owner <- OneUser
    Faults = {"runner_error", "eof"}
    MaxOutput = 1
    MaxRestarts = 2
    Main = Main
    NoTask = NoTask
    NoJob = NoJob
    NoUser = NoUser
SYMMETRY Symmetry
INVARIANTS TypeOK UserLock JobsAreScheduled WorksOnRunning LogIsTrue
PROPERTY ImplementsLifecycle
