\* One page of one user with one job; a connection may break once, the
\* service may end once.
SPECIFICATION StreamFairSpec
CONSTANTS
    u1 = u1  j1 = j1  j2 = j2
    Users = {u1}
    Jobs = {j1}
    Workers = {w1}
    Callers = {c1}
    Owner <- OneUser
    Viewer = u1
    Faults = {"runner_error", "eof"}
    MaxOutput = 1
    MaxRestarts = 1
    MaxDrops = 1
    Main = Main
    NoTask = NoTask
    NoJob = NoJob
    NoUser = NoUser
INVARIANTS DeliveredInOrder FinishedIsTerminal
PROPERTIES EventsArrive
