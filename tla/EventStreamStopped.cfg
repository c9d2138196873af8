\* A page whose job is stopped.
SPECIFICATION StreamFairSpec
CONSTANTS
    u1 = u1  j1 = j1  j2 = j2
    Users = {u1}
    Jobs = {j1}
    Workers = {w1}
    Callers = {c1}
    Owner <- OneUser
    Viewer = u1
    Faults = {}
    MaxOutput = 1
    MaxRestarts = 0
    MaxDrops = 0
    Main = Main
    NoTask = NoTask
    NoJob = NoJob
    NoUser = NoUser
PROPERTY WaitEnds
