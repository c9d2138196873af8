\* One user with two runs; a SIGTERM is reported as a failure.
SPECIFICATION FairSpec
CONSTANTS
    u1 = u1  j1 = j1  j2 = j2
    Users = {u1}
    Jobs = {j1, j2}
    Owner <- OneUser
    MaxOutput = 1
    CleanStop = FALSE
INVARIANTS TypeOK UnitIsWatched ExitIsTrue
PROPERTIES StoppedNeverStarts RunsEnd
