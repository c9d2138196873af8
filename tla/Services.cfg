\* Accounts, usage, the stream parser, the linter, the live previews
\* and SQLite's writers, one of them in each behaviour.
SPECIFICATION ServicesSpec
CONSTANTS
    Requests = {r1, r2}
    Sessions = {s1, s2}
    MaxFailures = 1
    MaxPasswords = 3
    u1 = u1  u2 = u2
    Users = {u1, u2}
    Jobs = {j1, j2}
    Owner <- OneOwner
    Nobody = Nobody
    Calls = {p1}
    Days = 2
    JobLimits = {1}
    TokenLimit = 2
    MaxTokens = 1
    MaxRequests = 1
    MaxPieces = 4
    MaxTools = 2
    MaxLines = 3
    MaxBullets = 0
    Styles = {dots, dashes}
    MaxSaves = 4
    Workers = {w1, w2}
    Creates = {c1, c2}
    Threads = {t1}
    Nothing = Nothing
INVARIANTS FailuresBounded SessionsAreCurrent JobsCounted RestoredIsIdle TextShownOnce
    FindingsAreRight
PROPERTIES ImplementsMetering PageFollows LoopGoesOn
\* The parser has read all there is, the last save was made.
CHECK_DEADLOCK FALSE
