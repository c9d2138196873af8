\* Logins that run at once, and the limit of the security model.
SPECIFICATION AccountsSpec
CONSTANTS
    Requests = {r1, r2}
    Sessions = {s1}
    MaxFailures = 2
    MaxPasswords = 2
INVARIANT LoginLimit
CHECK_DEADLOCK FALSE
