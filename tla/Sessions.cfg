CONSTANTS
    Callers = {c1, c2}
    Tokens = {t1, t2, t3}
    Passwords = {"first", "second", "short"}
    Short = {"short"}
    Configured = "first"
    NoToken = "none"
    Life = 1
    MaxTime = 2
    MaxRequests = 5
    MaxRestarts = 1
SPECIFICATION Spec
INVARIANTS ServedWasValid RefusedIsInvalid SessionsOfCurrentPassword
PROPERTY ChangeIsAuthorised
SYMMETRY Symmetry
CHECK_DEADLOCK FALSE
