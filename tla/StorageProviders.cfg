CONSTANTS
    Ids = {p, q}
    Callers = {c1, c2, c3}
    Keys = {k, l}
    MaxRequests = 3
    MaxRestarts = 2
    MaxFaults = 1
SPECIFICATION Spec
INVARIANTS UpdatesKept CredentialsIntact OneDefault
SYMMETRY Symmetry
CHECK_DEADLOCK FALSE
