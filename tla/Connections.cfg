CONSTANTS
    Conns = {a, b}
    Existing = {}
    Servers = {"x", "y"}
    Databases = {"d", "e"}
    Home <- NoHomes
    Holds <- Overlapping
    Callers = {k1, k2}
    MaxRequests = 6
    MaxOutages = 1
SPECIFICATION ConnSpec
INVARIANT ConnTypeOK
SYMMETRY Symmetry
CHECK_DEADLOCK FALSE
