CONSTANTS
    Conns = {"a", "b"}
    Existing = {"a"}
    Servers = {"x", "y"}
    Databases = {}
    Home <- Homes
    Holds <- NoDatabases
    Callers = {"k"}
    Triggers = {"t"}
    MaxRequests = 1
    MaxOutages = 1
    MaxCycles = 2
    MaxBoots = 2
    MaxFaults = 1
    MayFail = {"max_connections", "lock_info"}
    MaxBeside = 1
SPECIFICATION FairSpec
INVARIANTS ReportOfOneServer MissingExplained NobodySkipped
PROPERTY LoopStops
CHECK_DEADLOCK FALSE
