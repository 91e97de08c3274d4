CONSTANTS
    Schedules = {s1, s2}
    Callers = {c1, c2}
    MaxEdits = 3
    MaxCrashes = 1
SYMMETRY Symmetry
SPECIFICATION Spec
INVARIANTS JobsMatchMap EngineFollowsTable
CHECK_DEADLOCK FALSE
