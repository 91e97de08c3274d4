CONSTANTS
    Backups = {"b1", "b2", "b3", "b4", "b5"}
    Restores = {1, 2}
    Conns = {"pg", "my"}
    Objects = {"x", "y"}
    Source <- MCSource
    DBType <- MCDBType
    Form <- MCForm
    Status <- MCStatus
    Encryption = TRUE
    MaxCrashes = 1
    MaxFaults = 1
SPECIFICATION Spec
INVARIANT SealedOpened
CHECK_DEADLOCK FALSE
