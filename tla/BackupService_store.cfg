CONSTANTS
    MaxBackups = 2
    MaxConcurrent = 1
    MaxCrashes = 1
    MaxFaults = 1
    Callers = {c1, c2}
    Schedules = {s1}
    NoSchedule = NoSchedule
    ManualSchedules = {s1}
    Requests = {"schedule", "delete", "restore", "verify"}
    Providers = {TRUE}
    Kinds = {"full", "incremental"}
    Retentions = {1}
    LowestKeep = 1
    VerifyStatuses <- ShippedCheck
    Encrypted = FALSE
    ReportsKey = FALSE
SYMMETRY CallerSymmetry
SPECIFICATION Spec
INVARIANTS TypeOK SlotAccounting RetentionKeepsEnough LostObjectExplained NotificationTruthful
PROPERTY LifecycleSpec
