CONSTANTS
    MaxBackups = 2
    MaxConcurrent = 1
    MaxCrashes = 0
    MaxFaults = 0
    Callers = {c1, c2}
    Schedules = {s1}
    NoSchedule = NoSchedule
    ManualSchedules = {s1}
    Requests = {"schedule", "verify"}
    Providers = {TRUE, FALSE}
    Kinds = {"full"}
    Retentions = {1}
    LowestKeep = 1
    VerifyStatuses <- DocumentedCheck
    Encrypted = FALSE
    ReportsKey = TRUE
SPECIFICATION FairSpec
INVARIANTS IInv LostObjectExplained NotificationTruthful
PROPERTIES LifecycleSpec BackupSettles
