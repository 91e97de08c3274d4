CONSTANTS
    MaxChunks = 4
    StdoutCap = 2
    Modes = {TRUE, FALSE}
    MayStall = TRUE
SPECIFICATION FairSpec
INVARIANTS NothingLeftBehind
PROPERTIES ContractSpec PipelineReturns
CHECK_DEADLOCK FALSE
