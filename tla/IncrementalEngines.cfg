CONSTANTS
    Runs = {1, 2, 3}
    Conns = {"pg1", "pg2", "pg3", "pg4", "my"}
    Provs = {"p"}
    Name <- MCName
    DBType <- MCDBType
    Schedule = "s"
    Plans <- MCPlans
SPECIFICATION FairSpec
INVARIANTS OwnConfig MisdirectedOnlyByNamesake
PROPERTY RunsEnd
