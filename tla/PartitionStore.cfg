CONSTANTS
    i1 = i1
    i2 = i2
    Default = Default
    NoRun = NoRun
    Statement = {i1, i2}
    Carries <- MCCarries
    TimeOf <- MCTimeOf
    TicksPerDay = 2
    RetentionDays = 1
    MaxCutoffDays = 2
    DeleteBatchSize = 1
    MaxSkew = 1
    FirstTick = 4
    LastTick = 6
    MaxFailures = 1
CHECK_DEADLOCK FALSE
SPECIFICATION FairSpec
INVARIANTS
    TypeOK
    DefaultStaysClear
PROPERTIES
    KeepsRows
    ExpiredRowsGo
