CONSTANTS
    Interval = 1
    MaximumInFlight = 1
    MaxClock = 2
    WarmupRows = 1
    MeasuredRows = 3
    BatchSize = 2
    Concurrency = 2
    RunKind = "baseline"
    Undecided = Undecided
    Signals = {"SIGINT"}
CHECK_DEADLOCK FALSE
SPECIFICATION FairSpec
INVARIANTS
    AccountsBalance
    EveryTickCounted
    
PROPERTIES
    RunEnds
