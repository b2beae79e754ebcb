CONSTANTS
    none = none
    small1 = small1
    medium = medium
    exact = exact
    huge = huge
    close1 = close1
    close2 = close2
    Request = {none, small1, medium, exact, huge}
    Records <- MCRecords
    Closer = {close1, close2}
    MaxBatchRows = 3
    MaxQueuedRows = 4
    MaxConcurrentWrites = 2
CHECK_DEADLOCK FALSE
SPECIFICATION FairSpec
INVARIANTS
    LimitsKept
    NeverStranded
    HeldExactlyOnce
    CloseMeansDrained
PROPERTIES
    KeepsPromise
    EveryInsertSettles
    CloseResolves
