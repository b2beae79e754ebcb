CONSTANTS
    i1 = i1
    i2 = i2
    s1 = s1
    s2 = s2
    Nobody = Nobody
    Instance = {i1, i2}
    Session = {s1, s2}
    EnsureCalls = 1
    DropCallLimit = 1
    DeleteCallLimit = 2
CHECK_DEADLOCK FALSE
SPECIFICATION FairSpec
INVARIANTS
    TypeOK
    NoParkedLock
    MaintenanceExclusive
    RunsUntilStopped
PROPERTIES
    AbortedSendsNothing
    LockReleased
    StopResolves
