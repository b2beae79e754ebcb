CONSTANTS
    r1 = r1
    r2 = r2
    m1 = m1
    m2 = m2
    Request = {r1, r2}
    Monitor = {m1, m2}
CHECK_DEADLOCK FALSE
SPECIFICATION FairSpec
INVARIANTS
    ReadyOnlyWhenServing
    PoolEndsQuiet
PROPERTIES
    ShutdownEnds
    LossIsNoticed
