CONSTANTS
    b1 = b1
    b2 = b2
    b3 = b3
    NoFilter = NoFilter
    Statement = {b1, b2, b3}
    Service = {"api", "cafe", "kafe"}
    Carries <- MCCarries
    Rank <- MCRank
    Query <- MCQuery
    MinuteTicks = 2
    LastTick = 4
CHECK_DEADLOCK FALSE
SPECIFICATION Spec
INVARIANTS
    ExpiredNotCounted
