CONSTANTS
    Request = {r1, r2, r3, r4, r5}
    Records <- OneRecord
    Closer = {}
    MaxBatchRows <- DefaultMaxBatchRows
    MaxQueuedRows <- DefaultMaxQueuedRows
    MaxConcurrentWrites <- DefaultMaxConcurrentWrites
CHECK_DEADLOCK FALSE
SPECIFICATION Spec
INVARIANTS
    LaneReserved
