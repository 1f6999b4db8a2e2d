SPECIFICATION Spec
CONSTANTS
    Members = {1, 2}
    QueueLen = 1
    BufferLen = 1
    MaxCalls = 5
    MaxLosses = 1
INVARIANTS
    TypeOK
    GapsReported
    Untangled
    NothingSwallowed
    NoGhosts
PROPERTY KeepsPromise
CHECK_DEADLOCK FALSE
