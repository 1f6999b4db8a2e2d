SPECIFICATION Spec
CONSTANTS
    QueueLen = 2
    SlowDropLimit = 2
    WireLen = 1
    MaxFrames = 6
    MaxStalls = 2
INVARIANTS
    TypeOK
    KickedWhenBehind
PROPERTIES
    NoLeak
    KickHeard
    Delivery
CHECK_DEADLOCK FALSE
