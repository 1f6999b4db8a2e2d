\* Three members: one that has opened a stream is opened one with the same id.
SPECIFICATION Spec
CONSTANTS
    Members = {1, 2, 3}
    QueueLen = 1
    BufferLen = 1
    MaxCalls = 3
    MaxLosses = 0
INVARIANT Untangled
CHECK_DEADLOCK FALSE
