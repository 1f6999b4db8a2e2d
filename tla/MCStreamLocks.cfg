\* One peer leaves while the application closes a stream to it.
SPECIFICATION Spec
CONSTANTS
    Peers = {p}
    StreamIds = {s1, s2}
    Control = Control
    Relay = Relay
    Apps = {a1}
    None = None
INVARIANT CleanupCanEnd
CHECK_DEADLOCK FALSE
