SPECIFICATION Spec
CONSTANTS
    Nodes = {n1, n2}
    Policies <- TwoSeats
    MaxIndex = 2
    TTL = 1
    Handlers = {h1, h2}
    Ids = {1, 2}
    Indices = {1, 2}
    None = None
    MaxJoins = 2
    MaxRequests = 1
SYMMETRY Symmetry
INVARIANTS
    TypeOK
    IndexAgrees
    Discovery
    OfflineIsExplained
CHECK_DEADLOCK FALSE
