\* Three nodes; one watches from its control connection while it waits for
\* the owner's approval.
SPECIFICATION Spec
CONSTANTS
    Nodes = {n1, n2, n3}
    Policies <- ThreeSeats
    MaxIndex = 3
    TTL = 1
    Handlers = {h1}
    Ids = {1, 2, 3}
    Indices = {1, 2, 3}
    None = None
    MaxJoins = 3
    MaxRequests = 1
SYMMETRY Symmetry
INVARIANT DiscoveryAfterApproval
CHECK_DEADLOCK FALSE
