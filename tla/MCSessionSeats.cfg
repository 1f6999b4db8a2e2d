\* One request at a time: a denied member joins again when its seat is taken.
SPECIFICATION Spec
CONSTANTS
    Nodes = {n1, n2, n3}
    Workers = {w1}
    Policies <- TwoSeats
    MaxIndex = 3
    TTL = 1
    MemberGrace = 1
    IdleTimeout = 0
    MaxTime = 2
    MaxConns = 4
SYMMETRY Symmetry
INVARIANT SeatsRespected
CHECK_DEADLOCK FALSE
