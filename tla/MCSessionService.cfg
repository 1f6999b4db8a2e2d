SPECIFICATION Spec
CONSTANTS
    Nodes = {n1, n2}
    Workers = {w1, w2}
    Policies <- ApprovalOrRace
    MaxIndex = 2
    TTL = 3
    MemberGrace = 1
    IdleTimeout = 1
    MaxTime = 3
    MaxConns = 3
SYMMETRY Symmetry
INVARIANTS
    TypeOK
    UniqueIdentities
    OneOwner
    JoinsCounted
    ConnectionsExclusive
    PresenceCoherent
PROPERTIES
    AdmissionPolicy
    KeepsPromise
CHECK_DEADLOCK FALSE
