SPECIFICATION Spec
CONSTANTS
    Nodes = {1, 2}
    Approvals = {FALSE, TRUE}
    MaxProcesses = 3
    MaxWithApproval = 2
    MaxEnds = 1
INVARIANTS
    TypeOK
    KeysForgotten
PROPERTIES
    Converges
    DiesDown
CHECK_DEADLOCK FALSE
