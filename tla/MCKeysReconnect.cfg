\* One of two members loses its connection and comes back.
SPECIFICATION Spec
CONSTANTS
    Nodes = {1, 2}
    Approvals = {FALSE}
    MaxProcesses = 3
    MaxWithApproval = 0
    MaxEnds = 1
PROPERTY ConvergesAfterReconnect
CHECK_DEADLOCK FALSE
