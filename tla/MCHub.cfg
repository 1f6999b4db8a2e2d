SPECIFICATION HubSpec
CONSTANTS
    Handlers = {h1, h2, h3}
    Ids = {1, 2}
    Indices = {1, 2}
    IndexOf <- SharedIndex
    None = None
SYMMETRY Symmetry
INVARIANTS
    HubTypeOK
    NoGhosts
    NewestServes
    IndexFindsMember
    RoomsReclaimed
CHECK_DEADLOCK FALSE
