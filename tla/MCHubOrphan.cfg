\* One member, its two connections: the room is dropped between Attach's two
\* lock sections.
SPECIFICATION HubSpec
CONSTANTS
    Handlers = {h1, h2}
    Ids = {1}
    Indices = {1}
    IndexOf <- SharedIndex
    None = None
SYMMETRY Symmetry
INVARIANT ServedInSession
CHECK_DEADLOCK FALSE
