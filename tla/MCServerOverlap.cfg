SPECIFICATION Spec
CONSTANTS
    Servers = {p1, p2, p3}
    Clients = {}
    None = None
    NoOverlap = FALSE
    MaxTime = 0
INVARIANT
    AtMostOneServer
CHECK_DEADLOCK FALSE
