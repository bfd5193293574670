\* Liveness of the reloader, the launcher, the server processes and the
\* watch dog.
SPECIFICATION AnySpec
CONSTANTS
    MaxVersion = 3
    SameSecond = FALSE
    Processes = {p1, p2}
    c1 = c1
    None = None
INVARIANTS
    SuppressionConsistent
    AtMostOneServer
PROPERTIES
    
    ParkedIsFlushed
    ClientsConnect
    JoinReturns
CHECK_DEADLOCK FALSE
