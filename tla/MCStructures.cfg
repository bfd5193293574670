\* Safety of the data structures.
SPECIFICATION AnySpec
CONSTANTS
    SessionID = {s1, s2}
    Special = {"DEFAULT_TABLE"}
    Style = {"ja"}
    Custom = {"", "A", "B"}
    MaxTables = 3
INVARIANTS
    OneTable
    ListsPartitionElements
    ChunksAreCurrent
    
    PositionsKeepOrder
PROPERTIES
    ImplementsLruSpec
    LookupStable
    EditsAreLocal
CHECK_DEADLOCK FALSE
