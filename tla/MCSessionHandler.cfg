\* Sessions against the clock, and configs and the engine reload against
\* sessions.
SPECIFICATION Spec
CONSTANTS
    SessionID = {s1, s2, s3}
    Process = {p1}
    NoProcess = NoProcess
    Field = {incognito}
    PlatformField = {incognito}
    CommandField = {incognito}
    Value = {on, off}
    PlatformDefault = on
    Unset = Unset
    Request = {desktop, mobile}
    Word = 65536
    FLAGS_timeout = 3
    FLAGS_max_session_size = 1
    FLAGS_create_session_min_interval = 0
    FLAGS_watch_dog_interval = 4
    FLAGS_last_command_timeout = 5
    FLAGS_last_create_session_timeout = 3
    HasEngineBuilder = TRUE
    TickSteps = {3, 11}
    MaxTime = 14
    MaxEngine = 2
SYMMETRY SessionSymmetry
INVARIANTS
    TypeOK
    EmptyTimeMatchesMap
    EngineInUse
    NothingUnsaved
    SessionsTold
    
PROPERTIES
    EvictsLeastRecentlyUsed
    CleanupRules
    
CONSTRAINT Bound
CHECK_DEADLOCK FALSE
