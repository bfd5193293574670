\* Suspends and blocked servers.
SPECIFICATION WDSpec
CONSTANTS
    SessionID = {s1}
    Process = {}
    NoProcess = NoProcess
    Field = {incognito}
    PlatformField = {}
    CommandField = {}
    Value = {}
    PlatformDefault = on
    Unset = Unset
    Request = {desktop}
    Word = 65536
    FLAGS_timeout = 2
    FLAGS_max_session_size = 2
    FLAGS_create_session_min_interval = 0
    FLAGS_watch_dog_interval = 1
    FLAGS_last_command_timeout = 10
    FLAGS_last_create_session_timeout = 3
    HasEngineBuilder = FALSE
    MaxEngine = 1
    Load = {0, 70}
    SuspendSteps = {5}
    BackSteps = {}
    CallsMayFail = TRUE
    TickSteps = {1}
    MaxTime = 9
INVARIANT OneCleanupWaiting
PROPERTY SuspendForgiven
CHECK_DEADLOCK FALSE
