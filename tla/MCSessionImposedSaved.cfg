\* The instance of MCSessionConfig.cfg without engine reloads.
SPECIFICATION Spec
CONSTANTS
    SessionID = {s1, s2, s3}
    Process = {}
    NoProcess = NoProcess
    Field = {incognito, keymap}
    PlatformField = {keymap}
    CommandField = {incognito}
    Value = {on, off}
    PlatformDefault = on
    Unset = Unset
    Request = {desktop, mobile}
    Word = 65536
    FLAGS_timeout = 0
    FLAGS_max_session_size = 2
    FLAGS_create_session_min_interval = 0
    FLAGS_watch_dog_interval = 4
    FLAGS_last_command_timeout = 5
    FLAGS_last_create_session_timeout = 3
    HasEngineBuilder = FALSE
    TickSteps = {3}
    MaxTime = 3
    MaxEngine = 2
SYMMETRY SessionSymmetry
PROPERTY ImposedNeverSaved
CHECK_DEADLOCK FALSE
