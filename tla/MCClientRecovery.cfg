\* One client typing while the server crashes, blocks, answers with a broken or an
\* empty reply, drops its session or is restarted by others.
SPECIFICATION Spec
CONSTANTS
    Clients = {c1}
    Char = {a, b}
    Commits = {"enter", "submit"}
    OtherCalls = TRUE
    VersionChecks = TRUE
    Resets = {"FATAL"}
    Faults = {"reset", "closed", "timeout", "broken"}
    LauncherMayFail = TRUE
    CreateMayFail = TRUE
    FirstServer <- Same
    Installed <- UpToDate
    kMaxPlayBackSize = 3
    MaxCrash = 1
    MaxLost = 1
    MaxId = 3
    MaxTyped = 2
INVARIANTS
    HistoryReplays
    PlaybackRestores
CHECK_DEADLOCK FALSE
