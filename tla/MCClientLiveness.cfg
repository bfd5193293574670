\* Two clients against an old server, a program on the disk that may be too old
\* as well, a crash, time-outs.
SPECIFICATION FairSpec
CONSTANTS
    Clients = {c1, c2}
    Char = {a}
    Commits = {"enter"}
    OtherCalls = FALSE
    VersionChecks = FALSE
    Resets = {}
    Faults = {"reset", "timeout"}
    LauncherMayFail = FALSE
    CreateMayFail = FALSE
    FirstServer <- OldProduct
    Installed <- AnyProgram
    kMaxPlayBackSize = 2
    MaxCrash = 1
    MaxLost = 0
    MaxId = 10
    MaxTyped = 1
PROPERTIES
    
    OperationsReturn
    Recovers
CHECK_DEADLOCK FALSE
