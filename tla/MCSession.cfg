\* Key events and commands of a desktop client and of a software keyboard.
SPECIFICATION Spec
CONSTANTS
    MaxLen = 3
    MaxInsert = 1
    Requests <- DesktopAndMobile
    EngineMayFail = FALSE
    TestsOff = FALSE
    Fields = {"NORMAL", "PASSWORD", "NUMBER"}
INVARIANTS
    StatesAgree
    SegmentsCover
    ComposedIsShown
PROPERTIES
    ResultDelivered
    NothingLost
    DChecksHold
CONSTRAINT Bound
CHECK_DEADLOCK FALSE
