SPECIFICATION Spec
CONSTANTS
    MaxLen = 2
    MaxInsert = 1
    Requests <- Desktop
    EngineMayFail = FALSE
    TestsOff = TRUE
    Fields = {"NORMAL"}
PROPERTY
    DChecksHold
CHECK_DEADLOCK FALSE
