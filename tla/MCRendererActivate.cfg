SPECIFICATION Spec
CONSTANTS
    kMaxErrorTimes = 1
    MaxUpdates = 2
    MaxCrashes = 0
PROPERTY ActivateShowsNothing
