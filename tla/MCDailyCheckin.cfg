SPECIFICATION FairSpec
CONSTANTS
    Accounts <- OneAccount
    Start = 1
    Retry = 2
    End = 3
    DayEnd = 4
    Gap = 1
    MaxDay = 2
    MaxTime = 3
    MaxCrashes = 1
    MaxSets = 1
INVARIANTS
    SavedStateLoads
    SentIsOnDisk
PROPERTIES
    NothingTakenBack
    SpacedOut
    WindowsKept
    RunningSettles
