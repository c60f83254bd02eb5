SPECIFICATION Spec
CONSTANTS
    Accounts <- TwoAccounts
    Start = 1
    Retry = 3
    End = 4
    DayEnd = 5
    Gap = 1
    MaxDay = 1
    MaxTime = 4
    MaxCrashes = 1
    MaxSets = 0
INVARIANTS
    TypeOK
    SavedStateLoads
PROPERTIES
    NothingTakenBack
    SpacedOut
    WindowsKept
