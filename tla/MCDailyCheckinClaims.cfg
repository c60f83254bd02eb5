SPECIFICATION Spec
CONSTANTS
    Accounts <- OneAccount
    Start = 1
    Retry = 3
    End = 4
    DayEnd = 5
    Gap = 1
    MaxDay = 1
    MaxTime = 4
    MaxCrashes = 1
    MaxSets = 0
PROPERTIES
    NoCatchUpByEvent
    SkippedIsNotFailed
