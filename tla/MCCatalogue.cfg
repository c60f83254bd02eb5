SPECIFICATION Spec
CONSTANTS
    c1 = c1
    c2 = c2
    Callers = {c1, c2}
    Rules <- FixedOrSeveral
    PackagePrices <- FreePackage
    NoPrice = NoPrice
    NoFile = NoFile
    Interval = 3
    MaxHour = 3
    MaxVersion = 2
    MaxFailures = 1
    MaxCrashes = 1
SYMMETRY CallerSymmetry
VIEW LedgerWhileRead
INVARIANTS
    ShownIsCharged
    SavedOrWarned
PROPERTIES
    NewestSampleStays
