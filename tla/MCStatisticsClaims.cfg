SPECIFICATION Spec
CONSTANTS
    r1 = r1
    r2 = r2
    a1 = a1
    u1 = u1
    u2 = u2
    Requests = {r1, r2}
    Accounts = {a1}
    Users = {u1}
    NoCall = NoCall
    NoLedger = NoLedger
    NoFile = NoFile
    BadFile = BadFile
    Credits = {"none", "some"}
    HoursPerDay = 2
    DaysPerWeek = 2
    Monday = 1
    MonthStarts <- MCMonthStarts
    ShownDays = {0, 1}
    MaxBuckets = 5
    MaxRows = 2
    FirstHour = 1
    MaxHour = 1
    MaxLogins = 0
    MaxStops = 0
INVARIANTS
    EveryCallIsRecorded
    \* and, with that one taken out:
    NeverLooksLegacy
