SPECIFICATION FairSpec
CONSTANTS
    f1 = f1
    f2 = f2
    q1 = q1
    l1 = l1
    l2 = l2
    d1 = d1
    x1 = x1
    e1 = e1
    e2 = e2
    e3 = e3
    scan = scan
    web = web
    NoEntry = NoEntry
    NoName = NoName
    Refreshers <- TwoRefreshers
    Requests <- Nobody
    Logins <- Nobody
    Editors <- OneEditor
    Deleters <- Nobody
    Entries <- ThreeEntries
    ScanName = scan
    LoginName = scan
    Threshold = 2
    MaxVersion = 3
    MaxRestarts = 1
INVARIANTS
    RefreshedByOneAtATime
PROPERTIES
    NewestWins
    PoolFollowsFile
