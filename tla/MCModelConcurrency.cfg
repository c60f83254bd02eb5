SPECIFICATION FairSpec
CONSTANTS
    r1 = r1
    r2 = r2
    r3 = r3
    k1 = k1
    k2 = k2
    Requests <- MCRequests
    Keys <- OneKey
    NoKey = NoKey
    Configs <- TwoConfigs
    DefaultMaxAcc = 2
INVARIANTS
    CountersMatchHolders
    NoLostWakeup
PROPERTIES
    Implements
    CancelFreesSlot
