SPECIFICATION Spec
CONSTANTS
    r1 = r1
    r2 = r2
    r3 = r3
    k1 = k1
    k2 = k2
    Requests <- MCRequests
    Keys <- MCKeys
    NoKey = NoKey
    Configs <- MCConfigs
    DefaultMaxAcc = 2
SYMMETRY Symmetric
INVARIANTS
    TypeOK
    CountersMatchHolders
    NoLostWakeup
PROPERTIES
    OverLimitOnlyDrains
    Implements
