SPECIFICATION Spec
CONSTANTS
    r1 = r1
    r2 = r2
    r3 = r3
    m1 = m1
    m2 = m2
    domestic = domestic
    international = international
    NoAccount = NoAccount
    NoModel = NoModel
    Requests <- ThreeRequests
    N = 2
    Sites <- BothSites
    SiteOf <- MCSiteOf
    Models <- OneModel
    MaxAcc = 1
    MaxCool = 1
    MaxOutside = 0
    CatalogFree <- Nothing
    CatalogPaid <- Nothing
SYMMETRY Symmetric
VIEW StillRead
INVARIANTS
    FewSentOnDisabled
    SlotOnlyInAttempt
PROPERTIES
    RoundRobinSpread
