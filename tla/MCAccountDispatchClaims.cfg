SPECIFICATION Spec
CONSTANTS
    r1 = r1
    r2 = r2
    r3 = r3
    m1 = m1
    m2 = m2
    domestic = domestic
    international = international
    NoAccount = NoAccount
    NoModel = NoModel
    Requests <- TwoRequests
    N = 1
    Sites <- BothSites
    SiteOf <- MCSiteOf
    Models <- OneModel
    MaxAcc = 2
    MaxCool = 3
    MaxOutside = 0
    CatalogFree <- Nothing
    CatalogPaid <- Nothing
INVARIANTS
    TailUnreachable
    QuotaAnswerMeansPaid
PROPERTIES
    CooldownRunsItsCourse
