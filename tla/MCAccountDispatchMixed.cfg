SPECIFICATION FairSpec
CONSTANTS
    r1 = r1
    r2 = r2
    r3 = r3
    m1 = m1
    m2 = m2
    domestic = domestic
    international = international
    NoAccount = NoAccount
    NoModel = NoModel
    Requests <- OneRequest
    N = 2
    Sites <- BothSites
    SiteOf <- MCSiteOf
    Models <- TwoModels
    MaxAcc = 1
    MaxCool = 1
    MaxOutside = 1
    CatalogFree <- FreeHere
    CatalogPaid <- PaidThere
PROPERTIES
    TurnedAwayOnlyIfUnservable
    PaidSiteIsLastResort
    Answered
    QuotaBlockClears
