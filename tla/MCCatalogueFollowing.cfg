SPECIFICATION Spec
CONSTANTS
    c1 = c1
    c2 = c2
    Callers = {c1}
    Rules <- SeveralPromotions
    PackagePrices <- FreePackage
    NoPrice = NoPrice
    NoFile = NoFile
    Interval = 3
    MaxHour = 4
    MaxVersion = 2
    MaxFailures = 0
    MaxCrashes = 1
INVARIANTS
    PromotionIsShown
