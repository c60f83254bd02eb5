SPECIFICATION FairSpec
CONSTANTS
    k1 = k1
    NoKey = NoKey
    Absent = Absent
    Torn = Torn
    Nothing = Nothing
    Ports = {1, 2, 3, 4}
    DefaultApi = 1
    DefaultWeb = 2
    Keys <- OneKey
    Drafts <- MCDrafts
    WebUI = TRUE
    PortFlag = 0
    NoPort = 0
    Foreign = {4}
    MaxEdits = 1
    MaxSaves = 1
    MaxFaults = 1
    MaxCrashes = 1
INVARIANTS
    Coherent
PROPERTIES
    RejectedChangesNothing
    FileGetsInForce
