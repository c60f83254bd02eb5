SPECIFICATION FairSpec
CONSTANTS
    Timeout = 1
    MaxLines = 2
    MaxBeats = 1
INVARIANTS
    OneAnswer
    TruthfulEnd
    FramesInOrder
    OneBodyAtATime
PROPERTIES
    HandlerReturns
