SPECIFICATION FairSpec
CONSTANTS
    MaxCalls = 2
    MaxItems = 2
    ChunkMax = 1
INVARIANTS
    OwnReplies
    ResultsTrue
PROPERTIES
    CallReturns
CHECK_DEADLOCK FALSE
