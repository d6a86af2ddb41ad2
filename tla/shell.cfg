SPECIFICATION FairSpec
CONSTANT MaxFrames = 3
INVARIANTS
    StreamsIntact
    ResultComplete
    NeverBlockedByReaders
PROPERTIES
    CommandReturns
CHECK_DEADLOCK FALSE
