SPECIFICATION FairSessionSpec
CONSTANTS
    MaxData = 2
    Writers = {w1, w2}
    NoWriter = NoWriter
    MaxOps = 1
    MaxChunks = 2
    Capacity = 1
INVARIANTS
    SuccessTrue
    ReplyWhole
    JobsClose
    AnswerTrue
    PacketsWhole
    CountTrue
PROPERTIES
    ContextReturns
    JobReturns
    WritersReturn
CHECK_DEADLOCK FALSE
