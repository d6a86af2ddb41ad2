SPECIFICATION FairSpec
CONSTANTS
    Conn = {c1, c2}
    Caller = {k1, k2}
INVARIANTS
    TracksRunning
    NoneForgotten
    ClosedOnce
PROPERTIES
    BacklogServed
    CloseStops
