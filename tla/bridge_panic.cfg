SPECIFICATION Spec
CONSTANTS
    Service = {s1}
    ConnCap = 2
    MaxChunks = 1
    MaxWrites = 0
    ServerCloses = TRUE
INVARIANT
    EndDoesNotPanic
