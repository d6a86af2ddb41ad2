SPECIFICATION Spec
CONSTANTS
    Service = {s1, s2}
    ConnCap = 1
    MaxChunks = 2
    MaxWrites = 0
    ServerCloses = FALSE
SYMMETRY Symmetry
INVARIANTS
    PacketsInOrder
    MapTracksHandlers
