SPECIFICATION FairSpec
CONSTANTS
    Service = {s1}
    ConnCap = 2
    MaxChunks = 2
    MaxWrites = 1
    ServerCloses = TRUE
INVARIANTS
    ChannelsClosedOnce
    TransportReleased
    WindowOfOne
    CompleteBeforeClose
PROPERTIES
    PeerLossReleases
    ClosedStreamEnds
    WritesAnswered
