SPECIFICATION StallingPeerSpec
CONSTANTS
    Service = {s1}
    ConnCap = 1
    MaxChunks = 2
    MaxWrites = 0
    ServerCloses = TRUE
PROPERTY
    EndClosesSocket
