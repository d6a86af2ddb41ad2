SPECIFICATION FairSpec
CONSTANTS
    Conn = {c1}
    Caller = {k1}
PROPERTIES
    CloseEndsConnections
