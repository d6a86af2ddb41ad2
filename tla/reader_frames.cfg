SPECIFICATION Spec
CONSTANTS
    Word = 4
    Commands = {1}
    Payloads <- SmallPayloads
    MaxWire = 2
    MaxRead = 5
INVARIANTS
    BufferIntact
PROPERTIES
    ImplementsChannel
CHECK_DEADLOCK FALSE
