SPECIFICATION Spec
CONSTANTS
    Service = {s1, s2, s3, s4, s5}
    MaxID = 3
    None = None
SYMMETRY Symmetry
INVARIANTS
    OwnEntry
    CountExact
    NoEarlyReuse
CHECK_DEADLOCK FALSE
