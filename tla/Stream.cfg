SPECIFICATION Spec
CONSTANTS
    N = 3
    Malformed = {1}
    Unreadable = {3}
    Sessions = {s1, s2}
    BatchSize = 2
    MaxAttempts = 2
    MaxFaults = 1
    MaxRevocations = 1
    None = None
INVARIANTS NothingIsSkipped SuccessKeepsRawEvents
PROPERTIES DecisionsAreFinal ImplementsRunRecords
SYMMETRY SessionSymmetry
CHECK_DEADLOCK FALSE
