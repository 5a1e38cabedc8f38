SPECIFICATION FairSpec
CONSTANTS
    N = 2
    Malformed = {1}
    Unreadable = {}
    Sessions = {s1, s2}
    BatchSize = 2
    MaxAttempts = 2
    MaxFaults = 0
    MaxRevocations = 1
    None = None
PROPERTIES EveryMessageIsHandled
CHECK_DEADLOCK FALSE
