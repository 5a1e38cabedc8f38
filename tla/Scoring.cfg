SPECIFICATION Spec
CONSTANTS
    b1 = b1
    v1 = v1
    v2 = v2
    High = High
    N = 3
    Limit = 2
    Runs = {r1, r2}
    Bundles = {b1, b2}
    Policies = {v1, v2}
    Pinned <- PinsDiffer
    Bands = {High, Low}
    MaxFaults = 1
    None = None
SYMMETRY RunSymmetry
CONSTRAINT OnlyFirstVaries
INVARIANTS RunAccountsForItsRows InitialBandMatchesItsEvidence EvidenceHonoursPins SequentialRetriesAddNothing SuccessRejectsWhatItLeaves
PROPERTY AlertIdentityIsFrozen
CHECK_DEADLOCK FALSE
