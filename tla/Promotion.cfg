SPECIFICATION Spec
CONSTANTS
    ch1 = ch1
    Channels = {ch1}
    Bundles = {b1, b2}
    ChannelOf <- OneChannel
    Attempts = {p1, p2}
    Policies = {v1, v2}
    Faults = TRUE
    None = None
SYMMETRY FullSymmetry
INVARIANTS AtMostOneOperational VersionsAreContiguous RunTellsPromotion
PROPERTIES EveryPromotionIsVetted ImplementsSwitch ImplementsRunRecords
CHECK_DEADLOCK FALSE
