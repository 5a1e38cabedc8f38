SPECIFICATION Spec
CONSTANTS
    Alerts = {1, 2, 3}
    EventTime <- Times
    Bundles = {1, 2}
    Reports <- TwoReports
    Pinned <- PinFirst
    Policies <- TwoPolicies
    Scores <- ScoresOfBundles
    Truths <- SomeFraud
    Requests <- SomeRequests
    MinClassCount = 5
    Generation = "g1"
    Dataset = "d1"
    MaxBad = 1
    MaxRelabels = 1
    None = None
INVARIANTS PopulationIsWhole CapacityMeetsTarget ComparisonBalances
CHECK_DEADLOCK FALSE
