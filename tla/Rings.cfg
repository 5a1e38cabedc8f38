SPECIFICATION Spec
CONSTANTS
    RoundAmount = 10
    HighAmount = 500
    NightStart = 23
    NightEnd = 5
    LocalOffset = 330
    Draws <- SmallDraws
    Rules <- RuleFiles
    GraphPolicy <- SmallGraphPolicy
    PriorityPolicy <- LocalPriorityPolicy
    Answers <- TwoAnswers
    MaxFailures = 2
    AnomalyFlag = 70
    Lags = {15, 25}
    MaxAssessments = 1
    MaxEvents = 3
    MaxAlerts = 2
    MaxEvidence = 1
INVARIANT SharedDeviceRingsAreSeen
