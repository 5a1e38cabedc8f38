SPECIFICATION Spec
CONSTANTS
    RoundAmount = 10
    HighAmount = 500
    NightStart = 23
    NightEnd = 5
    LocalOffset = 330
    Draws <- SmallDraws
    Rules <- RuleFiles
    GraphPolicy <- SmallGraphPolicy
    PriorityPolicy <- LocalPriorityPolicy
    Answers <- TwoAnswers
    MaxFailures = 2
    AnomalyFlag = 70
    Lags = {15}
    MaxAssessments = 2
    MaxEvents = 3
    MaxAlerts = 2
    MaxEvidence = 1
ACTION_CONSTRAINT EnvironmentWaits
VIEW ListedView
INVARIANTS DegradedIsNeverLow FailuresAreExplained ListedNeverLeaks NearFraudIsOwnFraud
