SPECIFICATION Spec
CONSTANTS
    Requests = {r1, r2, "q"}
    Scores = {r1, r2}
    Messages = {"m"}
    Tx <- Transactions
    Profiles <- Seeded
    Lookups <- RiskyMerchant
    Probability <- ByVelocity
    Window10m = 1
    Window1h = 2
    Window24h = 3
    WindowFailed1h = 2
    Lookback = 4
    NightStart = 23
    NightEnd = 2
    HourOf <- OneHourEach
    MinConn = 1
    MaxConn = 2
    MaxOutages = 2
    MaxTries = 2
    None = None
SYMMETRY EitherScore
INVARIANTS VelocitySeesEarlierAnswers OnlyOutagesCostConnections
CHECK_DEADLOCK FALSE
