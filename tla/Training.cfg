SPECIFICATION Spec
CONSTANTS
    Batches = {b1, b2}
    Trainers = {t1, t2}
    Servers = {"s"}
    Inputs <- WrittenAnew
    SplitOf <- LastIsTest
    Profiles <- Seeded
    Failed <- OneFailure
    Window10m = 1
    Window1h = 2
    Window24h = 3
    WindowFailed1h = 2
    Lookback = 4
    NightStart = 23
    NightEnd = 2
    HourOf <- OneHourEach
    MaxFaults = 1
    None = None
PROPERTY FeaturesMatchServing
INVARIANTS SuccessNamesItsData ActiveRowIsTheChampion ServedVersionIsItsModel
VIEW EndedAlike
SYMMETRY Interchangeable
ACTION_CONSTRAINT BatchesGoFirst
CHECK_DEADLOCK FALSE
