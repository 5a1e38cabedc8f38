SPECIFICATION Spec
CONSTANTS
    Alerts = {a1}
    Truth <- AllFraud
    Tickets = {d1, d2}
    Kinds = {"CONFIRMED_LEGITIMATE", "NEEDS_MORE_INFO"}
    Runs = {r1, r2, r3}
    Window = 1
    MaxClock = 1
    MaxFaults = 1
    None = None
SYMMETRY FullSymmetry
INVARIANTS ClosedByExactlyOneVerdict EligibleLabelsAreEarned SoleRunSettles SuccessCountsItsRows
PROPERTY OnlyChangesAreAppended
CHECK_DEADLOCK FALSE
