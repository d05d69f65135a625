\* A run that passed the open check before the period was closed.
SPECIFICATION Spec
CONSTANTS
    Employees = {e1}
    Periods = {p1}
    Workers = {w1, w2}
    HireProfiles <- FixedOnly
    EditProfiles <- FixedOnly
    MaxRuns = 1
    MaxLines = 0
PROPERTIES
    ClosedGainsNothing
CHECK_DEADLOCK FALSE
