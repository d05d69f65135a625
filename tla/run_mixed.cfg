\* Two overlapping runs that list different employees.
SPECIFICATION Spec
CONSTANTS
    Employees = {e1, e2}
    Periods = {p1}
    Workers = {w1, w2}
    HireProfiles <- FixedOnly
    EditProfiles <- FixedOnly
    MaxRuns = 2
    MaxLines = 0
INVARIANTS
    OneRunPerPeriod
CHECK_DEADLOCK FALSE
