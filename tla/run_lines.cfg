\* A run, a closing and compensation lines that race in two periods.
SPECIFICATION Spec
CONSTANTS
    Employees = {e1}
    Periods = {p1, p2}
    Workers = {w1, w2}
    HireProfiles <- FixedOnly
    EditProfiles <- FixedOnly
    MaxRuns = 1
    MaxLines = 2
SYMMETRY Symmetry
INVARIANTS
    LinesExact
    NoDangling
PROPERTIES
    SealedAfterClose
CHECK_DEADLOCK FALSE
