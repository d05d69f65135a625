\* Employees a run pays, skips or fails on, edited while it goes over them.
SPECIFICATION Spec
CONSTANTS
    Employees = {e1, e2}
    Periods = {p1}
    Workers = {w1}
    HireProfiles <- HiredAny
    EditProfiles <- EditedAny
    MaxRuns = 2
    MaxLines = 1
SYMMETRY Symmetry
PROPERTIES
    RunIsAtomic
CHECK_DEADLOCK FALSE
