\* Requests that wait for each other's rows, deadlocks included.
SPECIFICATION FairSpec
CONSTANTS
    Employees = {e1, e2}
    Periods = {p1}
    Workers = {w1, w2}
    HireProfiles <- FixedOnly
    EditProfiles <- NoProfile
    MaxRuns = 2
    MaxLines = 0
PROPERTIES
    RequestsEnd
CHECK_DEADLOCK FALSE
