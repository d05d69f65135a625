\* Three runs of one period by two workers, with hires, edits and deletions
\* between their statements.  The system may stop: its keys are bounded.
SPECIFICATION Spec
CONSTANTS
    Employees = {e1, e2}
    Periods = {p1}
    Workers = {w1, w2}
    HireProfiles <- FixedOnly
    EditProfiles <- FixedOnly
    MaxRuns = 3
    MaxLines = 0
SYMMETRY Symmetry
INVARIANTS
    TypeOK
    OnePayslip
    ReplacesEarlierRuns
PROPERTIES
    ImplementsLedger
CHECK_DEADLOCK FALSE
