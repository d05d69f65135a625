\* Two periods, two months, two requests at a time.
SPECIFICATION Spec
CONSTANTS
    Pks = {1, 2}
    Months = {"2026-01", "2026-02"}
    Users = {u1, u2}
    Workers = {w1, w2}
    Nobody = Nobody
SYMMETRY Symmetry
INVARIANTS
    TypeOK
    OnePeriodPerMonth
PROPERTIES
    ClosedMonthKept
CHECK_DEADLOCK FALSE
