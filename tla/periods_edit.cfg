\* A closed period edited by a request that had passed the check.
SPECIFICATION Spec
CONSTANTS
    Pks = {1, 2}
    Months = {"2026-01", "2026-02"}
    Users = {u1, u2}
    Workers = {w1, w2}
    Nobody = Nobody
PROPERTIES
    ClosedImmutable
CHECK_DEADLOCK FALSE
