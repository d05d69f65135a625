---------------------------- MODULE MCPayrollRun ----------------------------
(* Small instances of PayrollRun.                                          *)
EXTENDS PayrollRunLedger, TLC

\* Every employee has a fixed salary: what matters is who is listed when.
FixedOnly == {[basis |-> "fixed", rate |-> "set"]}

\* Pay bases and rates that lead a run to pay, skip or fail.
HiredAny == {[basis |-> "fixed", rate |-> "set"],
             [basis |-> "hourly", rate |-> "set"],
             [basis |-> "fixed", rate |-> "unquantizable"]}
EditedAny == {[basis |-> "hourly", rate |-> "set"],
              [basis |-> "unit", rate |-> "set"],
              [basis |-> "fixed", rate |-> "null"]}

\* No edit is ever valid.
NoProfile == {}

Symmetry == Permutations(Workers) \cup Permutations(Employees)
              \cup Permutations(Periods)
=============================================================================
