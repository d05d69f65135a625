--------------------------- MODULE PayrollLedger ----------------------------
(***************************************************************************)
(* What payroll runs promise whoever reads payslips, however many of them  *)
(* overlap: the payslips of a run appear in one step, together with the    *)
(* disappearance of all that had been committed for its period when it     *)
(* began.  PayrollRunLedger shows that the statements of PayrollRun, with  *)
(* their locks, failures and crashes, implement it.                        *)
(***************************************************************************)
CONSTANTS Employees, Periods, Runs

VARIABLES
    payslips,   \* the payslips a reader sees
    committed,  \* runs that have taken effect
    seen,       \* run -> runs that had taken effect when it began
    listing     \* run -> employees it pays

vars == <<payslips, committed, seen, listing>>

Init ==
    /\ payslips = {}
    /\ committed = {}
    /\ seen = [r \in Runs |-> {}]
    /\ listing = [r \in Runs |-> {}]

\* A run begins.
Begin(r) ==
    /\ r \notin committed
    /\ seen' = [seen EXCEPT ![r] = committed]
    /\ UNCHANGED <<payslips, committed, listing>>

\* It settles whom it pays.
List(r, paid) ==
    /\ r \notin committed
    /\ listing' = [listing EXCEPT ![r] = paid]
    /\ UNCHANGED <<payslips, committed, seen>>

\* It takes effect: one new payslip for each employee it pays, nobody paid
\* twice, nothing left that the run had seen, other periods as they were.
Publish(r, p) ==
    /\ r \notin committed
    /\ \A s \in payslips' \ payslips : s.run = r /\ s.period = p
    /\ \A s \in payslips \ payslips' : s.period = p
    /\ {s.employee : s \in payslips' \ payslips} = listing[r]
    /\ \A s, t \in payslips' :
          s.period = p /\ t.period = p /\ s.employee = t.employee => s = t
    /\ \A s \in payslips' : s.period = p => s.run \notin seen[r]
    /\ committed' = committed \cup {r}
    /\ UNCHANGED <<seen, listing>>

\* The super-admin deletes a payslip.
Withdraw(s) ==
    /\ payslips' = payslips \ {s}
    /\ UNCHANGED <<committed, seen, listing>>

Next ==
    \/ \E r \in Runs :
          \/ Begin(r)
          \/ \E paid \in SUBSET Employees : List(r, paid)
          \/ \E p \in Periods : Publish(r, p)
    \/ \E s \in payslips : Withdraw(s)

Spec == Init /\ [][Next]_vars
=============================================================================
