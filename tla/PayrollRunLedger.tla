-------------------------- MODULE PayrollRunLedger --------------------------
(* PayrollRun implements PayrollLedger.                                    *)
EXTENDS PayrollRun

\* What a reader sees is the committed table; when a run began and whom it
\* listed is what its log remembers.
Ledger == INSTANCE PayrollLedger WITH
             seen <- [r \in Runs |-> log[r].runs],
             listing <- [r \in Runs |-> log[r].payable]

\* Each statement of a run, of a closing, of the staff's and the super-admin's
\* pages, each wait, failure and crash is a step of the ledger or changes
\* nothing that a reader of payslips can see.
ImplementsLedger == Ledger!Spec
=============================================================================
