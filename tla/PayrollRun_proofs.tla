-------------------------- MODULE PayrollRun_proofs --------------------------
(***************************************************************************)
(* Safety of payroll runs for any number of employees, periods, workers    *)
(* and runs: the invariants and action properties of PayrollRun that TLC   *)
(* checks on small instances.                                              *)
(***************************************************************************)
EXTENDS PayrollRun, TLAPS

\* What the bounds and profiles declared by PayrollRun are.
USE BoundsAssumption, ProfilesAssumption

-----------------------------------------------------------------------------
(* Type correctness.                                                       *)

\* A worker inside a run holds the number of that run.
Numbered == \A w \in Workers : pc[w] \in RunSteps => tx[w].run \in Runs

\* TypeOK is not inductive alone: the commit adds the worker's run number to
\* committed, and outside a run that number is 0.
Typed == TypeOK /\ Numbered

\* The initial state is well typed.
LEMMA TypeInit == Init => Typed
<1> SUFFICES ASSUME Init PROVE Typed
    OBVIOUS
<1>1. NoRequest \in Request
    BY DEF NoRequest, Request
<1>2. (CHOOSE q \in Profile : TRUE) \in Profile
  <2>1. [basis |-> "fixed", rate |-> "set"] \in Profile
    BY DEF Profile, Bases, Rates
  <2> QED BY <2>1
<1>3. log \in [Runs -> LogEntry]
    BY DEF Init, LogEntry, Runs
<1>4. profile \in [Employees -> Profile]
    BY <1>2 DEF Init
<1>5. tx \in [Workers -> Request] /\ pc \in [Workers -> Steps]
    BY <1>1 DEF Init, Steps
<1>6. nextRun \in 1 .. MaxRuns + 1 /\ nextLine \in 1 .. MaxLines + 1
    BY DEF Init
<1>7. TypeOK
    BY <1>3, <1>4, <1>5, <1>6 DEF Init, TypeOK
<1>8. Numbered
    BY DEF Init, Numbered, RunSteps, TxnSteps
<1> QED BY <1>7, <1>8 DEF Typed

\* Updating one field of a request.
LEMMA RequestFields ==
    ASSUME NEW r \in Request
    PROVE  /\ \A X \in SUBSET Given : [r EXCEPT !.inputs = X] \in Request
           /\ \A X \in SUBSET Payslip : [r EXCEPT !.doomed = X] \in Request
           /\ \A X \in SUBSET Payslip : [r EXCEPT !.deleted = X] \in Request
           /\ \A X \in SUBSET Payslip : [r EXCEPT !.inserted = X] \in Request
           /\ \A X \in SUBSET Person : [r EXCEPT !.todo = X] \in Request
           /\ \A X \in SUBSET Person : [r EXCEPT !.person = X] \in Request
           /\ \A X \in SUBSET CompLine : [r EXCEPT !.lines = X] \in Request
           /\ \A X \in SUBSET Periods : [r EXCEPT !.period = X] \in Request
           /\ \A n \in 0 .. MaxRuns : [r EXCEPT !.run = n] \in Request
BY DEF Request

\* A request that ends leaves its worker well typed.
LEMMA TypeEnd ==
    ASSUME TypeOK, NEW w \in Workers, End(w)
    PROVE  pc' \in [Workers -> Steps] /\ tx' \in [Workers -> Request]
<1>1. NoRequest \in Request
    BY DEF NoRequest, Request
<1> QED BY <1>1 DEF TypeOK, End, Steps

LEMMA TypeFinished ==
    ASSUME TypeOK, NEW w, racing' = Finished(w)
    PROVE  racing' \in [Periods -> SUBSET Workers]
BY DEF TypeOK, Finished

LEMMA TypeSetStatus ==
    ASSUME TypeOK, NEW p \in Periods, NEW s \in {"open", "closed", "deleted"},
           SetStatus(p, s)
    PROVE  /\ status' \in [Periods -> {"open", "closed", "deleted"}]
           /\ racing' \in [Periods -> SUBSET Workers]
<1>1. Adding(p) \subseteq Workers
    BY DEF Adding
<1> QED BY <1>1 DEF TypeOK, SetStatus

\* Each step of a request keeps the types.
LEMMA TypeProceed ==
    ASSUME Typed, NEW w \in Workers, Proceed(w)
    PROVE  TypeOK'
<1> USE DEF Goto
<1>0. TypeOK /\ tx[w] \in Request /\ tx \in [Workers -> Request] /\ pc \in [Workers -> Steps]
    BY DEF Typed, TypeOK
<1>1. CASE AcceptForm(w)
    BY <1>0, <1>1 DEF AcceptForm, TypeOK, rows, history, Steps, Request
<1>2. CASE RefuseForm(w)
    BY <1>0, <1>2, TypeEnd, TypeFinished DEF RefuseForm, TypeOK, rows
<1>3. CASE CollectPayslips(w)
  <2>1. tx' \in [Workers -> Request]
    <3> DEFINE X == {s \in payslips : s.period \in tx[w].period}
    <3>1. X \in SUBSET Payslip /\ tx' = [tx EXCEPT ![w].doomed = X]
      BY <1>0, <1>3 DEF CollectPayslips, Replaced, TypeOK
    <3> HIDE DEF X
    <3>2. [tx[w] EXCEPT !.doomed = X] \in Request
      BY <1>0, <3>1, RequestFields
    <3> QED BY <1>0, <3>1, <3>2
  <2>2. log' \in [Runs -> LogEntry]
    <3>1. log \in [Runs -> LogEntry] /\ tx[w].run \in Runs
      BY <1>0, <1>3 DEF CollectPayslips, TypeOK, Typed, Numbered, RunSteps
    <3> DEFINE n == [log[tx[w].run] EXCEPT !.runs = committed, !.comp = comp]
    <3>2. n \in LogEntry
      <4>1. committed \in SUBSET Runs /\ comp \in SUBSET CompLine
        BY <1>0 DEF TypeOK
      <4>2. log[tx[w].run] \in LogEntry
        BY <3>1
      <4> QED BY <4>1, <4>2 DEF LogEntry
    <3>3. log' = [log EXCEPT ![tx[w].run] = n]
      BY <1>3 DEF CollectPayslips
    <3> QED BY <3>1, <3>2, <3>3
  <2>3. pc' \in [Workers -> Steps]
    BY <1>0, <1>3 DEF CollectPayslips, Steps
  <2> QED BY <1>0, <1>3, <2>1, <2>2, <2>3 DEF CollectPayslips, TypeOK, rows
<1>4. CASE \E s \in tx[w].doomed : DeletePayslip(w, s)
  <2>1. PICK s \in tx[w].doomed : DeletePayslip(w, s)
    BY <1>4
  <2> DEFINE r == [tx[w] EXCEPT !.doomed = @ \ {s}]
  <2>2. r \in Request /\ r.deleted = tx[w].deleted
    BY <1>0, RequestFields DEF Request
  <2>3. tx[w].deleted \cup ({s} \cap payslips) \in SUBSET Payslip
    BY <1>0 DEF TypeOK, Request
  <2>4. [r EXCEPT !.deleted = tx[w].deleted \cup ({s} \cap payslips)] \in Request
    BY <2>2, <2>3, RequestFields
  <2>5. tx' = [tx EXCEPT ![w] = [r EXCEPT !.deleted =
                                  tx[w].deleted \cup ({s} \cap payslips)]]
    BY <1>0, <2>1 DEF DeletePayslip, Request
  <2>6. tx' \in [Workers -> Request]
    BY <1>0, <2>4, <2>5
  <2> QED BY <1>0, <2>1, <2>6 DEF DeletePayslip, TypeOK, rows, history
<1>5. CASE DeletionDone(w)
    BY <1>0, <1>5 DEF DeletionDone, TypeOK, rows, history, Steps
<1>6. CASE ListEmployees(w)
  <2> DEFINE listed == {x \in Person : /\ staff[x.employee] = "active"
                                       /\ x.profile = profile[x.employee]}
  <2>1. tx' = [tx EXCEPT ![w].todo = listed]
    BY <1>6 DEF ListEmployees
  <2>2. tx' \in [Workers -> Request]
    BY <1>0, <2>1, RequestFields
  <2>3. {x.employee : x \in {y \in listed : Computable(w, y)}} \in SUBSET Employees
    BY DEF Person
  <2>4. log' \in [Runs -> LogEntry]
    <3>1. log \in [Runs -> LogEntry]
      BY <1>0 DEF TypeOK
    <3> DEFINE X == {x.employee : x \in {y \in listed : Computable(w, y)}}
    <3>2. log' = [log EXCEPT ![tx[w].run].payable = X]
      BY <1>6 DEF ListEmployees
    <3> HIDE DEF X
    <3>3. \A n \in LogEntry : X \in SUBSET Employees =>
             [n EXCEPT !.payable = X] \in LogEntry
      BY DEF LogEntry
    <3>4. X \in SUBSET Employees
      BY <2>3 DEF X
    <3> QED BY <3>1, <3>2, <3>3, <3>4
  <2>5. pc' \in [Workers -> Steps]
    BY <1>0, <1>6 DEF ListEmployees, Steps
  <2> QED BY <1>0, <1>6, <2>2, <2>4, <2>5 DEF ListEmployees, TypeOK, rows
<1>7. CASE \E x \in tx[w].todo : NextEmployee(w, x)
  <2>1. PICK x \in tx[w].todo : NextEmployee(w, x)
    BY <1>7
  <2> DEFINE r == [tx[w] EXCEPT !.todo = @ \ {x}, !.person = {x}, !.lines = {}]
  <2>2. r \in Request
    BY <1>0 DEF Request
  <2>3. tx' = [tx EXCEPT ![w] = r]
    BY <1>0, <2>1 DEF NextEmployee, Request
  <2>4. tx' \in [Workers -> Request]
    BY <1>0, <2>2, <2>3
  <2>5. pc' \in [Workers -> Steps]
    BY <1>0, <2>1 DEF NextEmployee, Steps
  <2> QED BY <1>0, <2>1, <2>4, <2>5 DEF NextEmployee, TypeOK, rows, history
<1>8. ASSUME NEW kind, NEW next \in {"deduction", "reimbursement", "compute"},
             ReadLines(w, kind, next)
      PROVE  TypeOK'
  <2>1. tx[w].lines \cup LinesOf(w, kind) \in SUBSET CompLine
    BY <1>0 DEF LinesOf, TypeOK, Request
  <2>2. tx' \in [Workers -> Request]
    BY <1>0, <1>8, <2>1, RequestFields DEF ReadLines
  <2>3. pc' \in [Workers -> Steps]
    BY <1>0, <1>8 DEF ReadLines, Steps
  <2> QED BY <1>0, <1>8, <2>2, <2>3 DEF ReadLines, TypeOK, rows, history
<1>9. CASE SkipEmployee(w)
    BY <1>0, <1>9 DEF SkipEmployee, TypeOK, rows, history, Steps, Request
<1>10. CASE InsertPayslip(w)
  <2>1. PICK x \in tx[w].person, p \in tx[w].period :
           tx' = [tx EXCEPT ![w].inserted = @ \cup {NewPayslip(w, x, p)},
                            ![w].person = {}, ![w].lines = {}]
    BY <1>10 DEF InsertPayslip
  <2>2. tx[w].run \in Runs
    BY <1>0, <1>10 DEF InsertPayslip, Typed, Numbered, RunSteps, TxnSteps
  <2>3. NewPayslip(w, x, p) \in Payslip
    BY <1>0, <2>2 DEF NewPayslip, Payslip, Request, Person
  <2> DEFINE r == [tx[w] EXCEPT !.inserted = @ \cup {NewPayslip(w, x, p)},
                                !.person = {}, !.lines = {}]
  <2>4. r \in Request
    BY <1>0, <2>3 DEF Request
  <2>5. tx' = [tx EXCEPT ![w] = r]
    BY <1>0, <2>1 DEF Request
  <2>6. tx' \in [Workers -> Request]
    BY <1>0, <2>4, <2>5
  <2>7. pc' \in [Workers -> Steps]
    BY <1>0, <1>10 DEF InsertPayslip, Steps
  <2> QED BY <1>0, <1>10, <2>6, <2>7 DEF InsertPayslip, TypeOK, rows, history
<1>11. CASE FailRun(w)
    BY <1>0, <1>11, TypeEnd, TypeFinished DEF FailRun, TypeOK, rows
<1>12. CASE CommitRun(w)
  <2>1. tx[w].run \in Runs /\ tx[w].inserted \subseteq Payslip
    BY <1>0, <1>12 DEF CommitRun, Typed, Numbered, RunSteps, TxnSteps, Request
  <2> QED BY <1>0, <1>12, <2>1, TypeEnd, TypeFinished DEF CommitRun, TypeOK
<1>13. CASE RollBackRun(w)
    BY <1>0, <1>13, TypeEnd, TypeFinished DEF RollBackRun, TypeOK, rows
<1>14. CASE SaveClosed(w)
    BY <1>0, <1>14, TypeEnd, TypeSetStatus DEF SaveClosed, TypeOK, Closed, Request
<1>15. CASE InsertCompensation(w)
    BY <1>0, <1>15, TypeEnd, TypeFinished DEF InsertCompensation, TypeOK, Request
<1>16. CASE SaveEmployee(w)
    BY <1>0, <1>16, TypeEnd DEF SaveEmployee, TypeOK, history, Request, Person
<1> QED
    BY <1>1, <1>2, <1>3, <1>4, <1>5, <1>6, <1>7, <1>8, <1>9, <1>10, <1>11, <1>12,
       <1>13, <1>14, <1>15, <1>16
       DEF Proceed, ReadBonuses, ReadDeductions, ReadReimbursements

\* So does every other step.
LEMMA TypeNext == Typed /\ [Next]_vars => TypeOK'
<1> SUFFICES ASSUME Typed, [Next]_vars PROVE TypeOK'
    OBVIOUS
<1> USE DEF Goto
<1>0. TypeOK /\ tx \in [Workers -> Request] /\ pc \in [Workers -> Steps]
    BY DEF Typed, TypeOK
<1>1. ASSUME NEW w \in Workers, Proceed(w) PROVE TypeOK'
    BY <1>1, TypeProceed
<1>2. ASSUME NEW w \in Workers, NEW p \in Periods, LoadForRun(w, p) PROVE TypeOK'
  <2>1. nextRun \in 0 .. MaxRuns /\ nextRun' \in 1 .. MaxRuns + 1
    BY <1>0, <1>2 DEF LoadForRun, TypeOK
  <2> DEFINE r == [tx[w] EXCEPT !.period = {p}, !.run = nextRun]
  <2>2. r \in Request
    BY <1>0, <2>1 DEF Request
  <2>3. tx' = [tx EXCEPT ![w] = r]
    BY <1>0, <1>2 DEF LoadForRun, Request
  <2>4. tx' \in [Workers -> Request]
    BY <1>0, <2>2, <2>3
  <2>5. pc' \in [Workers -> Steps]
    BY <1>0, <1>2 DEF LoadForRun, Steps
  <2> QED BY <1>0, <1>2, <2>1, <2>4, <2>5 DEF LoadForRun, TypeOK, rows, history
<1>3. ASSUME NEW w \in Workers, NEW p \in Periods, LoadForClose(w, p) PROVE TypeOK'
  <2>1. tx' \in [Workers -> Request]
    BY <1>0, <1>3, RequestFields DEF LoadForClose
  <2>2. pc' \in [Workers -> Steps]
    BY <1>0, <1>3 DEF LoadForClose, Steps
  <2>3. UNCHANGED <<rows, nextRun, nextLine, history>>
    BY <1>3 DEF LoadForClose
  <2> QED BY <1>0, <2>1, <2>2, <2>3 DEF TypeOK, rows, history
<1>4. ASSUME NEW w \in Workers, NEW e \in Employees, NEW p \in Periods,
             NEW kind \in Kinds, ValidateCompensation(w, e, p, kind)
      PROVE  TypeOK'
  <2>1. [id |-> nextLine, kind |-> kind, employee |-> e, period |-> p] \in CompLine
    BY <1>0, <1>4 DEF ValidateCompensation, TypeOK, CompLine, Lines
  <2> DEFINE X == {[id |-> nextLine, kind |-> kind, employee |-> e, period |-> p]}
             r == [tx[w] EXCEPT !.period = {p}]
  <2>2. tx' \in [Workers -> Request]
    <3>1. X \in SUBSET CompLine
      BY <2>1
    <3>2. tx' = [tx EXCEPT ![w].period = {p}, ![w].lines = X]
      BY <1>4 DEF ValidateCompensation
    <3> HIDE DEF X
    <3>3. r \in Request
      BY <1>0, RequestFields
    <3>4. [r EXCEPT !.lines = X] \in Request
      BY <3>1, <3>3, RequestFields
    <3>5. tx' = [tx EXCEPT ![w] = [r EXCEPT !.lines = X]]
      BY <1>0, <3>2
    <3> QED BY <1>0, <3>4, <3>5
  <2> QED BY <1>0, <1>4, <2>2 DEF ValidateCompensation, TypeOK, rows, history, Steps
<1>5. ASSUME NEW w \in Workers, NEW e \in Employees, LoadForEdit(w, e) PROVE TypeOK'
  <2>1. [employee |-> e, profile |-> profile[e]] \in Person
    BY <1>0 DEF TypeOK, Person
  <2>2. tx' \in [Workers -> Request]
    <3> DEFINE X == {[employee |-> e, profile |-> profile[e]]}
    <3>1. X \in SUBSET Person /\ tx' = [tx EXCEPT ![w].person = X]
      BY <1>5, <2>1 DEF LoadForEdit
    <3> HIDE DEF X
    <3>2. [tx[w] EXCEPT !.person = X] \in Request
      BY <1>0, <3>1, RequestFields
    <3> QED BY <1>0, <3>1, <3>2
  <2> QED BY <1>0, <1>5, <2>2 DEF LoadForEdit, TypeOK, rows, history, Steps
<1>6. ASSUME NEW w \in Workers, AbortDeadlocked(w) \/ Crash(w) PROVE TypeOK'
    BY <1>0, <1>6, TypeEnd, TypeFinished DEF AbortDeadlocked, Crash, TypeOK, rows
<1>7. CASE Elsewhere
  <2>1. ASSUME NEW l \in comp, Edits(l) PROVE TypeOK'
    <3>1. PICK e \in Employees, p \in Periods : AdminEditCompensation(l, e, p)
      BY <2>1 DEF Edits
    <3>2. nextLine \in Lines /\ nextLine' \in 1 .. MaxLines + 1
      BY <1>0, <3>1 DEF AdminEditCompensation, TypeOK, Lines
    <3>3. l \in CompLine
      BY <1>0 DEF TypeOK
    <3>4. [l EXCEPT !.id = nextLine, !.employee = e, !.period = p] \in CompLine
      BY <3>2, <3>3 DEF CompLine
    <3>5. comp' \subseteq CompLine
      BY <1>0, <3>1, <3>4 DEF AdminEditCompensation, TypeOK
    <3> QED BY <1>0, <3>1, <3>2, <3>5 DEF AdminEditCompensation, TypeOK, history
  <2> QED
    BY <1>0, <1>7, <2>1, TypeSetStatus DEF Elsewhere, Hire, DeleteEmployee,
         AdminSetStatus, AdminDeletePeriod, AdminDeletePayslip,
         AdminDeleteCompensation, Closed, TypeOK, history
<1>8. CASE UNCHANGED vars
    BY <1>0, <1>8 DEF TypeOK, vars, rows, history
<1> QED
    BY <1>1, <1>2, <1>3, <1>4, <1>5, <1>6, <1>7, <1>8 DEF Next, Begin

-----------------------------------------------------------------------------
(* The steps, as the transactions see them.  Most steps of most requests   *)
(* leave the run numbers and the uncommitted rows alone, so the invariants *)
(* below need only tell these few kinds of step apart.                     *)

\* Worker v keeps its place in the transaction and what it has written.
Keeps(v) ==
    /\ tx'[v].run = tx[v].run
    /\ tx'[v].doomed = tx[v].doomed
    /\ tx'[v].deleted = tx[v].deleted
    /\ tx'[v].inserted = tx[v].inserted
    /\ pc[v] \in TxnSteps => tx'[v].period = tx[v].period
    /\ pc'[v] \in TxnSteps <=> pc[v] \in TxnSteps
    /\ pc'[v] \in RunSteps <=> pc[v] \in RunSteps
    /\ pc'[v] # pc[v] /\ pc[v] = "delete" => tx[v].doomed = {}

OthersKeep(w) == \A v \in Workers \ {w} : tx'[v] = tx[v] /\ pc'[v] = pc[v]

\* No run begins, commits or is replaced.
NoRunMoves ==
    /\ nextRun' = nextRun
    /\ committed' = committed
    /\ \A r \in Runs : log'[r].runs = log[r].runs

\* Someone deletes committed payslips no transaction has deleted, or nothing
\* happens to payslips at all.
Quiet ==
    /\ \A v \in Workers : Keeps(v)
    /\ NoRunMoves
    /\ payslips' \subseteq payslips
    /\ \A v \in Workers : \A s \in tx[v].deleted : s \in payslips => s \in payslips'

\* A request of worker w ends and leaves no trace in payslips.
Leaves(w) ==
    /\ End(w)
    /\ NoRunMoves
    /\ payslips' = payslips

\* A worker that keeps its locals keeps all the above.
LEMMA SameKeeps ==
    ASSUME NEW v \in Workers, tx'[v] = tx[v], pc'[v] = pc[v]
    PROVE  Keeps(v)
BY DEF Keeps

\* A worker's step on its own locals is quiet when it keeps its writes.
LEMMA LocalQuiet ==
    ASSUME NEW w \in Workers, Keeps(w), OthersKeep(w), NoRunMoves,
           payslips' = payslips
    PROVE  Quiet
BY SameKeeps DEF OthersKeep, Quiet

LEMMA EndOthers ==
    ASSUME TypeOK, NEW w \in Workers, End(w)
    PROVE  OthersKeep(w) /\ tx'[w] = NoRequest /\ pc'[w] = "idle"
BY DEF TypeOK, End, OthersKeep

\* Every step is one of these.
LEMMA Classified ==
    ASSUME Typed, [Next]_vars
    PROVE  \/ Quiet
           \/ \E w \in Workers :
                 \/ Leaves(w)
                 \/ \E p \in Periods : LoadForRun(w, p)
                 \/ CollectPayslips(w)
                 \/ \E s \in tx[w].doomed : DeletePayslip(w, s)
                 \/ InsertPayslip(w)
                 \/ CommitRun(w)
<1> USE DEF Goto, TxnSteps, RunSteps
<1>0. TypeOK /\ tx \in [Workers -> Request] /\ pc \in [Workers -> Steps]
    BY DEF Typed, TypeOK
<1>1. ASSUME NEW w \in Workers,
             \/ AcceptForm(w)
             \/ DeletionDone(w)
             \/ \E x \in tx[w].todo : NextEmployee(w, x)
             \/ SkipEmployee(w)
             \/ \E p \in Periods : LoadForClose(w, p)
             \/ \E e \in Employees : LoadForEdit(w, e)
             \/ \E e \in Employees, p \in Periods, kind \in Kinds :
                   ValidateCompensation(w, e, p, kind)
      PROVE  Quiet
  <2>1. Keeps(w)
    <3>1. CASE AcceptForm(w)
      BY <1>0, <3>1 DEF AcceptForm, Keeps, Request
    <3>2. CASE DeletionDone(w)
      BY <1>0, <3>2 DEF DeletionDone, Keeps
    <3>3. CASE \E x \in tx[w].todo : NextEmployee(w, x)
      BY <1>0, <3>3 DEF NextEmployee, Keeps, Request
    <3>4. CASE SkipEmployee(w)
      BY <1>0, <3>4 DEF SkipEmployee, Keeps, Request
    <3>5. CASE \E p \in Periods : LoadForClose(w, p)
      BY <1>0, <3>5 DEF LoadForClose, Keeps, Request
    <3>6. CASE \E e \in Employees : LoadForEdit(w, e)
      BY <1>0, <3>6 DEF LoadForEdit, Keeps, Request
    <3>7. CASE \E e \in Employees, p \in Periods, kind \in Kinds :
                 ValidateCompensation(w, e, p, kind)
      BY <1>0, <3>7 DEF ValidateCompensation, Keeps, Request
    <3> QED BY <1>1, <3>1, <3>2, <3>3, <3>4, <3>5, <3>6, <3>7
  <2>2. OthersKeep(w)
    BY <1>0, <1>1 DEF AcceptForm, DeletionDone, NextEmployee, SkipEmployee, LoadForClose,
         LoadForEdit, ValidateCompensation, OthersKeep
  <2>3. NoRunMoves /\ payslips' = payslips
    BY <1>1 DEF AcceptForm, DeletionDone, NextEmployee, SkipEmployee, LoadForClose,
         LoadForEdit, ValidateCompensation, NoRunMoves, rows, history
  <2> QED BY <2>1, <2>2, <2>3, LocalQuiet
<1>2. ASSUME NEW w \in Workers, NEW kind \in Kinds,
             NEW next \in {"deduction", "reimbursement", "compute"},
             ReadLines(w, kind, next)
      PROVE  Quiet
  <2>1. Keeps(w)
    BY <1>0, <1>2 DEF ReadLines, Keeps, Request, Kinds
  <2>2. OthersKeep(w) /\ NoRunMoves /\ payslips' = payslips
    BY <1>0, <1>2 DEF ReadLines, OthersKeep, NoRunMoves, rows, history
  <2> QED BY <2>1, <2>2, LocalQuiet
<1>3. ASSUME NEW w \in Workers, ListEmployees(w)
      PROVE  Quiet
  <2>1. Keeps(w)
    BY <1>0, <1>3 DEF ListEmployees, Keeps, Request
  <2>2. OthersKeep(w) /\ payslips' = payslips
    BY <1>0, <1>3 DEF ListEmployees, OthersKeep, rows
  <2>3. NoRunMoves
    <3>1. \A r \in Runs : log'[r].runs = log[r].runs
      BY <1>0, <1>3 DEF ListEmployees, TypeOK, LogEntry
    <3> QED BY <1>3, <3>1 DEF ListEmployees, NoRunMoves
  <2> QED BY <2>1, <2>2, <2>3, LocalQuiet
<1>4. ASSUME NEW w \in Workers,
             \/ RefuseForm(w) \/ FailRun(w) \/ RollBackRun(w)
             \/ SaveClosed(w) \/ InsertCompensation(w) \/ SaveEmployee(w)
             \/ AbortDeadlocked(w) \/ Crash(w)
      PROVE  Leaves(w)
    BY <1>4 DEF RefuseForm, FailRun, RollBackRun, SaveClosed, InsertCompensation,
         SaveEmployee, AbortDeadlocked, Crash, Leaves, NoRunMoves, rows, history
<1>5. CASE Elsewhere
  <2>1. UNCHANGED <<tx, pc>> /\ NoRunMoves
    BY <1>5 DEF Elsewhere, Hire, DeleteEmployee, AdminSetStatus, AdminDeletePeriod,
         AdminDeletePayslip, AdminDeleteCompensation, Edits, AdminEditCompensation,
         NoRunMoves, history
  <2>2. \/ payslips' = payslips
        \/ \E s \in payslips : AdminDeletePayslip(s)
    BY <1>5 DEF Elsewhere, Hire, DeleteEmployee, AdminSetStatus, AdminDeletePeriod,
         AdminDeleteCompensation, Edits, AdminEditCompensation
  <2>3. payslips' \subseteq payslips
    BY <2>2 DEF AdminDeletePayslip
  <2>4. \A v \in Workers : \A s \in tx[v].deleted : s \in payslips => s \in payslips'
    BY <2>2 DEF AdminDeletePayslip
  <2> QED BY <2>1, <2>3, <2>4, SameKeeps DEF Quiet
<1>6. CASE UNCHANGED vars
    BY <1>6, SameKeeps DEF vars, rows, history, Quiet, NoRunMoves
<1> QED
    BY <1>1, <1>2, <1>3, <1>4, <1>5, <1>6
       DEF Next, Begin, Proceed, ReadBonuses, ReadDeductions, ReadReimbursements, Kinds

-----------------------------------------------------------------------------
(* The inductive invariant.                                                *)

\* Run numbers: a run under way is neither committed nor shared, and what a
\* run remembers, like what is in the table, has committed.
Sequenced ==
    /\ \A w \in Workers : /\ tx[w].run < nextRun
                          /\ tx[w].run \notin committed
    /\ \A v, w \in Workers : v # w /\ tx[v].run # 0 => tx[v].run # tx[w].run
    /\ \A r \in committed : r < nextRun
    /\ \A s \in payslips : s.run \in committed
    /\ \A r \in Runs : log[r].runs \subseteq committed

\* Uncommitted rows belong to a transaction, and inserted ones to its run.
InTransaction ==
    \A w \in Workers :
       /\ pc[w] \notin TxnSteps =>
            tx[w].doomed = {} /\ tx[w].deleted = {} /\ tx[w].inserted = {}
       /\ pc[w] # "delete" => tx[w].doomed = {}
       /\ \A s \in tx[w].inserted : s.run = tx[w].run /\ s.period \in tx[w].period

\* Row locks exclude each other, and a deleted row stays in the table until
\* its transaction commits.
Locks ==
    \A w \in Workers :
       /\ tx[w].deleted \subseteq payslips
       /\ \A v \in Workers \ {w} : tx[v].deleted \cap tx[w].deleted = {}

\* An uncommitted payslip shares its key with no row its transaction sees and
\* with no other uncommitted payslip.
Keys ==
    \A w \in Workers : \A s \in tx[w].inserted :
       /\ \A t \in payslips \ tx[w].deleted : ~SameKey(s, t)
       /\ \A v \in Workers : \A t \in tx[v].inserted : SameKey(s, t) => s = t /\ v = w

\* A transaction has deleted, or is still to delete, each payslip of its
\* period made by a run that had committed when it began.
Replacing ==
    \A w \in Workers : pc[w] \in TxnSteps =>
       \A s \in payslips :
          s.period \in tx[w].period /\ s.run \in log[tx[w].run].runs
             => s \in tx[w].doomed \cup tx[w].deleted

IInv == Typed /\ Sequenced /\ InTransaction /\ Locks /\ Keys /\ OnePayslip
          /\ Replacing /\ ReplacesEarlierRuns

\* It holds initially.
LEMMA InitIInv == Init => IInv
<1> SUFFICES ASSUME Init PROVE IInv
    OBVIOUS
<1>1. Typed
    BY TypeInit
<1> QED
    BY <1>1 DEF Init, IInv, Sequenced, InTransaction, Locks, Keys, OnePayslip, Replacing,
       ReplacesEarlierRuns, NoRequest, Runs, TxnSteps

\* What the steps that touch a transaction do, in full.
LEMMA LoadEffect ==
    ASSUME Typed, NEW w \in Workers, NEW p \in Periods, LoadForRun(w, p)
    PROVE  /\ OthersKeep(w)
           /\ pc[w] = "idle" /\ pc'[w] = "form"
           /\ tx'[w].run = nextRun /\ nextRun' = nextRun + 1
           /\ tx'[w].doomed = tx[w].doomed
           /\ tx'[w].deleted = tx[w].deleted
           /\ tx'[w].inserted = tx[w].inserted
           /\ payslips' = payslips /\ committed' = committed /\ log' = log
BY DEF Typed, TypeOK, LoadForRun, Goto, OthersKeep, Request, rows, history

LEMMA CollectEffect ==
    ASSUME Typed, NEW w \in Workers, CollectPayslips(w)
    PROVE  /\ OthersKeep(w)
           /\ pc[w] = "collect" /\ pc'[w] = "delete"
           /\ tx[w].run \in Runs /\ tx'[w].run = tx[w].run
           /\ tx'[w].period = tx[w].period
           /\ tx'[w].doomed = {s \in payslips : s.period \in tx[w].period}
           /\ tx'[w].deleted = tx[w].deleted
           /\ tx'[w].inserted = tx[w].inserted
           /\ payslips' = payslips /\ committed' = committed /\ nextRun' = nextRun
           /\ \A r \in Runs :
                 log'[r].runs = IF r = tx[w].run THEN committed ELSE log[r].runs
<1>0. tx \in [Workers -> Request] /\ pc \in [Workers -> Steps] /\ log \in [Runs -> LogEntry]
    BY DEF Typed, TypeOK
<1>1. tx[w].run \in Runs
    BY DEF Typed, Numbered, CollectPayslips, RunSteps
<1>2. \A r \in Runs : log'[r].runs = IF r = tx[w].run THEN committed ELSE log[r].runs
    BY <1>0 DEF CollectPayslips, LogEntry
<1>3. tx'[w] = [tx[w] EXCEPT !.doomed = {s \in payslips : s.period \in tx[w].period}]
    BY <1>0 DEF CollectPayslips, Replaced
<1> QED
    BY <1>0, <1>1, <1>2, <1>3 DEF CollectPayslips, Goto, OthersKeep, Request, rows

LEMMA DeleteEffect ==
    ASSUME Typed, NEW w \in Workers, NEW s \in tx[w].doomed, DeletePayslip(w, s)
    PROVE  /\ OthersKeep(w)
           /\ pc[w] = "delete" /\ pc' = pc
           /\ tx'[w].run = tx[w].run
           /\ tx'[w].period = tx[w].period
           /\ tx'[w].doomed = tx[w].doomed \ {s}
           /\ tx'[w].deleted = tx[w].deleted \cup ({s} \cap payslips)
           /\ tx'[w].inserted = tx[w].inserted
           /\ \A v \in Workers \ {w} : s \notin tx[v].deleted
           /\ payslips' = payslips /\ committed' = committed /\ nextRun' = nextRun
           /\ log' = log
<1>0. tx \in [Workers -> Request]
    BY DEF Typed, TypeOK
<1>1. tx'[w].doomed = tx[w].doomed \ {s}
    BY <1>0 DEF DeletePayslip, Request
<1>2. tx'[w].deleted = tx[w].deleted \cup ({s} \cap payslips)
    BY <1>0 DEF DeletePayslip, Request
<1>3. tx'[w].run = tx[w].run /\ tx'[w].period = tx[w].period /\ tx'[w].inserted = tx[w].inserted
    BY <1>0 DEF DeletePayslip, Request
<1>4. \A v \in Workers \ {w} : s \notin tx[v].deleted
    BY DEF DeletePayslip, LockedBy
<1> QED
    BY <1>0, <1>1, <1>2, <1>3, <1>4 DEF DeletePayslip, OthersKeep, rows, history

LEMMA InsertEffect ==
    ASSUME Typed, NEW w \in Workers, InsertPayslip(w)
    PROVE  \E s \in Payslip :
           /\ OthersKeep(w)
           /\ pc[w] = "compute" /\ pc'[w] = "each"
           /\ tx'[w].run = tx[w].run
           /\ tx'[w].period = tx[w].period
           /\ tx'[w].doomed = tx[w].doomed
           /\ tx'[w].deleted = tx[w].deleted
           /\ tx'[w].inserted = tx[w].inserted \cup {s}
           /\ s.run = tx[w].run /\ s.period \in tx[w].period
           /\ \A t \in (payslips \ tx[w].deleted) \cup tx[w].inserted : ~SameKey(s, t)
           /\ \A v \in Workers \ {w} : \A t \in tx[v].inserted : ~SameKey(s, t)
           /\ payslips' = payslips /\ committed' = committed /\ nextRun' = nextRun
           /\ log' = log
<1>0. tx \in [Workers -> Request] /\ pc \in [Workers -> Steps]
    BY DEF Typed, TypeOK
<1>1. PICK x \in tx[w].person, p \in tx[w].period :
         /\ InsertWaitsFor(w, NewPayslip(w, x, p)) = {}
         /\ ~KeyTaken(w, NewPayslip(w, x, p))
         /\ tx' = [tx EXCEPT ![w].inserted = @ \cup {NewPayslip(w, x, p)},
                             ![w].person = {}, ![w].lines = {}]
    BY DEF InsertPayslip
<1> DEFINE s == NewPayslip(w, x, p)
<1>2. tx[w].run \in Runs
    BY DEF InsertPayslip, Typed, Numbered, RunSteps, TxnSteps
<1>3. s \in Payslip /\ s.run = tx[w].run /\ s.period = p
    BY <1>0, <1>2 DEF NewPayslip, Payslip, Request, Person
<1>4. \A t \in (payslips \ tx[w].deleted) \cup tx[w].inserted : ~SameKey(s, t)
    BY <1>1 DEF KeyTaken
<1>5. \A v \in Workers \ {w} : \A t \in tx[v].inserted : ~SameKey(s, t)
    BY <1>1 DEF InsertWaitsFor
<1> HIDE DEF s
<1>6. tx' = [tx EXCEPT ![w].inserted = @ \cup {s}, ![w].person = {}, ![w].lines = {}]
    BY <1>1 DEF s
<1>7. /\ tx'[w].run = tx[w].run /\ tx'[w].period = tx[w].period
      /\ tx'[w].doomed = tx[w].doomed /\ tx'[w].deleted = tx[w].deleted
      /\ tx'[w].inserted = tx[w].inserted \cup {s}
    BY <1>0, <1>6 DEF Request
<1>8. OthersKeep(w) /\ pc[w] = "compute" /\ pc'[w] = "each"
    BY <1>0, <1>6 DEF InsertPayslip, OthersKeep, Goto
<1>9. payslips' = payslips /\ committed' = committed /\ nextRun' = nextRun /\ log' = log
    BY DEF InsertPayslip, rows, history
<1> QED BY <1>3, <1>4, <1>5, <1>7, <1>8, <1>9

\* What is left of a request that ended.
LEMMA LeaveEffect ==
    ASSUME Typed, NEW w \in Workers, End(w)
    PROVE  /\ OthersKeep(w)
           /\ pc'[w] = "idle"
           /\ tx'[w].run = 0 /\ tx'[w].period = {} /\ tx'[w].doomed = {}
           /\ tx'[w].deleted = {} /\ tx'[w].inserted = {}
BY EndOthers DEF Typed, NoRequest

\* The disjuncts of Classified, each with its effect.
LEMMA TypedStep == Typed /\ [Next]_vars => Typed'
<1> SUFFICES ASSUME Typed, [Next]_vars PROVE Typed'
    OBVIOUS
<1>1. TypeOK'
    BY TypeNext
<1>2. Numbered'
  <2> USE DEF Numbered, OthersKeep
  <2>1. CASE Quiet
    BY <2>1 DEF Typed, Quiet, Keeps
  <2>2. ASSUME NEW w \in Workers, Leaves(w) PROVE Numbered'
    BY <2>2, LeaveEffect DEF Typed, Leaves, RunSteps, TxnSteps
  <2>3. ASSUME NEW w \in Workers, NEW p \in Periods, LoadForRun(w, p) PROVE Numbered'
    <3>1. nextRun \in Runs
      BY <2>3 DEF LoadForRun, Typed, TypeOK, Runs
    <3> QED BY <2>3, <3>1, LoadEffect DEF Typed
  <2>4. ASSUME NEW w \in Workers, CollectPayslips(w) PROVE Numbered'
    BY <2>4, CollectEffect DEF Typed
  <2>5. ASSUME NEW w \in Workers, NEW s \in tx[w].doomed, DeletePayslip(w, s)
        PROVE  Numbered'
    BY <2>5, DeleteEffect DEF Typed
  <2>6. ASSUME NEW w \in Workers, InsertPayslip(w) PROVE Numbered'
    BY <2>6, InsertEffect DEF Typed, RunSteps, TxnSteps
  <2>7. ASSUME NEW w \in Workers, CommitRun(w) PROVE Numbered'
    BY <2>7, LeaveEffect DEF Typed, CommitRun, RunSteps, TxnSteps
  <2> QED BY <2>1, <2>2, <2>3, <2>4, <2>5, <2>6, <2>7, Classified
<1> QED BY <1>1, <1>2 DEF Typed

LEMMA SequencedStep ==
    ASSUME Typed, Sequenced, InTransaction, [Next]_vars
    PROVE  Sequenced'
<1> USE DEF Sequenced, OthersKeep
<1>0. /\ nextRun \in Nat \ {0} /\ committed \subseteq Runs
      /\ payslips \subseteq Payslip
      /\ \A w \in Workers : tx[w].run \in Nat
    BY DEF Typed, TypeOK, Request
<1>1. CASE Quiet
    BY <1>1 DEF Quiet, Keeps, NoRunMoves
<1>2. ASSUME NEW w \in Workers, Leaves(w) PROVE Sequenced'
    BY <1>0, <1>2, LeaveEffect DEF Leaves, NoRunMoves, Runs
<1>3. ASSUME NEW w \in Workers, NEW p \in Periods, LoadForRun(w, p) PROVE Sequenced'
  <2>1. /\ OthersKeep(w)
        /\ tx'[w].run = nextRun /\ nextRun' = nextRun + 1
        /\ payslips' = payslips /\ committed' = committed /\ log' = log
    BY <1>3, LoadEffect
  <2>2. \A v \in Workers : tx'[v].run < nextRun' /\ tx'[v].run \notin committed'
    BY <1>0, <2>1
  <2>3. \A v, x \in Workers : v # x /\ tx'[v].run # 0 => tx'[v].run # tx'[x].run
    BY <1>0, <2>1
  <2>4. \A r \in committed' : r < nextRun'
    BY <1>0, <2>1 DEF Runs
  <2> QED BY <2>1, <2>2, <2>3, <2>4
<1>4. ASSUME NEW w \in Workers, CollectPayslips(w) PROVE Sequenced'
    BY <1>4, CollectEffect
<1>5. ASSUME NEW w \in Workers, NEW s \in tx[w].doomed, DeletePayslip(w, s)
      PROVE  Sequenced'
    BY <1>5, DeleteEffect
<1>6. ASSUME NEW w \in Workers, InsertPayslip(w) PROVE Sequenced'
    BY <1>6, InsertEffect
<1>7. ASSUME NEW w \in Workers, CommitRun(w) PROVE Sequenced'
  <2>1. /\ payslips' = (payslips \ tx[w].deleted) \cup tx[w].inserted
        /\ committed' = committed \cup {tx[w].run}
        /\ nextRun' = nextRun /\ log' = log
        /\ End(w)
        /\ tx[w].run \in Runs
    BY <1>7 DEF CommitRun, Typed, Numbered, RunSteps, TxnSteps
  <2>2. \A s \in tx[w].inserted : s.run = tx[w].run
    BY DEF InTransaction
  <2> QED BY <1>0, <2>1, <2>2, LeaveEffect DEF Runs
<1> QED BY <1>1, <1>2, <1>3, <1>4, <1>5, <1>6, <1>7, Classified

LEMMA InTransactionStep ==
    ASSUME Typed, InTransaction, [Next]_vars
    PROVE  InTransaction'
<1> USE DEF InTransaction, OthersKeep
<1>1. CASE Quiet
    BY <1>1 DEF Quiet, Keeps, TxnSteps
<1>2. ASSUME NEW w \in Workers, Leaves(w) PROVE InTransaction'
    BY <1>2, LeaveEffect DEF Leaves
<1>3. ASSUME NEW w \in Workers, NEW p \in Periods, LoadForRun(w, p) PROVE InTransaction'
    BY <1>3, LoadEffect DEF TxnSteps
<1>4. ASSUME NEW w \in Workers, CollectPayslips(w) PROVE InTransaction'
    BY <1>4, CollectEffect DEF TxnSteps
<1>5. ASSUME NEW w \in Workers, NEW s \in tx[w].doomed, DeletePayslip(w, s)
      PROVE  InTransaction'
    BY <1>5, DeleteEffect DEF TxnSteps
<1>6. ASSUME NEW w \in Workers, InsertPayslip(w) PROVE InTransaction'
    BY <1>6, InsertEffect DEF TxnSteps
<1>7. ASSUME NEW w \in Workers, CommitRun(w) PROVE InTransaction'
    BY <1>7, LeaveEffect DEF CommitRun
<1> QED BY <1>1, <1>2, <1>3, <1>4, <1>5, <1>6, <1>7, Classified

LEMMA LocksStep ==
    ASSUME Typed, Sequenced, InTransaction, Locks, [Next]_vars
    PROVE  Locks'
<1> USE DEF Locks, OthersKeep
<1>1. CASE Quiet
    BY <1>1 DEF Quiet, Keeps
<1>2. ASSUME NEW w \in Workers, Leaves(w) PROVE Locks'
    BY <1>2, LeaveEffect DEF Leaves
<1>3. ASSUME NEW w \in Workers, NEW p \in Periods, LoadForRun(w, p) PROVE Locks'
    BY <1>3, LoadEffect
<1>4. ASSUME NEW w \in Workers, CollectPayslips(w) PROVE Locks'
    BY <1>4, CollectEffect
<1>5. ASSUME NEW w \in Workers, NEW s \in tx[w].doomed, DeletePayslip(w, s)
      PROVE  Locks'
    BY <1>5, DeleteEffect
<1>6. ASSUME NEW w \in Workers, InsertPayslip(w) PROVE Locks'
    BY <1>6, InsertEffect
<1>7. ASSUME NEW w \in Workers, CommitRun(w) PROVE Locks'
    BY <1>7, LeaveEffect DEF CommitRun
<1> QED BY <1>1, <1>2, <1>3, <1>4, <1>5, <1>6, <1>7, Classified

LEMMA KeysStep ==
    ASSUME Typed, Locks, Keys, [Next]_vars
    PROVE  Keys'
<1> USE DEF Keys, OthersKeep
<1>1. CASE Quiet
    BY <1>1 DEF Quiet, Keeps
<1>2. ASSUME NEW w \in Workers, Leaves(w) PROVE Keys'
    BY <1>2, LeaveEffect DEF Leaves
<1>3. ASSUME NEW w \in Workers, NEW p \in Periods, LoadForRun(w, p) PROVE Keys'
    BY <1>3, LoadEffect
<1>4. ASSUME NEW w \in Workers, CollectPayslips(w) PROVE Keys'
    BY <1>4, CollectEffect
<1>5. ASSUME NEW w \in Workers, NEW s \in tx[w].doomed, DeletePayslip(w, s)
      PROVE  Keys'
    BY <1>5, DeleteEffect
<1>6. ASSUME NEW w \in Workers, InsertPayslip(w) PROVE Keys'
    BY <1>6, InsertEffect DEF SameKey
<1>7. ASSUME NEW w \in Workers, CommitRun(w) PROVE Keys'
    BY <1>7, LeaveEffect DEF CommitRun, Locks
<1> QED BY <1>1, <1>2, <1>3, <1>4, <1>5, <1>6, <1>7, Classified

LEMMA ReplacingStep ==
    ASSUME Typed, Sequenced, InTransaction, Locks, Replacing, [Next]_vars
    PROVE  Replacing'
<1> USE DEF Replacing, OthersKeep
<1>0. \A w \in Workers : pc[w] \in TxnSteps => tx[w].run \in Runs
    BY DEF Typed, Numbered, RunSteps
<1>1. CASE Quiet
    BY <1>0, <1>1 DEF Quiet, Keeps, NoRunMoves
<1>2. ASSUME NEW w \in Workers, Leaves(w) PROVE Replacing'
    BY <1>0, <1>2, LeaveEffect DEF Leaves, NoRunMoves, TxnSteps
<1>3. ASSUME NEW w \in Workers, NEW p \in Periods, LoadForRun(w, p) PROVE Replacing'
    BY <1>3, LoadEffect DEF TxnSteps
<1>4. ASSUME NEW w \in Workers, CollectPayslips(w) PROVE Replacing'
    BY <1>0, <1>4, CollectEffect DEF Sequenced, Runs
<1>5. ASSUME NEW w \in Workers, NEW s \in tx[w].doomed, DeletePayslip(w, s)
      PROVE  Replacing'
    BY <1>5, DeleteEffect
<1>6. ASSUME NEW w \in Workers, InsertPayslip(w) PROVE Replacing'
    BY <1>6, InsertEffect DEF TxnSteps
<1>7. ASSUME NEW w \in Workers, CommitRun(w) PROVE Replacing'
  <2>1. /\ payslips' = (payslips \ tx[w].deleted) \cup tx[w].inserted
        /\ log' = log /\ End(w)
    BY <1>7 DEF CommitRun
  <2>2. \A v \in Workers : pc[v] \in TxnSteps =>
            \A s \in tx[w].inserted : s.run \notin log[tx[v].run].runs
    BY <1>0 DEF InTransaction, Sequenced
  <2> QED BY <2>1, <2>2, LeaveEffect DEF TxnSteps
<1> QED BY <1>1, <1>2, <1>3, <1>4, <1>5, <1>6, <1>7, Classified

\* Only a commit adds to payslips, and only CollectPayslips changes what a run
\* remembers.
LEMMA TableStep ==
    ASSUME Typed, Sequenced, InTransaction, Keys, OnePayslip, Replacing,
           ReplacesEarlierRuns, [Next]_vars
    PROVE  OnePayslip' /\ ReplacesEarlierRuns'
<1> USE DEF OnePayslip, ReplacesEarlierRuns
<1>0. \A s \in payslips : s.run \in Runs
    BY DEF Typed, TypeOK, Sequenced
<1>1. \A s, t : SameKey(s, t)' <=> SameKey(s, t)
    BY DEF SameKey
<1>2. CASE Quiet
    BY <1>0, <1>1, <1>2 DEF Quiet, NoRunMoves
<1>3. ASSUME NEW w \in Workers, Leaves(w) PROVE OnePayslip' /\ ReplacesEarlierRuns'
    BY <1>0, <1>1, <1>3 DEF Leaves, NoRunMoves
<1>4. ASSUME NEW w \in Workers, NEW p \in Periods, LoadForRun(w, p)
      PROVE  OnePayslip' /\ ReplacesEarlierRuns'
    BY <1>1, <1>4, LoadEffect
<1>5. ASSUME NEW w \in Workers, CollectPayslips(w)
      PROVE  OnePayslip' /\ ReplacesEarlierRuns'
    BY <1>0, <1>1, <1>5, CollectEffect DEF Sequenced
<1>6. ASSUME NEW w \in Workers, NEW s \in tx[w].doomed, DeletePayslip(w, s)
      PROVE  OnePayslip' /\ ReplacesEarlierRuns'
    BY <1>1, <1>6, DeleteEffect
<1>7. ASSUME NEW w \in Workers, InsertPayslip(w)
      PROVE  OnePayslip' /\ ReplacesEarlierRuns'
    BY <1>1, <1>7, InsertEffect
<1>8. ASSUME NEW w \in Workers, CommitRun(w)
      PROVE  OnePayslip' /\ ReplacesEarlierRuns'
  <2> DEFINE kept == payslips \ tx[w].deleted
  <2>1. /\ payslips' = kept \cup tx[w].inserted /\ log' = log
        /\ pc[w] \in TxnSteps /\ pc[w] # "delete"
    BY <1>8 DEF CommitRun, TxnSteps
  <2>2. tx[w].run \in Runs /\ tx[w].run \notin committed
    BY <2>1 DEF Typed, Numbered, Sequenced, RunSteps
  <2>3. \A s \in tx[w].inserted : s.run = tx[w].run /\ s.period \in tx[w].period
    BY DEF InTransaction
  <2>4. OnePayslip'
    <3>1. \A s \in tx[w].inserted, t \in kept : ~SameKey(s, t) /\ ~SameKey(t, s)
      BY DEF Keys, SameKey
    <3>2. \A s, t \in tx[w].inserted : SameKey(s, t) => s = t
      BY DEF Keys
    <3> QED BY <1>1, <2>1, <3>1, <3>2
  <2>5. ASSUME NEW s \in payslips', NEW t \in payslips', s.period = t.period
        PROVE  s.run \notin log[t.run].runs
    <3>1. CASE s \in kept /\ t \in kept
      BY <2>5, <3>1
    <3>2. CASE s \in kept /\ t \in tx[w].inserted
      <4>1. tx[w].doomed = {}
        BY <2>1 DEF InTransaction
      <4> QED BY <2>1, <2>3, <2>5, <3>2, <4>1 DEF Replacing
    <3>3. CASE s \in tx[w].inserted /\ t \in payslips'
      <4>1. t.run \in Runs
        BY <1>0, <2>1, <2>2, <2>3
      <4> QED BY <2>2, <2>3, <3>3, <4>1 DEF Sequenced
    <3> QED BY <2>1, <3>1, <3>2, <3>3
  <2> QED BY <2>1, <2>4, <2>5
<1> QED BY <1>2, <1>3, <1>4, <1>5, <1>6, <1>7, <1>8, Classified

\* The invariant is inductive.
LEMMA IInvStep == IInv /\ [Next]_vars => IInv'
BY TypedStep, SequencedStep, InTransactionStep, LocksStep, KeysStep, ReplacingStep,
   TableStep DEF IInv

\* The invariant holds in every reachable state.
THEOREM Invariant == Spec => []IInv
<1>1. Init => IInv
    BY InitIInv
<1>2. IInv /\ [Next]_vars => IInv'
    BY IInvStep
<1> QED BY <1>1, <1>2, PTL DEF Spec

\* Every reachable state is well typed: rows, requests and uncommitted writes
\* of run_payroll_for_period and of the requests around it.
THEOREM TypeCorrect == Spec => []TypeOK
<1>1. IInv => TypeOK
    BY DEF IInv, Typed
<1> QED BY <1>1, Invariant, PTL

\* No employee ever has two payslips in a period, however many runs of it
\* overlap, wait, fail or are aborted.
THEOREM PayslipsUnique == Spec => []OnePayslip
<1>1. IInv => OnePayslip
    BY DEF IInv
<1> QED BY <1>1, Invariant, PTL

\* "Existing payslips for the period are deleted": all those of runs that had
\* committed before a run began are gone when its own appear.
THEOREM EarlierRunsReplaced == Spec => []ReplacesEarlierRuns
<1>1. IInv => ReplacesEarlierRuns
    BY DEF IInv
<1> QED BY <1>1, Invariant, PTL

-----------------------------------------------------------------------------
(* Runs that do not overlap.                                               *)

\* No two transactions of runs work on the same period at once.
Alone ==
    \A v, w \in Workers : v # w /\ pc[v] \in TxnSteps /\ pc[w] \in TxnSteps =>
       tx[v].period \cap tx[w].period = {}

\* Nothing has come into a run's period since its transaction began.
Undisturbed ==
    \A w \in Workers : pc[w] \in TxnSteps =>
       \A s \in payslips :
          s.period \in tx[w].period => s.run \in log[tx[w].run].runs

LEMMA UndisturbedStep ==
    ASSUME IInv, Undisturbed, Alone, [Next]_vars
    PROVE  Undisturbed'
<1> USE DEF Undisturbed, OthersKeep
<1>0. Typed /\ \A w \in Workers : pc[w] \in TxnSteps => tx[w].run \in Runs
    BY DEF IInv, Typed, Numbered, RunSteps
<1>1. CASE Quiet
    BY <1>0, <1>1 DEF Quiet, Keeps, NoRunMoves
<1>2. ASSUME NEW w \in Workers, Leaves(w) PROVE Undisturbed'
    BY <1>0, <1>2, LeaveEffect DEF Leaves, NoRunMoves, TxnSteps
<1>3. ASSUME NEW w \in Workers, NEW p \in Periods, LoadForRun(w, p) PROVE Undisturbed'
    BY <1>0, <1>3, LoadEffect DEF TxnSteps
<1>4. ASSUME NEW w \in Workers, CollectPayslips(w) PROVE Undisturbed'
    BY <1>0, <1>4, CollectEffect DEF IInv, Sequenced, Runs
<1>5. ASSUME NEW w \in Workers, NEW s \in tx[w].doomed, DeletePayslip(w, s)
      PROVE  Undisturbed'
    BY <1>0, <1>5, DeleteEffect
<1>6. ASSUME NEW w \in Workers, InsertPayslip(w) PROVE Undisturbed'
    BY <1>0, <1>6, InsertEffect DEF TxnSteps
<1>7. ASSUME NEW w \in Workers, CommitRun(w) PROVE Undisturbed'
  <2>1. /\ payslips' = (payslips \ tx[w].deleted) \cup tx[w].inserted
        /\ log' = log /\ pc[w] \in TxnSteps /\ End(w)
    BY <1>7 DEF CommitRun, TxnSteps
  <2>2. ASSUME NEW v \in Workers \ {w}, pc[v] \in TxnSteps, NEW s \in tx[w].inserted
        PROVE  s.period \notin tx[v].period
    BY <2>1, <2>2 DEF Alone, IInv, InTransaction
  <2> QED BY <1>0, <2>1, <2>2, LeaveEffect DEF TxnSteps
<1> QED BY <1>0, <1>1, <1>2, <1>3, <1>4, <1>5, <1>6, <1>7, Classified

\* But for the commit of a run, payslips at most go.
LEMMA OnlyCommitAdds ==
    ASSUME Typed, [Next]_vars, \A w \in Workers : ~CommitRun(w)
    PROVE  payslips' \subseteq payslips
BY Classified, LoadEffect, CollectEffect, DeleteEffect, InsertEffect DEF Quiet, Leaves

\* A commit leaves nothing of its period but what it has inserted.
LEMMA OneRunStep ==
    ASSUME IInv, Undisturbed, OneRunPerPeriod, [Next]_vars
    PROVE  OneRunPerPeriod'
<1> USE DEF OneRunPerPeriod
<1>1. ASSUME NEW w \in Workers, CommitRun(w) PROVE OneRunPerPeriod'
  <2>1. /\ payslips' = (payslips \ tx[w].deleted) \cup tx[w].inserted
        /\ pc[w] \in TxnSteps /\ pc[w] # "delete"
    BY <1>1 DEF CommitRun, TxnSteps
  <2>2. \A s \in tx[w].inserted : s.run = tx[w].run /\ s.period \in tx[w].period
    BY DEF IInv, InTransaction
  <2>3. ASSUME NEW s \in payslips \ tx[w].deleted PROVE s.period \notin tx[w].period
    <3>1. tx[w].doomed = {}
      BY <2>1 DEF IInv, InTransaction
    <3> QED BY <2>1, <2>3, <3>1 DEF Undisturbed, IInv, Replacing
  <2> QED BY <2>1, <2>2, <2>3
<1>2. CASE \A w \in Workers : ~CommitRun(w)
  <2>1. payslips' \subseteq payslips
    BY <1>2, OnlyCommitAdds DEF IInv
  <2> QED BY <2>1
<1> QED BY <1>1, <1>2

\* "Existing payslips for the period are deleted and recreated, so re-running
\* is safe": this holds as long as transactions on one period do not overlap,
\* which nothing in run_payroll_view or run_payroll_for_period sees to.
THEOREM RerunsAlone == Spec /\ []Alone => []OneRunPerPeriod
<1>1. Init => Undisturbed /\ OneRunPerPeriod
    BY DEF Init, Undisturbed, OneRunPerPeriod, TxnSteps
<1>2. IInv /\ Undisturbed /\ Alone /\ [Next]_vars => Undisturbed'
    BY UndisturbedStep
<1>3. IInv /\ Undisturbed /\ OneRunPerPeriod /\ [Next]_vars => OneRunPerPeriod'
    BY OneRunStep
<1> QED BY <1>1, <1>2, <1>3, Invariant, PTL DEF Spec

-----------------------------------------------------------------------------
(* References.                                                             *)

\* What a run's commit checks, and what protects an employee or a period from
\* deletion, keep every reference whole.
LEMMA NoDanglingStep ==
    ASSUME Typed, NoDangling, [Next]_vars
    PROVE  NoDangling'
<1> USE DEF NoDangling, Employed, Stored
<1>0. /\ status \in [Periods -> {"open", "closed", "deleted"}]
      /\ staff \in [Employees -> {"unborn", "active", "inactive", "deleted"}]
      /\ tx \in [Workers -> Request] /\ comp \subseteq CompLine /\ payslips \subseteq Payslip
    BY DEF Typed, TypeOK
<1>1. ASSUME NEW w \in Workers, Begin(w) PROVE NoDangling'
    BY <1>1 DEF Begin, LoadForRun, LoadForClose, ValidateCompensation, LoadForEdit, rows
<1>2. ASSUME NEW w \in Workers, Proceed(w) PROVE NoDangling'
  <2>1. CASE CommitRun(w)
    BY <1>0, <2>1 DEF CommitRun, ReferencesHold
  <2>2. CASE SaveClosed(w)
    BY <1>0, <2>2 DEF SaveClosed, SetStatus, Closed, Payslip, CompLine
  <2>3. CASE InsertCompensation(w)
    BY <1>0, <2>3 DEF InsertCompensation
  <2>4. CASE SaveEmployee(w)
    BY <1>0, <2>4 DEF SaveEmployee, Payslip, CompLine
  <2>5. CASE \/ AcceptForm(w) \/ RefuseForm(w) \/ CollectPayslips(w)
             \/ \E s \in tx[w].doomed : DeletePayslip(w, s)
             \/ DeletionDone(w) \/ ListEmployees(w)
             \/ \E x \in tx[w].todo : NextEmployee(w, x)
             \/ ReadBonuses(w) \/ ReadDeductions(w) \/ ReadReimbursements(w)
             \/ SkipEmployee(w) \/ InsertPayslip(w) \/ FailRun(w) \/ RollBackRun(w)
    <3>1. UNCHANGED rows
      BY <2>5 DEF AcceptForm, RefuseForm, CollectPayslips, DeletePayslip, DeletionDone,
         ListEmployees, NextEmployee, ReadBonuses, ReadDeductions, ReadReimbursements,
         ReadLines, SkipEmployee, InsertPayslip, FailRun, RollBackRun
    <3> QED BY <3>1 DEF rows
  <2> QED BY <1>2, <2>1, <2>2, <2>3, <2>4, <2>5 DEF Proceed
<1>3. ASSUME NEW w \in Workers, AbortDeadlocked(w) \/ Crash(w) PROVE NoDangling'
    BY <1>3 DEF AbortDeadlocked, Crash, rows
<1>4. ASSUME NEW e \in Employees, Hire(e) \/ DeleteEmployee(e) PROVE NoDangling'
    BY <1>0, <1>4 DEF Hire, DeleteEmployee, Payslip, CompLine
<1>5. ASSUME NEW p \in Periods,
             (\E s \in {"open", Closed} : AdminSetStatus(p, s)) \/ AdminDeletePeriod(p)
      PROVE  NoDangling'
    BY <1>0, <1>5 DEF AdminSetStatus, AdminDeletePeriod, SetStatus, Closed, Payslip, CompLine
<1>6. CASE (\E s \in payslips : AdminDeletePayslip(s))
             \/ (\E l \in comp : AdminDeleteCompensation(l))
    BY <1>6 DEF AdminDeletePayslip, AdminDeleteCompensation
<1>7. ASSUME NEW l \in comp, Edits(l) PROVE NoDangling'
    BY <1>0, <1>7 DEF Edits, AdminEditCompensation, CompLine
<1>8. CASE UNCHANGED vars
    BY <1>8 DEF vars, rows
<1> QED BY <1>1, <1>2, <1>3, <1>4, <1>5, <1>6, <1>7, <1>8 DEF Next, Elsewhere

\* A payslip or compensation line never references a missing employee or
\* period, whatever is deleted during a run: foreign keys at the commit on one
\* side, PROTECT on the other.
THEOREM ReferencesWhole == Spec => []NoDangling
<1>1. Init => NoDangling
    BY DEF Init, NoDangling
<1>2. IInv /\ NoDangling /\ [Next]_vars => NoDangling'
    BY NoDanglingStep DEF IInv
<1> QED BY <1>1, <1>2, Invariant, PTL DEF Spec

-----------------------------------------------------------------------------
(* Closing.                                                                *)

\* Whoever may still add rows to a closed period was past the open check when
\* it was closed; and the line a request is to insert is of the period it
\* loaded.
Sealing ==
    /\ \A p \in Periods : status[p] = "closed" => Adding(p) \subseteq racing[p]
    /\ \A w \in Workers : pc[w] = "addcomp" =>
          \A l \in tx[w].lines : l.period \in tx[w].period

AddSteps == RunSteps \cup {"addcomp"}

\* Worker w keeps its period and its right to add to it.
KeepsAdding(w) ==
    /\ tx'[w].period = tx[w].period
    /\ pc'[w] \in AddSteps <=> pc[w] \in AddSteps
    /\ pc'[w] # "addcomp"
    /\ OthersKeep(w)

\* A request that stays under way, or ends, adds nobody to a closed period.
LEMMA KeepSealing ==
    ASSUME Sealing, NEW w \in Workers, KeepsAdding(w), UNCHANGED <<status, racing>>
    PROVE  Sealing'
BY DEF Sealing, KeepsAdding, OthersKeep, Adding, AddSteps

LEMMA EndSealing ==
    ASSUME Typed, Sealing, NEW w \in Workers, End(w), racing' = Finished(w),
           UNCHANGED status
    PROVE  Sealing'
<1>1. OthersKeep(w) /\ pc'[w] = "idle"
    BY LeaveEffect
<1>2. \A p \in Periods : Adding(p)' \subseteq Adding(p) \ {w}
    BY <1>1 DEF OthersKeep, Adding, RunSteps, TxnSteps
<1>3. \A p \in Periods : racing'[p] = racing[p] \ {w}
    BY DEF Finished
<1>4. \A v \in Workers : pc'[v] = "addcomp" => tx'[v] = tx[v] /\ pc'[v] = pc[v]
    BY <1>1 DEF OthersKeep
<1> QED BY <1>2, <1>3, <1>4 DEF Sealing

\* Setting a period's status keeps the others' and records who may still add.
LEMMA StatusSealing ==
    ASSUME Typed, Sealing, NEW q \in Periods, NEW s \in {"open", "closed", "deleted"},
           SetStatus(q, s), \A p \in Periods : Adding(p)' \subseteq Adding(p),
           \A w \in Workers : pc'[w] = "addcomp" => tx'[w] = tx[w] /\ pc'[w] = pc[w]
    PROVE  Sealing'
<1>0. status \in [Periods -> {"open", "closed", "deleted"}]
      /\ racing \in [Periods -> SUBSET Workers]
    BY DEF Typed, TypeOK
<1>1. ASSUME NEW p \in Periods, status'[p] = "closed" PROVE Adding(p)' \subseteq racing'[p]
    BY <1>0, <1>1 DEF SetStatus, Closed, Sealing
<1> QED BY <1>1 DEF Sealing

LEMMA SealingStep ==
    ASSUME Typed, Sealing, [Next]_vars
    PROVE  Sealing'
<1> USE DEF Goto
<1>0. /\ status \in [Periods -> {"open", "closed", "deleted"}]
      /\ tx \in [Workers -> Request] /\ pc \in [Workers -> Steps]
    BY DEF Typed, TypeOK
<1>1. ASSUME NEW w \in Workers, Begin(w) PROVE Sealing'
  <2>1. UNCHANGED <<status, racing>> /\ pc[w] = "idle" /\ OthersKeep(w)
    BY <1>0, <1>1 DEF Begin, LoadForRun, LoadForClose, ValidateCompensation, LoadForEdit,
       OthersKeep, rows, history
  <2>2. ASSUME NEW p \in Periods, p \in tx'[w].period, pc'[w] \in AddSteps
        PROVE  status[p] = "open"
    <3>1. CASE \E q \in Periods : LoadForRun(w, q)
      BY <1>0, <2>2, <3>1 DEF LoadForRun, IsOpen, Request
    <3>2. CASE \E e \in Employees, q \in Periods, kind \in Kinds :
                 ValidateCompensation(w, e, q, kind)
      BY <1>0, <2>2, <3>2 DEF ValidateCompensation, IsOpen, Request
    <3>3. CASE (\E q \in Periods : LoadForClose(w, q)) \/ (\E e \in Employees : LoadForEdit(w, e))
      BY <1>0, <2>2, <3>3 DEF LoadForClose, LoadForEdit, AddSteps, RunSteps, TxnSteps
    <3> QED BY <1>1, <3>1, <3>2, <3>3 DEF Begin
  <2>3. pc'[w] = "addcomp" => \A l \in tx'[w].lines : l.period \in tx'[w].period
    <3>1. CASE \E e \in Employees, q \in Periods, kind \in Kinds :
                 ValidateCompensation(w, e, q, kind)
      <4>1. PICK e \in Employees, q \in Periods, kind \in Kinds :
               tx' = [tx EXCEPT ![w].period = {q},
                                ![w].lines = {[id |-> nextLine, kind |-> kind,
                                               employee |-> e, period |-> q]}]
        BY <3>1 DEF ValidateCompensation
      <4>2. tx'[w].period = {q}
        BY <1>0, <4>1 DEF Request
      <4>3. tx'[w].lines = {[id |-> nextLine, kind |-> kind, employee |-> e, period |-> q]}
        BY <1>0, <4>1 DEF Request
      <4> QED BY <4>2, <4>3
    <3>2. CASE \/ \E q \in Periods : LoadForRun(w, q) \/ LoadForClose(w, q)
               \/ \E e \in Employees : LoadForEdit(w, e)
      BY <1>0, <3>2 DEF LoadForRun, LoadForClose, LoadForEdit
    <3> QED BY <1>1, <3>1, <3>2 DEF Begin
  <2>4. ASSUME NEW p \in Periods, status'[p] = "closed" PROVE Adding(p)' \subseteq racing'[p]
    BY <2>1, <2>2, <2>4 DEF Adding, AddSteps, OthersKeep, Sealing
  <2> QED BY <2>1, <2>3, <2>4 DEF Sealing, OthersKeep
<1>2. ASSUME NEW w \in Workers, Proceed(w) PROVE Sealing'
  <2>1. CASE \/ RefuseForm(w) \/ FailRun(w) \/ RollBackRun(w) \/ CommitRun(w)
             \/ InsertCompensation(w)
    <3>1. End(w) /\ racing' = Finished(w) /\ UNCHANGED status
      BY <2>1 DEF RefuseForm, FailRun, RollBackRun, CommitRun, InsertCompensation, rows
    <3> QED BY <3>1, EndSealing
  <2>2. CASE SaveClosed(w)
    <3>1. PICK q \in tx[w].period : SetStatus(q, "closed")
      BY <2>2 DEF SaveClosed, Closed
    <3>2. q \in Periods
      BY <1>0 DEF Request
    <3>3. OthersKeep(w) /\ pc'[w] = "idle"
      BY <2>2, LeaveEffect DEF SaveClosed
    <3>4. \A p \in Periods : Adding(p)' \subseteq Adding(p)
      BY <3>3 DEF Adding, OthersKeep, RunSteps, TxnSteps
    <3> QED BY <3>1, <3>2, <3>3, <3>4, StatusSealing DEF OthersKeep
  <2>3. CASE SaveEmployee(w)
    <3>1. OthersKeep(w) /\ pc'[w] = "idle" /\ UNCHANGED <<status, racing>>
      BY <2>3, LeaveEffect DEF SaveEmployee, history
    <3>2. \A p \in Periods : Adding(p)' \subseteq Adding(p)
      BY <3>1 DEF Adding, OthersKeep, RunSteps, TxnSteps
    <3> QED BY <3>1, <3>2 DEF Sealing, OthersKeep
  <2>4. CASE \/ AcceptForm(w) \/ CollectPayslips(w) \/ DeletionDone(w) \/ ListEmployees(w)
    <3>1. UNCHANGED <<status, racing>>
      BY <2>4 DEF AcceptForm, CollectPayslips, DeletionDone, ListEmployees, rows, history
    <3>2. OthersKeep(w)
      BY <1>0, <2>4 DEF AcceptForm, CollectPayslips, DeletionDone, ListEmployees, OthersKeep
    <3>3. tx'[w].period = tx[w].period
      BY <1>0, <2>4 DEF AcceptForm, CollectPayslips, DeletionDone, ListEmployees, Request
    <3>4. pc[w] \in AddSteps /\ pc'[w] \in AddSteps \ {"addcomp"}
      BY <1>0, <2>4 DEF AcceptForm, CollectPayslips, DeletionDone, ListEmployees, AddSteps,
         RunSteps, TxnSteps
    <3> QED BY <3>1, <3>2, <3>3, <3>4, KeepSealing DEF KeepsAdding
  <2>5. CASE \E s \in tx[w].doomed : DeletePayslip(w, s)
    <3>1. UNCHANGED <<status, racing, pc>> /\ pc[w] = "delete"
      BY <2>5 DEF DeletePayslip, rows, history
    <3>2. OthersKeep(w) /\ tx'[w].period = tx[w].period
      BY <2>5, DeleteEffect
    <3> QED BY <3>1, <3>2, KeepSealing DEF KeepsAdding
  <2>6. CASE \/ \E x \in tx[w].todo : NextEmployee(w, x)
             \/ SkipEmployee(w) \/ InsertPayslip(w)
    <3>1. UNCHANGED <<status, racing>>
      BY <2>6 DEF NextEmployee, SkipEmployee, InsertPayslip, rows, history
    <3>2. OthersKeep(w) /\ tx'[w].period = tx[w].period
      <4>1. CASE InsertPayslip(w)
        BY <4>1, InsertEffect DEF Typed
      <4>2. CASE SkipEmployee(w)
        BY <1>0, <4>2 DEF SkipEmployee, OthersKeep, Goto, Request
      <4>3. ASSUME NEW x \in tx[w].todo, NextEmployee(w, x)
            PROVE  OthersKeep(w) /\ tx'[w].period = tx[w].period
        BY <1>0, <4>3 DEF NextEmployee, OthersKeep, Goto, Request
      <4> QED BY <2>6, <4>1, <4>2, <4>3
    <3>3. pc[w] \in AddSteps /\ pc'[w] \in AddSteps \ {"addcomp"}
      BY <1>0, <2>6 DEF NextEmployee, SkipEmployee, InsertPayslip, AddSteps, RunSteps, TxnSteps
    <3> QED BY <3>1, <3>2, <3>3, KeepSealing DEF KeepsAdding
  <2>7. ASSUME NEW kind \in {"bonus", "deduction", "reimbursement"},
               NEW next \in {"deduction", "reimbursement", "compute"},
               ReadLines(w, kind, next)
        PROVE  Sealing'
    <3>1. UNCHANGED <<status, racing>>
      BY <2>7 DEF ReadLines, rows, history
    <3>2. OthersKeep(w) /\ tx'[w].period = tx[w].period
      BY <1>0, <2>7 DEF ReadLines, OthersKeep, Request
    <3>3. pc[w] \in AddSteps /\ pc'[w] \in AddSteps \ {"addcomp"}
      BY <1>0, <2>7 DEF ReadLines, AddSteps, RunSteps, TxnSteps
    <3> QED BY <3>1, <3>2, <3>3, KeepSealing DEF KeepsAdding
  <2> QED
    BY <1>2, <2>1, <2>2, <2>3, <2>4, <2>5, <2>6, <2>7
       DEF Proceed, ReadBonuses, ReadDeductions, ReadReimbursements
<1>3. ASSUME NEW w \in Workers, AbortDeadlocked(w) \/ Crash(w) PROVE Sealing'
    BY <1>3, EndSealing DEF AbortDeadlocked, Crash, rows
<1>4. CASE Elsewhere
  <2>1. UNCHANGED <<tx, pc>>
    BY <1>4 DEF Elsewhere, Hire, DeleteEmployee, AdminSetStatus, AdminDeletePeriod,
       AdminDeletePayslip, AdminDeleteCompensation, Edits, AdminEditCompensation
  <2>2. \A p \in Periods : Adding(p)' = Adding(p)
    BY <2>1 DEF Adding
  <2>3. \/ UNCHANGED <<status, racing>>
        \/ \E p \in Periods, s \in {"open", "closed", "deleted"} : SetStatus(p, s)
    BY <1>4 DEF Elsewhere, Hire, DeleteEmployee, AdminSetStatus, AdminDeletePeriod,
       AdminDeletePayslip, AdminDeleteCompensation, Edits, AdminEditCompensation,
       history, Closed
  <2>4. CASE UNCHANGED <<status, racing>>
    BY <2>1, <2>2, <2>4 DEF Sealing
  <2> QED BY <2>1, <2>2, <2>3, <2>4, StatusSealing
<1>5. CASE UNCHANGED vars
    BY <1>5 DEF vars, rows, history, Sealing, Adding
<1> QED BY <1>1, <1>2, <1>3, <1>4, <1>5 DEF Next

\* But for the super-admin's edits, only a commit of a run, or the insertion of
\* a compensation line, adds rows, and only to the period its request loaded.
LEMMA GainsFromAdding ==
    ASSUME Typed, InTransaction, Sealing, [Next]_vars, NEW p \in Periods,
           ~(\E l \in comp : Edits(l)),
           ~(RowsIn(p)' \subseteq RowsIn(p))
    PROVE  Adding(p) # {}
<1>1. PICK r : r \in RowsIn(p)' /\ r \notin RowsIn(p)
    BY Zenon
<1>2. r.period = p /\ (r \in payslips' \ payslips \/ r \in comp' \ comp)
    BY <1>1 DEF RowsIn
<1>3. CASE r \in payslips' \ payslips
  <2>1. PICK w \in Workers : CommitRun(w)
    BY <1>3, OnlyCommitAdds
  <2>2. r \in tx[w].inserted /\ pc[w] = "each"
    BY <1>3, <2>1 DEF CommitRun
  <2>3. p \in tx[w].period
    BY <1>2, <2>2 DEF InTransaction
  <2> QED BY <2>2, <2>3 DEF Adding, RunSteps, TxnSteps
<1>4. CASE r \in comp' \ comp
  <2>1. PICK w \in Workers : InsertCompensation(w)
    <3>1. ASSUME NEW w \in Workers, Begin(w) PROVE comp' = comp
      BY <3>1 DEF Begin, LoadForRun, LoadForClose, ValidateCompensation, LoadForEdit, rows
    <3>2. ASSUME NEW w \in Workers, Proceed(w), ~InsertCompensation(w) PROVE comp' = comp
      BY <3>2 DEF Proceed, AcceptForm, RefuseForm, CollectPayslips, DeletePayslip,
         DeletionDone, ListEmployees, NextEmployee, ReadBonuses, ReadDeductions,
         ReadReimbursements, ReadLines, SkipEmployee, InsertPayslip, FailRun, CommitRun,
         RollBackRun, SaveClosed, SaveEmployee, rows
    <3>3. ASSUME NEW w \in Workers, AbortDeadlocked(w) \/ Crash(w) PROVE comp' = comp
      BY <3>3 DEF AbortDeadlocked, Crash, rows
    <3>4. Elsewhere => comp' \subseteq comp
      BY DEF Elsewhere, Hire, DeleteEmployee, AdminSetStatus, AdminDeletePeriod,
         AdminDeletePayslip, AdminDeleteCompensation
    <3>5. UNCHANGED vars => comp' = comp
      BY DEF vars, rows
    <3> QED BY <1>4, <3>1, <3>2, <3>3, <3>4, <3>5 DEF Next
  <2>2. r \in tx[w].lines /\ pc[w] = "addcomp"
    BY <1>4, <2>1 DEF InsertCompensation
  <2>3. p \in tx[w].period
    BY <1>2, <2>2 DEF Sealing
  <2> QED BY <2>2, <2>3 DEF Adding
<1> QED BY <1>2, <1>3, <1>4

\* Once a period is closed and the requests that had passed the open check
\* have ended, it gains neither a payslip nor a compensation line but those the
\* super-admin moves into it.
THEOREM ClosingSeals == Spec => SealedAfterClose
<1>1. Init => Sealing
    BY DEF Init, Sealing, Adding, RunSteps, TxnSteps
<1>2. IInv /\ Sealing /\ [Next]_vars => Sealing'
    BY SealingStep DEF IInv
<1>3. IInv /\ Sealing /\ [Next]_vars =>
        [\/ \E l \in comp : Edits(l)
         \/ \A p \in Periods :
               status[p] = "closed" /\ racing[p] = {} => RowsIn(p)' \subseteq RowsIn(p)]_vars
  <2> SUFFICES ASSUME IInv, Sealing, [Next]_vars, NEW p \in Periods,
                      ~(\E l \in comp : Edits(l)),
                      status[p] = "closed", racing[p] = {}
               PROVE  RowsIn(p)' \subseteq RowsIn(p)
    OBVIOUS
  <2>1. Adding(p) = {}
    BY DEF Sealing
  <2> QED BY <2>1, GainsFromAdding DEF IInv
<1> QED BY <1>1, <1>2, <1>3, Invariant, PTL DEF Spec, SealedAfterClose
=============================================================================
