----------------------- MODULE PayrollRunLedger_proofs -----------------------
(***************************************************************************)
(* What a payroll run pays, and what a reader of payslips sees of it, for  *)
(* any number of employees, periods, workers and runs: a run's payslips    *)
(* appear together and for whom it listed, with the lines of their         *)
(* employees, and PayrollRun implements PayrollLedger.                     *)
(***************************************************************************)
EXTENDS PayrollRunLedger, PayrollRun_proofs

-----------------------------------------------------------------------------
(* The course of a run.                                                    *)

LineSteps == {"bonus", "deduction", "reimbursement", "compute"}

\* A run works on one period, on nobody before it has listed its employees,
\* and then on one employee at a time.
Course ==
    \A w \in Workers :
       /\ pc[w] = "idle" => tx[w] = NoRequest
       /\ pc[w] \in RunSteps \ (LineSteps \cup {"each"}) =>
             tx[w].person = {} /\ tx[w].inserted = {}
       /\ pc[w] = "each" => tx[w].person = {}
       /\ pc[w] \in LineSteps => \E x \in Person : tx[w].person = {x}
       /\ pc[w] \in RunSteps => \E p \in Periods : tx[w].period = {p}

\* Worker w's run goes on to its next statement.
Advance(w, step, next) ==
    /\ OthersKeep(w)
    /\ pc[w] = step /\ pc'[w] = next
    /\ tx'[w].run = tx[w].run /\ tx'[w].period = tx[w].period

\* Worker w takes a request that is not a run.
Takes(w) ==
    /\ pc[w] = "idle" /\ pc'[w] \in {"close", "addcomp", "edit"}
    /\ tx'[w].inserted = tx[w].inserted
    /\ OthersKeep(w) /\ log' = log

\* What the statements of a run do to what it works on.
LEMMA AcceptMoves ==
    ASSUME Typed, NEW w \in Workers, AcceptForm(w)
    PROVE  /\ Advance(w, "form", "collect")
           /\ tx'[w].person = tx[w].person /\ tx'[w].inserted = tx[w].inserted
           /\ log' = log
BY DEF Typed, TypeOK, AcceptForm, Goto, Advance, OthersKeep, Request, history

LEMMA CollectMoves ==
    ASSUME Typed, NEW w \in Workers, CollectPayslips(w)
    PROVE  /\ Advance(w, "collect", "delete")
           /\ tx[w].run \in Runs
           /\ tx'[w].person = tx[w].person /\ tx'[w].inserted = tx[w].inserted
           /\ \A r \in Runs :
                 /\ log'[r].payable = log[r].payable
                 /\ log'[r].runs = IF r = tx[w].run THEN committed ELSE log[r].runs
                 /\ log'[r].comp = IF r = tx[w].run THEN comp ELSE log[r].comp
<1>1. /\ tx \in [Workers -> Request] /\ pc \in [Workers -> Steps]
      /\ log \in [Runs -> LogEntry]
  BY DEF Typed, TypeOK
<1>2. /\ OthersKeep(w) /\ pc[w] = "collect" /\ pc'[w] = "delete" /\ tx[w].run \in Runs
      /\ tx'[w].run = tx[w].run /\ tx'[w].period = tx[w].period
      /\ tx'[w].inserted = tx[w].inserted
  BY CollectEffect
<1>3. tx'[w].person = tx[w].person
  BY <1>1 DEF CollectPayslips, Request
<1>4. log' = [log EXCEPT ![tx[w].run] =
                [log[tx[w].run] EXCEPT !.runs = committed, !.comp = comp]]
  BY DEF CollectPayslips
<1>5. \A r \in Runs :
         /\ log'[r].payable = log[r].payable
         /\ log'[r].runs = IF r = tx[w].run THEN committed ELSE log[r].runs
         /\ log'[r].comp = IF r = tx[w].run THEN comp ELSE log[r].comp
  BY <1>1, <1>2, <1>4 DEF LogEntry
<1> QED BY <1>2, <1>3, <1>5 DEF Advance

LEMMA DeleteMoves ==
    ASSUME Typed, NEW w \in Workers, NEW s \in tx[w].doomed, DeletePayslip(w, s)
    PROVE  /\ Advance(w, "delete", "delete")
           /\ tx'[w].person = tx[w].person /\ tx'[w].inserted = tx[w].inserted
           /\ log' = log
<1>1. tx'[w].person = tx[w].person
  BY DEF Typed, TypeOK, DeletePayslip, Request
<1> QED BY <1>1, DeleteEffect DEF Advance, Typed

LEMMA DoneMoves ==
    ASSUME Typed, NEW w \in Workers, DeletionDone(w)
    PROVE  Advance(w, "delete", "list") /\ tx' = tx /\ log' = log
BY DEF Typed, TypeOK, DeletionDone, Goto, Advance, OthersKeep, history

LEMMA ListMoves ==
    ASSUME Typed, NEW w \in Workers, ListEmployees(w)
    PROVE  /\ Advance(w, "list", "each")
           /\ tx[w].run \in Runs
           /\ tx'[w].person = tx[w].person /\ tx'[w].inserted = tx[w].inserted
           /\ tx'[w].inputs = tx[w].inputs
           /\ \A r \in Runs :
                 /\ log'[r].runs = log[r].runs /\ log'[r].comp = log[r].comp
                 /\ r # tx[w].run => log'[r].payable = log[r].payable
           /\ log'[tx[w].run].payable =
                 {x.employee : x \in {y \in tx'[w].todo : Computable(w, y)}}
<1>1. /\ tx \in [Workers -> Request] /\ pc \in [Workers -> Steps]
      /\ log \in [Runs -> LogEntry]
  BY DEF Typed, TypeOK
<1> DEFINE listed == {x \in Person : /\ staff[x.employee] = "active"
                                     /\ x.profile = profile[x.employee]}
           payable == {x.employee : x \in {y \in listed : Computable(w, y)}}
<1>2. /\ tx' = [tx EXCEPT ![w].todo = listed]
      /\ log' = [log EXCEPT ![tx[w].run].payable = payable]
      /\ pc[w] = "list" /\ pc' = [pc EXCEPT ![w] = "each"]
  BY DEF ListEmployees, Goto
<1>3. tx[w].run \in Runs
  BY <1>2 DEF Typed, Numbered, RunSteps, TxnSteps
<1>4. tx'[w].todo = listed
  BY <1>1, <1>2 DEF Request
<1> HIDE DEF listed
<1>5. /\ OthersKeep(w) /\ pc'[w] = "each"
      /\ tx'[w].run = tx[w].run /\ tx'[w].period = tx[w].period
      /\ tx'[w].person = tx[w].person /\ tx'[w].inserted = tx[w].inserted
      /\ tx'[w].inputs = tx[w].inputs
  BY <1>1, <1>2 DEF Request, OthersKeep
<1>6. log'[tx[w].run].payable = payable
  <2> HIDE DEF payable
  <2> QED BY <1>1, <1>2, <1>3 DEF LogEntry
<1>7. \A r \in Runs :
         /\ log'[r].runs = log[r].runs /\ log'[r].comp = log[r].comp
         /\ r # tx[w].run => log'[r].payable = log[r].payable
  <2> HIDE DEF payable
  <2> QED BY <1>1, <1>2, <1>3 DEF LogEntry
<1> QED BY <1>2, <1>3, <1>4, <1>5, <1>6, <1>7 DEF Advance

LEMMA NextMoves ==
    ASSUME Typed, NEW w \in Workers, NEW x \in tx[w].todo, NextEmployee(w, x)
    PROVE  /\ Advance(w, "each", "bonus")
           /\ x \in Person
           /\ tx'[w].person = {x} /\ tx'[w].todo = tx[w].todo \ {x}
           /\ tx'[w].lines = {}
           /\ tx'[w].inserted = tx[w].inserted /\ tx'[w].inputs = tx[w].inputs
           /\ log' = log
<1>1. tx \in [Workers -> Request] /\ pc \in [Workers -> Steps]
  BY DEF Typed, TypeOK
<1>2. /\ tx' = [tx EXCEPT ![w] = [tx[w] EXCEPT !.todo = tx[w].todo \ {x},
                                              !.person = {x}, !.lines = {}]]
      /\ pc[w] = "each" /\ pc' = [pc EXCEPT ![w] = "bonus"] /\ log' = log
  BY <1>1 DEF NextEmployee, Goto, history, Request
<1>3. x \in Person
  BY <1>1 DEF Request
<1>4. tx'[w] = [tx[w] EXCEPT !.todo = tx[w].todo \ {x}, !.person = {x}, !.lines = {}]
  BY <1>1, <1>2
<1>5. /\ tx'[w].person = {x} /\ tx'[w].todo = tx[w].todo \ {x}
      /\ tx'[w].lines = {}
      /\ tx'[w].inserted = tx[w].inserted /\ tx'[w].inputs = tx[w].inputs
      /\ tx'[w].run = tx[w].run /\ tx'[w].period = tx[w].period
  BY <1>1, <1>4 DEF Request
<1>6. OthersKeep(w) /\ pc'[w] = "bonus"
  BY <1>1, <1>2 DEF OthersKeep
<1> QED BY <1>2, <1>3, <1>5, <1>6 DEF Advance

LEMMA ReadMoves ==
    ASSUME Typed, NEW w \in Workers, NEW kind, NEW next, ReadLines(w, kind, next)
    PROVE  /\ Advance(w, kind, next)
           /\ tx'[w].person = tx[w].person /\ tx'[w].todo = tx[w].todo
           /\ tx'[w].lines = tx[w].lines \cup LinesOf(w, kind)
           /\ tx'[w].inserted = tx[w].inserted /\ tx'[w].inputs = tx[w].inputs
           /\ log' = log
BY DEF Typed, TypeOK, ReadLines, Goto, Advance, OthersKeep, Request, history

LEMMA SkipMoves ==
    ASSUME Typed, NEW w \in Workers, SkipEmployee(w)
    PROVE  /\ Advance(w, "compute", "each")
           /\ \E x \in tx[w].person : ~Computable(w, x)
           /\ tx'[w].person = {} /\ tx'[w].todo = tx[w].todo
           /\ tx'[w].inserted = tx[w].inserted /\ tx'[w].inputs = tx[w].inputs
           /\ log' = log
BY DEF Typed, TypeOK, SkipEmployee, Goto, Advance, OthersKeep, Request, history

LEMMA InsertMoves ==
    ASSUME Typed, NEW w \in Workers, InsertPayslip(w)
    PROVE  \E x \in tx[w].person, p \in tx[w].period :
           /\ Advance(w, "compute", "each")
           /\ Computable(w, x)
           /\ tx'[w].person = {} /\ tx'[w].todo = tx[w].todo
           /\ tx'[w].inserted = tx[w].inserted \cup {NewPayslip(w, x, p)}
           /\ tx'[w].inputs = tx[w].inputs
           /\ log' = log
<1>1. tx \in [Workers -> Request] /\ pc \in [Workers -> Steps]
  BY DEF Typed, TypeOK
<1>2. PICK x \in tx[w].person, p \in tx[w].period :
         /\ Computable(w, x)
         /\ tx' = [tx EXCEPT ![w].inserted = @ \cup {NewPayslip(w, x, p)},
                             ![w].person = {}, ![w].lines = {}]
  BY DEF InsertPayslip
<1> DEFINE s == NewPayslip(w, x, p)
<1> HIDE DEF s
<1>3. tx' = [tx EXCEPT ![w] = [tx[w] EXCEPT !.inserted = tx[w].inserted \cup {s},
                                           !.person = {}, !.lines = {}]]
  BY <1>1, <1>2 DEF Request, s
<1>4. tx'[w] = [tx[w] EXCEPT !.inserted = tx[w].inserted \cup {s},
                             !.person = {}, !.lines = {}]
  BY <1>1, <1>3
<1>5. /\ tx'[w].person = {} /\ tx'[w].todo = tx[w].todo
      /\ tx'[w].inserted = tx[w].inserted \cup {s}
      /\ tx'[w].inputs = tx[w].inputs
      /\ tx'[w].run = tx[w].run /\ tx'[w].period = tx[w].period
  BY <1>1, <1>4 DEF Request
<1>6. /\ OthersKeep(w) /\ pc[w] = "compute" /\ pc'[w] = "each" /\ log' = log
  BY <1>1, <1>3 DEF InsertPayslip, OthersKeep, Goto, history
<1> QED BY <1>2, <1>5, <1>6 DEF Advance, s

LEMMA LoadMoves ==
    ASSUME Typed, NEW w \in Workers, NEW p \in Periods, LoadForRun(w, p)
    PROVE  /\ OthersKeep(w) /\ pc[w] = "idle" /\ pc'[w] = "form"
           /\ tx'[w].period = {p} /\ tx'[w].person = tx[w].person
           /\ tx'[w].inserted = tx[w].inserted
           /\ log' = log
BY DEF Typed, TypeOK, LoadForRun, Goto, OthersKeep, Request, history

LEMMA TakeMoves ==
    ASSUME Typed, NEW w \in Workers,
           \/ \E p \in Periods : LoadForClose(w, p)
           \/ \E e \in Employees : LoadForEdit(w, e)
           \/ \E e \in Employees, p \in Periods, kind \in Kinds :
                 ValidateCompensation(w, e, p, kind)
    PROVE  Takes(w)
<1>1. tx \in [Workers -> Request] /\ pc \in [Workers -> Steps]
  BY DEF Typed, TypeOK
<1>2. OthersKeep(w) /\ log' = log
  BY <1>1 DEF LoadForClose, LoadForEdit, ValidateCompensation, Goto, OthersKeep, history
<1>3. pc[w] = "idle" /\ pc'[w] \in {"close", "addcomp", "edit"}
  BY <1>1 DEF LoadForClose, LoadForEdit, ValidateCompensation, Goto
<1>4. tx'[w].inserted = tx[w].inserted
  <2>1. CASE \E p \in Periods : LoadForClose(w, p)
    BY <1>1, <2>1 DEF LoadForClose, Request
  <2>2. CASE \E e \in Employees : LoadForEdit(w, e)
    BY <1>1, <2>2 DEF LoadForEdit, Request
  <2>3. CASE \E e \in Employees, p \in Periods, kind \in Kinds :
                ValidateCompensation(w, e, p, kind)
    BY <1>1, <2>3 DEF ValidateCompensation, Request
  <2> QED BY <2>1, <2>2, <2>3
<1> QED BY <1>2, <1>3, <1>4 DEF Takes

\* A request of worker w ends.
Quits(w) == OthersKeep(w) /\ tx'[w] = NoRequest /\ pc'[w] = "idle" /\ log' = log

LEMMA QuitMoves ==
    ASSUME Typed, NEW w \in Workers,
           \/ RefuseForm(w) \/ FailRun(w) \/ CommitRun(w) \/ RollBackRun(w)
           \/ SaveClosed(w) \/ InsertCompensation(w) \/ SaveEmployee(w)
           \/ AbortDeadlocked(w) \/ Crash(w)
    PROVE  Quits(w)
<1>1. End(w) /\ log' = log
  BY DEF RefuseForm, FailRun, CommitRun, RollBackRun, SaveClosed, InsertCompensation,
     SaveEmployee, AbortDeadlocked, Crash, history
<1> QED BY <1>1, EndOthers DEF Quits, Typed

\* Every step is one of these.
LEMMA Moves ==
    ASSUME Typed, [Next]_vars
    PROVE  \/ UNCHANGED <<tx, pc, log>>
           \/ \E w \in Workers :
                 \/ Quits(w) \/ Takes(w)
                 \/ \E p \in Periods : LoadForRun(w, p)
                 \/ AcceptForm(w) \/ CollectPayslips(w)
                 \/ \E s \in tx[w].doomed : DeletePayslip(w, s)
                 \/ DeletionDone(w) \/ ListEmployees(w)
                 \/ \E x \in tx[w].todo : NextEmployee(w, x)
                 \/ ReadBonuses(w) \/ ReadDeductions(w) \/ ReadReimbursements(w)
                 \/ SkipEmployee(w) \/ InsertPayslip(w)
<1>1. Elsewhere \/ UNCHANGED vars => UNCHANGED <<tx, pc, log>>
  BY DEF Elsewhere, Hire, DeleteEmployee, AdminSetStatus, AdminDeletePeriod,
     AdminDeletePayslip, AdminDeleteCompensation, Edits, AdminEditCompensation,
     vars, history
<1>2. ASSUME NEW w \in Workers, AbortDeadlocked(w) \/ Crash(w) PROVE Quits(w)
  BY <1>2, QuitMoves
<1>3. ASSUME NEW w \in Workers, Begin(w)
      PROVE  Takes(w) \/ \E p \in Periods : LoadForRun(w, p)
  BY <1>3, TakeMoves DEF Begin
<1>4. ASSUME NEW w \in Workers,
             \/ RefuseForm(w) \/ FailRun(w) \/ CommitRun(w) \/ RollBackRun(w)
             \/ SaveClosed(w) \/ InsertCompensation(w) \/ SaveEmployee(w)
      PROVE  Quits(w)
  BY <1>4, QuitMoves
<1> QED BY <1>1, <1>2, <1>3, <1>4 DEF Next, Proceed

LEMMA CourseStep ==
    ASSUME Typed, Course, [Next]_vars
    PROVE  Course'
<1> USE DEF RunSteps, TxnSteps, LineSteps, OthersKeep, Advance, Course
<1>1. CASE UNCHANGED <<tx, pc, log>>
  BY <1>1
<1>2. ASSUME NEW w \in Workers, Quits(w) \/ Takes(w) PROVE Course'
  BY <1>2 DEF Quits, Takes, NoRequest
<1>3. ASSUME NEW w \in Workers, NEW p \in Periods, LoadForRun(w, p) PROVE Course'
  BY <1>3, LoadMoves DEF NoRequest
<1>4. ASSUME NEW w \in Workers, AcceptForm(w) PROVE Course'
  BY <1>4, AcceptMoves
<1>5. ASSUME NEW w \in Workers, CollectPayslips(w) PROVE Course'
  BY <1>5, CollectMoves
<1>6. ASSUME NEW w \in Workers, NEW s \in tx[w].doomed, DeletePayslip(w, s) PROVE Course'
  BY <1>6, DeleteMoves
<1>7. ASSUME NEW w \in Workers, DeletionDone(w) PROVE Course'
  BY <1>7, DoneMoves
<1>8. ASSUME NEW w \in Workers, ListEmployees(w) PROVE Course'
  BY <1>8, ListMoves
<1>9. ASSUME NEW w \in Workers, NEW x \in tx[w].todo, NextEmployee(w, x) PROVE Course'
  BY <1>9, NextMoves
<1>10. ASSUME NEW w \in Workers, NEW kind \in LineSteps, NEW next \in LineSteps,
              ReadLines(w, kind, next)
       PROVE  Course'
  BY <1>10, ReadMoves
<1>11. ASSUME NEW w \in Workers, SkipEmployee(w) PROVE Course'
  BY <1>11, SkipMoves
<1>12. ASSUME NEW w \in Workers, InsertPayslip(w) PROVE Course'
  BY <1>12, InsertMoves
<1> QED
  BY <1>1, <1>2, <1>3, <1>4, <1>5, <1>6, <1>7, <1>8, <1>9, <1>10, <1>11, <1>12, Moves
     DEF ReadBonuses, ReadDeductions, ReadReimbursements

-----------------------------------------------------------------------------
(* For whom a run makes payslips.                                          *)

PaidBy(w) == {s.employee : s \in tx[w].inserted}

\* Those it has listed, not handled yet, and whose pay it will compute.
ToPay(w) ==
    {x.employee : x \in {y \in tx[w].todo \cup tx[w].person : Computable(w, y)}}

\* Whoever a run listed and whose pay can be computed has a payslip, or is
\* still to get one.
Accounted(w) == log[tx[w].run].payable = PaidBy(w) \cup ToPay(w)
Listed == \A w \in Workers : pc[w] \in LineSteps \cup {"each"} => Accounted(w)

LEMMA ComputableKept ==
    ASSUME NEW w \in Workers, tx'[w].inputs = tx[w].inputs
    PROVE  \A x : Computable(w, x)' <=> Computable(w, x)
BY DEF Computable

LEMMA AccountedKept ==
    ASSUME NEW w \in Workers, tx'[w] = tx[w],
           log'[tx[w].run].payable = log[tx[w].run].payable
    PROVE  Accounted(w)' <=> Accounted(w)
<1>1. \A x : Computable(w, x)' <=> Computable(w, x)
  BY ComputableKept
<1>2. PaidBy(w)' = PaidBy(w) /\ ToPay(w)' = ToPay(w)
  BY <1>1 DEF PaidBy, ToPay
<1> QED BY <1>2 DEF Accounted

\* A statement of worker w that keeps what its run remembers keeps the others'
\* accounts.
LEMMA OthersAccounted ==
    ASSUME NEW w \in Workers, OthersKeep(w), Listed,
           \A v \in Workers \ {w} : pc[v] \in LineSteps \cup {"each"} =>
              log'[tx[v].run].payable = log[tx[v].run].payable,
           pc'[w] \in LineSteps \cup {"each"} => Accounted(w)'
    PROVE  Listed'
<1>1. ASSUME NEW v \in Workers \ {w}, pc'[v] \in LineSteps \cup {"each"}
      PROVE  Accounted(v)'
  <2>1. tx'[v] = tx[v] /\ pc'[v] = pc[v]
    BY DEF OthersKeep
  <2>2. Accounted(v)
    BY <1>1, <2>1 DEF Listed
  <2>3. log'[tx[v].run].payable = log[tx[v].run].payable
    BY <1>1, <2>1
  <2> QED BY <2>1, <2>2, <2>3, AccountedKept
<1> QED BY <1>1 DEF Listed

LEMMA ListedStep ==
    ASSUME Typed, Sequenced, Course, Listed, [Next]_vars
    PROVE  Listed'
<1>0. \A v \in Workers : pc[v] \in LineSteps \cup {"each"} => tx[v].run \in Runs
  BY DEF Typed, Numbered, RunSteps, TxnSteps, LineSteps
<1>1. CASE UNCHANGED <<tx, pc, log>>
  BY <1>1, AccountedKept DEF Listed
<1>2. ASSUME NEW w \in Workers, Quits(w) \/ Takes(w) PROVE Listed'
  BY <1>2, OthersAccounted DEF Quits, Takes, LineSteps
<1>3. ASSUME NEW w \in Workers, NEW p \in Periods, LoadForRun(w, p) PROVE Listed'
  BY <1>3, LoadMoves, OthersAccounted DEF LineSteps
<1>4. ASSUME NEW w \in Workers, AcceptForm(w) PROVE Listed'
  BY <1>4, AcceptMoves, OthersAccounted DEF LineSteps, Advance
<1>5. ASSUME NEW w \in Workers, CollectPayslips(w) PROVE Listed'
  BY <1>0, <1>5, CollectMoves, OthersAccounted DEF LineSteps, Advance
<1>6. ASSUME NEW w \in Workers, NEW s \in tx[w].doomed, DeletePayslip(w, s) PROVE Listed'
  BY <1>6, DeleteMoves, OthersAccounted DEF LineSteps, Advance
<1>7. ASSUME NEW w \in Workers, DeletionDone(w) PROVE Listed'
  BY <1>7, DoneMoves, OthersAccounted DEF LineSteps, Advance
<1>8. ASSUME NEW w \in Workers, ListEmployees(w) PROVE Listed'
  <2>1. /\ OthersKeep(w) /\ pc[w] = "list" /\ tx'[w].run = tx[w].run
        /\ tx[w].run \in Runs
        /\ tx'[w].person = tx[w].person /\ tx'[w].inserted = tx[w].inserted
        /\ tx'[w].inputs = tx[w].inputs
        /\ \A r \in Runs : r # tx[w].run => log'[r].payable = log[r].payable
        /\ log'[tx[w].run].payable =
              {x.employee : x \in {y \in tx'[w].todo : Computable(w, y)}}
    BY <1>8, ListMoves DEF Advance
  <2>2. tx[w].person = {} /\ tx[w].inserted = {}
    BY <2>1 DEF Course, RunSteps, TxnSteps, LineSteps
  <2>3. \A x : Computable(w, x)' <=> Computable(w, x)
    BY <2>1, ComputableKept
  <2>4. Accounted(w)'
    BY <2>1, <2>2, <2>3 DEF Accounted, PaidBy, ToPay
  <2>5. \A v \in Workers \ {w} : pc[v] \in LineSteps \cup {"each"} =>
           log'[tx[v].run].payable = log[tx[v].run].payable
    BY <1>0, <2>1 DEF Sequenced, Runs
  <2> QED BY <2>1, <2>4, <2>5, OthersAccounted
<1>9. ASSUME NEW w \in Workers, NEW x \in tx[w].todo, NextEmployee(w, x) PROVE Listed'
  <2>1. /\ OthersKeep(w) /\ pc[w] = "each" /\ tx'[w].run = tx[w].run
        /\ tx'[w].person = {x} /\ tx'[w].todo = tx[w].todo \ {x}
        /\ tx'[w].inserted = tx[w].inserted /\ tx'[w].inputs = tx[w].inputs
        /\ log' = log
    BY <1>9, NextMoves DEF Advance
  <2>2. \A y : Computable(w, y)' <=> Computable(w, y)
    BY <2>1, ComputableKept
  <2>3. tx[w].person = {}
    BY <2>1 DEF Course
  <2>4. tx'[w].todo \cup tx'[w].person = tx[w].todo \cup tx[w].person
    BY <2>1, <2>3
  <2>5. PaidBy(w)' = PaidBy(w) /\ ToPay(w)' = ToPay(w)
    BY <2>1, <2>2, <2>4 DEF PaidBy, ToPay
  <2>6. Accounted(w)
    BY <2>1 DEF Listed
  <2>7. Accounted(w)'
    BY <2>1, <2>5, <2>6 DEF Accounted
  <2> QED BY <2>1, <2>7, OthersAccounted
<1>10. ASSUME NEW w \in Workers, NEW kind \in LineSteps, NEW next, ReadLines(w, kind, next)
       PROVE  Listed'
  <2>1. /\ OthersKeep(w) /\ pc[w] \in LineSteps /\ tx'[w].run = tx[w].run
        /\ tx'[w].person = tx[w].person /\ tx'[w].todo = tx[w].todo
        /\ tx'[w].inserted = tx[w].inserted /\ tx'[w].inputs = tx[w].inputs
        /\ log' = log
    BY <1>10, ReadMoves DEF Advance
  <2>2. \A y : Computable(w, y)' <=> Computable(w, y)
    BY <2>1, ComputableKept
  <2>3. PaidBy(w)' = PaidBy(w) /\ ToPay(w)' = ToPay(w)
    BY <2>1, <2>2 DEF PaidBy, ToPay
  <2>4. Accounted(w)
    BY <2>1 DEF Listed
  <2>5. Accounted(w)'
    BY <2>1, <2>3, <2>4 DEF Accounted
  <2> QED BY <2>1, <2>5, OthersAccounted
<1>11. ASSUME NEW w \in Workers, SkipEmployee(w) PROVE Listed'
  <2>1. /\ OthersKeep(w) /\ pc[w] = "compute" /\ tx'[w].run = tx[w].run
        /\ \E x \in tx[w].person : ~Computable(w, x)
        /\ tx'[w].person = {} /\ tx'[w].todo = tx[w].todo
        /\ tx'[w].inserted = tx[w].inserted /\ tx'[w].inputs = tx[w].inputs
        /\ log' = log
    BY <1>11, SkipMoves DEF Advance
  <2>2. \A y : Computable(w, y)' <=> Computable(w, y)
    BY <2>1, ComputableKept
  <2>3. \A y \in tx[w].person : ~Computable(w, y)
    BY <2>1 DEF Course, LineSteps
  <2>4. PaidBy(w)' = PaidBy(w) /\ ToPay(w)' = ToPay(w)
    BY <2>1, <2>2, <2>3 DEF PaidBy, ToPay
  <2>5. Accounted(w)
    BY <2>1 DEF Listed, LineSteps
  <2>6. Accounted(w)'
    BY <2>1, <2>4, <2>5 DEF Accounted
  <2> QED BY <2>1, <2>6, OthersAccounted
<1>12. ASSUME NEW w \in Workers, InsertPayslip(w) PROVE Listed'
  <2>1. PICK x \in tx[w].person, p \in tx[w].period :
           /\ Advance(w, "compute", "each")
           /\ Computable(w, x)
           /\ tx'[w].person = {} /\ tx'[w].todo = tx[w].todo
           /\ tx'[w].inserted = tx[w].inserted \cup {NewPayslip(w, x, p)}
           /\ tx'[w].inputs = tx[w].inputs
           /\ log' = log
    BY <1>12, InsertMoves
  <2>2. OthersKeep(w) /\ pc[w] = "compute" /\ tx'[w].run = tx[w].run
    BY <2>1 DEF Advance
  <2>3. \A y : Computable(w, y)' <=> Computable(w, y)
    BY <2>1, ComputableKept
  <2>4. tx[w].person = {x}
    BY <2>2 DEF Course, LineSteps
  <2>5. NewPayslip(w, x, p).employee = x.employee
    BY DEF NewPayslip
  <2>6. PaidBy(w)' = PaidBy(w) \cup {x.employee}
    BY <2>1, <2>5 DEF PaidBy
  <2>7. ToPay(w) = ToPay(w)' \cup {x.employee}
    BY <2>1, <2>3, <2>4 DEF ToPay
  <2>8. Accounted(w)
    BY <2>2 DEF Listed, LineSteps
  <2>9. Accounted(w)'
    BY <2>1, <2>2, <2>6, <2>7, <2>8 DEF Accounted
  <2> QED BY <2>1, <2>2, <2>9, OthersAccounted
<1> QED
  BY <1>1, <1>2, <1>3, <1>4, <1>5, <1>6, <1>7, <1>8, <1>9, <1>10, <1>11, <1>12, Moves
     DEF ReadBonuses, ReadDeductions, ReadReimbursements, LineSteps

LEMMA ListedInit == Init => Course /\ Listed
BY DEF Init, Course, Listed, LineSteps, RunSteps, TxnSteps

LEMMA ListedAlways == Spec => [](Course /\ Listed)
<1>1. IInv /\ Course /\ Listed /\ [Next]_vars => Course' /\ Listed'
  BY CourseStep, ListedStep DEF IInv
<1> QED BY <1>1, ListedInit, Invariant, PTL DEF Spec

-----------------------------------------------------------------------------
(* What a reader of payslips sees of a step.                               *)

\* Only a commit adds payslips, those of one run, of its period, and for whom
\* the run listed.
LEMMA CommitMoves ==
    ASSUME IInv, Course, Listed, NEW w \in Workers, CommitRun(w)
    PROVE  /\ tx[w].run \in Runs /\ tx[w].run \notin committed
           /\ payslips' \ payslips = tx[w].inserted
           /\ payslips \ payslips' \subseteq tx[w].deleted
           /\ \A s \in tx[w].inserted : s.run = tx[w].run /\ s.period \in tx[w].period
           /\ {s.employee : s \in tx[w].inserted} = log[tx[w].run].payable
           /\ committed' = committed \cup {tx[w].run} /\ log' = log
<1>1. /\ pc[w] = "each" /\ tx[w].todo = {} /\ log' = log
      /\ payslips' = (payslips \ tx[w].deleted) \cup tx[w].inserted
      /\ committed' = committed \cup {tx[w].run}
  BY DEF CommitRun
<1>2. tx[w].run \in Runs /\ tx[w].run \notin committed
  BY <1>1 DEF IInv, Typed, Numbered, Sequenced, RunSteps, TxnSteps
<1>3. \A s \in tx[w].inserted : s.run = tx[w].run /\ s.period \in tx[w].period
  BY DEF IInv, InTransaction
<1>4. \A s \in payslips : s.run \in committed
  BY DEF IInv, Sequenced
<1>5. payslips' \ payslips = tx[w].inserted /\ payslips \ payslips' \subseteq tx[w].deleted
  BY <1>1, <1>2, <1>3, <1>4
<1>6. ToPay(w) = {}
  BY <1>1 DEF Course, ToPay
<1>7. PaidBy(w) = log[tx[w].run].payable
  BY <1>1, <1>6 DEF Listed, Accounted
<1> QED BY <1>1, <1>2, <1>3, <1>5, <1>7 DEF PaidBy

\* A step as RunIsAtomic wants it.
RunAppearsWhole ==
    \A r \in Runs :
       LET new == {s \in payslips' \ payslips : s.run = r}
       IN new # {} => {s.employee : s \in new} = log[r].payable

LEMMA AtomicStep ==
    ASSUME IInv, Course, Listed, [Next]_vars
    PROVE  RunAppearsWhole
<1>1. CASE \A w \in Workers : ~CommitRun(w)
  BY <1>1, OnlyCommitAdds DEF IInv, RunAppearsWhole
<1>2. ASSUME NEW w \in Workers, CommitRun(w), NEW r \in Runs,
             {s \in payslips' \ payslips : s.run = r} # {}
      PROVE  {s.employee : s \in {s \in payslips' \ payslips : s.run = r}}
                = log[r].payable
  <2>1. r = tx[w].run /\ {s \in payslips' \ payslips : s.run = r} = tx[w].inserted
    BY <1>2, CommitMoves
  <2> QED BY <1>2, <2>1, CommitMoves
<1> QED BY <1>1, <1>2 DEF RunAppearsWhole

\* transaction.atomic: whoever looks sees no payslip of a run or, for each
\* employee it listed whose pay can be computed, one; never a part, however
\* the run was interleaved with others and with edits of the staff.
THEOREM RunsAppearWhole == Spec => RunIsAtomic
<1>1. IInv /\ Course /\ Listed /\ [Next]_vars => [RunAppearsWhole]_vars
  BY AtomicStep
<1>2. RunIsAtomic <=> [][RunAppearsWhole]_vars
  BY DEF RunIsAtomic, RunAppearsWhole
<1> QED BY <1>1, <1>2, ListedAlways, Invariant, PTL DEF Spec

-----------------------------------------------------------------------------
(* Which compensation lines can be missing from a payslip.                 *)

\* The line a request is about to insert.
Pending(w) == IF pc[w] = "addcomp" THEN tx[w].lines ELSE {}

\* What run r found when it began and is still there.
Remembered(r) == log[r].comp \cap comp

\* Every version of a line has a number of its own, drawn before it is
\* inserted: a line that is gone never comes back.
FreshLines ==
    /\ \A l \in comp : l.id < nextLine
    /\ \A r \in Runs : \A l \in log[r].comp : l.id < nextLine
    /\ \A w \in Workers : \A l \in Pending(w) :
          l.id < nextLine /\ l \notin comp /\ \A r \in Runs : l \notin log[r].comp
    /\ \A v, w \in Workers : v # w => Pending(v) \cap Pending(w) = {}

\* Lines at most go, and nobody is about to insert one who was not.
NoNewLine ==
    /\ comp' \subseteq comp /\ nextLine' = nextLine
    /\ \A r \in Runs : log'[r].comp = log[r].comp
    /\ \A v \in Workers : Pending(v)' \subseteq Pending(v)

LEMMA LocalNoLine ==
    ASSUME NEW w \in Workers, OthersKeep(w), pc'[w] # "addcomp",
           comp' \subseteq comp, nextLine' = nextLine,
           \A r \in Runs : log'[r].comp = log[r].comp
    PROVE  NoNewLine
BY DEF NoNewLine, OthersKeep, Pending

\* Every step is one of these, as far as lines are concerned.
LEMMA LineMoves ==
    ASSUME Typed, [Next]_vars
    PROVE  \/ NoNewLine
           \/ \E w \in Workers :
                 \/ CollectPayslips(w) \/ InsertCompensation(w)
                 \/ \E e \in Employees, p \in Periods, kind \in Kinds :
                       ValidateCompensation(w, e, p, kind)
           \/ \E l \in comp, e \in Employees, p \in Periods :
                 AdminEditCompensation(l, e, p)
<1>1. CASE UNCHANGED vars
  BY <1>1 DEF vars, rows, history, NoNewLine, Pending
<1>2. CASE Elsewhere
  <2>1. (\E l \in comp : Edits(l)) \/ NoNewLine
    BY <1>2 DEF Elsewhere, Hire, DeleteEmployee, AdminSetStatus, AdminDeletePeriod,
       AdminDeletePayslip, AdminDeleteCompensation, history, NoNewLine, Pending
  <2> QED BY <2>1 DEF Edits
<1>3. ASSUME NEW w \in Workers,
             \/ \E p \in Periods : LoadForRun(w, p) \/ LoadForClose(w, p)
             \/ \E e \in Employees : LoadForEdit(w, e)
      PROVE  NoNewLine
  <2>1. comp' = comp /\ nextLine' = nextLine /\ log' = log
    BY <1>3 DEF LoadForRun, LoadForClose, LoadForEdit, rows, history
  <2>2. OthersKeep(w) /\ pc'[w] # "addcomp"
    BY <1>3 DEF LoadForRun, LoadForClose, LoadForEdit, Goto, OthersKeep, Typed, TypeOK
  <2> QED BY <2>1, <2>2, LocalNoLine
<1>4. ASSUME NEW w \in Workers,
             \/ RefuseForm(w) \/ FailRun(w) \/ CommitRun(w) \/ RollBackRun(w)
             \/ SaveClosed(w) \/ SaveEmployee(w)
             \/ AbortDeadlocked(w) \/ Crash(w)
      PROVE  NoNewLine
  <2>1. comp' = comp /\ nextLine' = nextLine /\ log' = log
    BY <1>4 DEF RefuseForm, FailRun, CommitRun, RollBackRun, SaveClosed, SaveEmployee,
       AbortDeadlocked, Crash, rows, history
  <2>2. OthersKeep(w) /\ pc'[w] # "addcomp"
    BY <1>4, QuitMoves DEF Quits
  <2> QED BY <2>1, <2>2, LocalNoLine
<1>5. ASSUME NEW w \in Workers, AcceptForm(w) PROVE NoNewLine
  BY <1>5, AcceptMoves, LocalNoLine DEF Advance, AcceptForm, rows
<1>6. ASSUME NEW w \in Workers, NEW s \in tx[w].doomed, DeletePayslip(w, s)
      PROVE  NoNewLine
  BY <1>6, DeleteMoves, LocalNoLine DEF Advance, DeletePayslip, rows
<1>7. ASSUME NEW w \in Workers, DeletionDone(w) PROVE NoNewLine
  BY <1>7, DoneMoves, LocalNoLine DEF Advance, DeletionDone, rows
<1>8. ASSUME NEW w \in Workers, ListEmployees(w) PROVE NoNewLine
  BY <1>8, ListMoves, LocalNoLine DEF Advance, ListEmployees, rows
<1>9. ASSUME NEW w \in Workers, NEW x \in tx[w].todo, NextEmployee(w, x)
      PROVE  NoNewLine
  BY <1>9, NextMoves, LocalNoLine DEF Advance, NextEmployee, rows
<1>10. ASSUME NEW w \in Workers, NEW kind, NEW next \in LineSteps,
              ReadLines(w, kind, next)
       PROVE  NoNewLine
  <2>1. OthersKeep(w) /\ pc'[w] # "addcomp" /\ log' = log
    BY <1>10, ReadMoves DEF Advance, LineSteps
  <2>2. comp' = comp /\ nextLine' = nextLine
    BY <1>10 DEF ReadLines, rows
  <2> QED BY <2>1, <2>2, LocalNoLine
<1>11. ASSUME NEW w \in Workers, SkipEmployee(w) PROVE NoNewLine
  BY <1>11, SkipMoves, LocalNoLine DEF Advance, SkipEmployee, rows
<1>12. ASSUME NEW w \in Workers, InsertPayslip(w) PROVE NoNewLine
  BY <1>12, InsertMoves, LocalNoLine DEF Advance, InsertPayslip, rows
<1> QED
  BY <1>1, <1>2, <1>3, <1>4, <1>5, <1>6, <1>7, <1>8, <1>9, <1>10, <1>11, <1>12
     DEF Next, Begin, Proceed, ReadBonuses, ReadDeductions, ReadReimbursements, LineSteps

LEMMA FreshStep ==
    ASSUME Typed, FreshLines, [Next]_vars
    PROVE  FreshLines'
<1>0. /\ nextLine \in Nat /\ comp \subseteq CompLine /\ log \in [Runs -> LogEntry]
      /\ tx \in [Workers -> Request] /\ pc \in [Workers -> Steps]
  BY DEF Typed, TypeOK
<1>1. \A l \in CompLine : l.id \in Nat
  BY DEF CompLine, Lines
<1>2. /\ \A r \in Runs : log[r].comp \subseteq CompLine
      /\ \A w \in Workers : Pending(w) \subseteq CompLine
  BY <1>0 DEF LogEntry, Request, Pending
<1>3. CASE NoNewLine
  BY <1>3 DEF NoNewLine, FreshLines
<1>4. ASSUME NEW w \in Workers, CollectPayslips(w) PROVE FreshLines'
  <2>1. /\ OthersKeep(w) /\ pc'[w] = "delete"
        /\ \A r \in Runs :
              log'[r].comp = IF r = tx[w].run THEN comp ELSE log[r].comp
    BY <1>4, CollectMoves DEF Advance
  <2>2. comp' = comp /\ nextLine' = nextLine
    BY <1>4 DEF CollectPayslips, rows
  <2>3. \A v \in Workers : Pending(v)' \subseteq Pending(v)
    BY <2>1 DEF OthersKeep, Pending
  <2> QED BY <2>1, <2>2, <2>3 DEF FreshLines
<1>5. ASSUME NEW w \in Workers, InsertCompensation(w) PROVE FreshLines'
  <2>1. OthersKeep(w) /\ pc'[w] = "idle" /\ log' = log
    BY <1>5, QuitMoves DEF Quits
  <2>2. comp' \subseteq comp \cup Pending(w) /\ nextLine' = nextLine
    BY <1>5 DEF InsertCompensation, Pending
  <2>3. Pending(w)' = {} /\ \A v \in Workers \ {w} : Pending(v)' = Pending(v)
    BY <2>1 DEF OthersKeep, Pending
  <2> QED BY <2>1, <2>2, <2>3 DEF FreshLines
<1>6. ASSUME NEW w \in Workers, NEW e \in Employees, NEW p \in Periods, NEW kind \in Kinds,
             ValidateCompensation(w, e, p, kind)
      PROVE  FreshLines'
  <2> DEFINE new == [id |-> nextLine, kind |-> kind, employee |-> e, period |-> p]
  <2>1. /\ comp' = comp /\ log' = log /\ nextLine' = nextLine + 1
        /\ tx' = [tx EXCEPT ![w].period = {p}, ![w].lines = {new}]
        /\ pc' = [pc EXCEPT ![w] = "addcomp"]
    BY <1>6 DEF ValidateCompensation, Goto, rows, history
  <2>2. new.id = nextLine
    OBVIOUS
  <2> HIDE DEF new
  <2>3. Pending(w)' = {new} /\ \A v \in Workers \ {w} : Pending(v)' = Pending(v)
    BY <1>0, <2>1 DEF Pending, Request
  <2>4. \A l \in CompLine : l.id < nextLine => l.id < nextLine' /\ l # new
    BY <1>0, <1>1, <2>1, <2>2
  <2>5. nextLine < nextLine' /\ ~(nextLine < nextLine)
    BY <1>0, <2>1
  <2> QED BY <1>0, <1>2, <2>1, <2>2, <2>3, <2>4, <2>5 DEF FreshLines
<1>7. ASSUME NEW l \in comp, NEW e \in Employees, NEW p \in Periods,
             AdminEditCompensation(l, e, p)
      PROVE  FreshLines'
  <2> DEFINE new == [l EXCEPT !.id = nextLine, !.employee = e, !.period = p]
  <2>1. /\ log' = log /\ nextLine' = nextLine + 1
        /\ comp' = (comp \ {l}) \cup {new}
        /\ UNCHANGED <<tx, pc>>
    BY <1>7 DEF AdminEditCompensation, history
  <2>2. new.id = nextLine
    BY <1>0 DEF CompLine
  <2> HIDE DEF new
  <2>3. \A v \in Workers : Pending(v)' = Pending(v)
    BY <2>1 DEF Pending
  <2>4. \A k \in CompLine : k.id < nextLine => k.id < nextLine' /\ k # new
    BY <1>0, <1>1, <2>1, <2>2
  <2>5. nextLine < nextLine'
    BY <1>0, <2>1
  <2> QED BY <1>0, <1>2, <2>1, <2>2, <2>3, <2>4, <2>5 DEF FreshLines
<1> QED BY <1>3, <1>4, <1>5, <1>6, <1>7, LineMoves

\* After a run has begun, what it remembers of the lines only shrinks.
LEMMA RememberStep ==
    ASSUME Typed, FreshLines, [Next]_vars, NEW r \in Runs,
           \A w \in Workers : CollectPayslips(w) => r # tx[w].run
    PROVE  Remembered(r)' \subseteq Remembered(r)
<1>0. /\ nextLine \in Nat /\ comp \subseteq CompLine /\ log[r].comp \subseteq CompLine
  BY DEF Typed, TypeOK, LogEntry
<1>1. CASE NoNewLine
  BY <1>1 DEF NoNewLine, Remembered
<1>2. ASSUME NEW w \in Workers, CollectPayslips(w)
      PROVE  Remembered(r)' \subseteq Remembered(r)
  <2>1. log'[r].comp = log[r].comp
    BY <1>2, CollectMoves
  <2> QED BY <1>2, <2>1 DEF CollectPayslips, rows, Remembered
<1>3. ASSUME NEW w \in Workers, InsertCompensation(w)
      PROVE  Remembered(r)' \subseteq Remembered(r)
  <2>1. comp' \subseteq comp \cup Pending(w) /\ log' = log
    BY <1>3 DEF InsertCompensation, Pending
  <2> QED BY <2>1 DEF FreshLines, Remembered
<1>4. ASSUME NEW w \in Workers, NEW e \in Employees, NEW p \in Periods, NEW kind \in Kinds,
             ValidateCompensation(w, e, p, kind)
      PROVE  Remembered(r)' \subseteq Remembered(r)
  BY <1>4 DEF ValidateCompensation, rows, history, Remembered
<1>5. ASSUME NEW l \in comp, NEW e \in Employees, NEW p \in Periods,
             AdminEditCompensation(l, e, p)
      PROVE  Remembered(r)' \subseteq Remembered(r)
  <2> DEFINE new == [l EXCEPT !.id = nextLine, !.employee = e, !.period = p]
  <2>1. log' = log /\ comp' = (comp \ {l}) \cup {new}
    BY <1>5 DEF AdminEditCompensation, history
  <2>2. new.id = nextLine
    BY <1>0 DEF CompLine
  <2> HIDE DEF new
  <2>3. new \notin log[r].comp
    BY <1>0, <2>2 DEF FreshLines
  <2> QED BY <2>1, <2>3 DEF Remembered
<1> QED BY <1>1, <1>2, <1>3, <1>4, <1>5, LineMoves

LEMMA RunRemembers ==
    ASSUME Typed, Sequenced, FreshLines, [Next]_vars, NEW r \in Runs,
           \/ r \in committed
           \/ \E v \in Workers : pc[v] \in TxnSteps /\ tx[v].run = r
    PROVE  Remembered(r)' \subseteq Remembered(r)
<1>1. \A w \in Workers : CollectPayslips(w) => r # tx[w].run
  BY DEF CollectPayslips, TxnSteps, Sequenced, Runs
<1> QED BY <1>1, RememberStep

-----------------------------------------------------------------------------
(* What is read for an employee, and what gets into the payslip.           *)

\* The kinds of lines a run has read when it comes to a statement.
HasRead(step, kind) ==
    \/ kind = "bonus" /\ step # "bonus"
    \/ kind = "deduction" /\ step \in {"reimbursement", "compute"}
    \/ kind = "reimbursement" /\ step = "compute"

\* Worker w has read lines of its employee and period only, and, of the kinds
\* it has read, each one that its run remembers.
ReadSoFar(w) ==
    \A x \in tx[w].person, p \in tx[w].period :
       /\ \A l \in tx[w].lines : l.employee = x.employee /\ l.period = p
       /\ \A l \in Remembered(tx[w].run) :
             l.employee = x.employee /\ l.period = p /\ HasRead(pc[w], l.kind)
                => l \in tx[w].lines

Reading == \A w \in Workers : pc[w] \in LineSteps => ReadSoFar(w)

LEMMA OthersRead ==
    ASSUME Typed, Sequenced, FreshLines, Reading, [Next]_vars,
           NEW w \in Workers, OthersKeep(w),
           pc'[w] \in LineSteps => ReadSoFar(w)'
    PROVE  Reading'
<1>1. ASSUME NEW v \in Workers \ {w}, pc'[v] \in LineSteps
      PROVE  ReadSoFar(v)'
  <2>1. tx'[v] = tx[v] /\ pc'[v] = pc[v] /\ ReadSoFar(v)
    BY <1>1 DEF OthersKeep, Reading
  <2>2. PICK r \in Runs : r = tx[v].run
    BY <1>1, <2>1 DEF Typed, Numbered, RunSteps, TxnSteps, LineSteps
  <2>3. Remembered(r)' \subseteq Remembered(r)
    BY <1>1, <2>1, <2>2, RunRemembers DEF TxnSteps, LineSteps
  <2>4. Remembered(tx[v].run)' \subseteq Remembered(tx[v].run)
    BY <2>1, <2>2, <2>3 DEF Remembered
  <2> QED BY <2>1, <2>4 DEF ReadSoFar, HasRead
<1> QED BY <1>1 DEF Reading

LEMMA ReadingStep ==
    ASSUME Typed, Sequenced, Course, FreshLines, Reading, [Next]_vars
    PROVE  Reading'
<1>1. CASE UNCHANGED <<tx, pc, log>>
  <2>1. ASSUME NEW v \in Workers, pc'[v] \in LineSteps PROVE ReadSoFar(v)'
    <3>1. PICK r \in Runs : r = tx[v].run
      BY <1>1, <2>1 DEF Typed, Numbered, RunSteps, TxnSteps, LineSteps
    <3>2. Remembered(r)' \subseteq Remembered(r)
      BY <1>1, <2>1, <3>1, RunRemembers DEF TxnSteps, LineSteps
    <3>3. Remembered(tx[v].run)' \subseteq Remembered(tx[v].run)
      BY <1>1, <3>1, <3>2 DEF Remembered
    <3> QED BY <1>1, <2>1, <3>3 DEF ReadSoFar, HasRead, Reading
  <2> QED BY <2>1 DEF Reading
<1>2. ASSUME NEW w \in Workers, Quits(w) \/ Takes(w) PROVE Reading'
  BY <1>2, OthersRead DEF Quits, Takes, LineSteps
<1>3. ASSUME NEW w \in Workers, NEW p \in Periods, LoadForRun(w, p) PROVE Reading'
  BY <1>3, LoadMoves, OthersRead DEF LineSteps
<1>4. ASSUME NEW w \in Workers, AcceptForm(w) PROVE Reading'
  BY <1>4, AcceptMoves, OthersRead DEF LineSteps, Advance
<1>5. ASSUME NEW w \in Workers, CollectPayslips(w) PROVE Reading'
  BY <1>5, CollectMoves, OthersRead DEF LineSteps, Advance
<1>6. ASSUME NEW w \in Workers, NEW s \in tx[w].doomed, DeletePayslip(w, s) PROVE Reading'
  BY <1>6, DeleteMoves, OthersRead DEF LineSteps, Advance
<1>7. ASSUME NEW w \in Workers, DeletionDone(w) PROVE Reading'
  BY <1>7, DoneMoves, OthersRead DEF LineSteps, Advance
<1>8. ASSUME NEW w \in Workers, ListEmployees(w) PROVE Reading'
  BY <1>8, ListMoves, OthersRead DEF LineSteps, Advance
<1>9. ASSUME NEW w \in Workers, NEW x \in tx[w].todo, NextEmployee(w, x) PROVE Reading'
  <2>1. OthersKeep(w) /\ pc'[w] = "bonus" /\ tx'[w].lines = {}
    BY <1>9, NextMoves DEF Advance
  <2>2. ReadSoFar(w)'
    <3>1. \A l \in CompLine : ~HasRead(pc'[w], l.kind)
      BY <2>1 DEF HasRead
    <3>2. Remembered(tx[w].run)' \subseteq CompLine
      <4>1. TypeOK'
        BY TypeNext
      <4> QED BY <4>1 DEF TypeOK, Remembered
    <3> QED BY <2>1, <3>1, <3>2 DEF ReadSoFar, HasRead
  <2> QED BY <2>1, <2>2, OthersRead
<1>10. ASSUME NEW w \in Workers, NEW kind \in LineSteps, NEW next \in LineSteps,
              \A k : HasRead(next, k) => HasRead(kind, k) \/ k = kind,
              ReadLines(w, kind, next)
       PROVE  Reading'
  <2>1. /\ OthersKeep(w) /\ pc[w] = kind /\ pc'[w] = next
        /\ tx'[w].run = tx[w].run /\ tx'[w].period = tx[w].period
        /\ tx'[w].person = tx[w].person
        /\ tx'[w].lines = tx[w].lines \cup LinesOf(w, kind)
        /\ log' = log
    BY <1>10, ReadMoves DEF Advance
  <2>2. comp' = comp
    BY <1>10 DEF ReadLines, rows
  <2>3. Remembered(tx[w].run)' = Remembered(tx[w].run)
    BY <2>1, <2>2 DEF Remembered
  <2>4. ReadSoFar(w) /\ Remembered(tx[w].run) \subseteq comp
    BY <2>1 DEF Reading, Remembered
  <2>5. PICK x \in Person : tx[w].person = {x}
    BY <2>1 DEF Course
  <2>6. PICK p \in Periods : tx[w].period = {p}
    BY <2>1 DEF Course, RunSteps, TxnSteps, LineSteps
  <2>7. LinesOf(w, kind) =
           {l \in comp : l.kind = kind /\ l.period = p /\ l.employee = x.employee}
    BY <2>5, <2>6 DEF LinesOf
  <2>8. ASSUME NEW l \in tx'[w].lines PROVE l.employee = x.employee /\ l.period = p
    BY <2>1, <2>4, <2>5, <2>6, <2>7, <2>8 DEF ReadSoFar
  <2>9. ASSUME NEW l \in Remembered(tx[w].run), l.employee = x.employee, l.period = p,
               HasRead(next, l.kind)
        PROVE  l \in tx'[w].lines
    <3>1. CASE HasRead(kind, l.kind)
      BY <2>1, <2>4, <2>5, <2>6, <2>9, <3>1 DEF ReadSoFar
    <3>2. CASE l.kind = kind
      BY <2>1, <2>4, <2>7, <2>9, <3>2
    <3> QED BY <1>10, <2>9, <3>1, <3>2
  <2>10. ReadSoFar(w)'
    BY <2>1, <2>3, <2>5, <2>6, <2>8, <2>9 DEF ReadSoFar, HasRead
  <2> QED BY <2>1, <2>10, OthersRead
<1>11. ASSUME NEW w \in Workers, SkipEmployee(w) PROVE Reading'
  BY <1>11, SkipMoves, OthersRead DEF LineSteps, Advance
<1>12. ASSUME NEW w \in Workers, InsertPayslip(w) PROVE Reading'
  BY <1>12, InsertMoves, OthersRead DEF LineSteps, Advance
<1>13. ASSUME NEW w \in Workers,
              ReadBonuses(w) \/ ReadDeductions(w) \/ ReadReimbursements(w)
       PROVE  Reading'
  BY <1>10, <1>13
     DEF ReadBonuses, ReadDeductions, ReadReimbursements, LineSteps, HasRead
<1> QED
  BY <1>1, <1>2, <1>3, <1>4, <1>5, <1>6, <1>7, <1>8, <1>9, <1>11, <1>12, <1>13, Moves

\* A payslip has the lines of its employee and period, each one its run
\* remembers among them.
Itemised(s) ==
    /\ \A l \in s.lines : SameKey(l, s)
    /\ \A l \in Remembered(s.run) : SameKey(l, s) => l \in s.lines

AllItemised ==
    /\ \A w \in Workers : \A s \in tx[w].inserted : Itemised(s)
    /\ \A s \in payslips : Itemised(s)

LEMMA ItemisedKept ==
    ASSUME NEW s, Itemised(s), Remembered(s.run)' \subseteq Remembered(s.run)
    PROVE  Itemised(s)'
BY DEF Itemised, SameKey

\* A payslip is inserted when its employee's lines of every kind are read.
LEMMA InsertItemised ==
    ASSUME Typed, Sequenced, Course, FreshLines, Reading, [Next]_vars,
           NEW w \in Workers, InsertPayslip(w)
    PROVE  \E s : /\ tx'[w].inserted = tx[w].inserted \cup {s}
                  /\ Itemised(s)'
<1>1. PICK x \in tx[w].person, p \in tx[w].period :
         /\ Advance(w, "compute", "each")
         /\ tx'[w].inserted = tx[w].inserted \cup {NewPayslip(w, x, p)}
         /\ log' = log
  BY InsertMoves
<1>2. pc[w] = "compute" /\ ReadSoFar(w)
  BY <1>1 DEF Advance, Reading, LineSteps
<1>3. comp' = comp
  BY DEF InsertPayslip, rows
<1>4. comp \subseteq CompLine
  BY DEF Typed, TypeOK
<1>5. \A l \in Remembered(tx[w].run) : HasRead(pc[w], l.kind)
  BY <1>2, <1>4 DEF Remembered, HasRead, CompLine, Kinds
<1>6. PICK s : s = NewPayslip(w, x, p)
  OBVIOUS
<1>7. /\ s.run = tx[w].run /\ s.employee = x.employee /\ s.period = p
      /\ s.lines = tx[w].lines
  BY <1>6 DEF NewPayslip
<1>8. Itemised(s)
  BY <1>2, <1>5, <1>7 DEF Itemised, SameKey, ReadSoFar
<1>9. Remembered(s.run)' \subseteq Remembered(s.run)
  BY <1>1, <1>3 DEF Remembered
<1> QED BY <1>1, <1>6, <1>8, <1>9, ItemisedKept

LEMMA ItemisedStep ==
    ASSUME Typed, Sequenced, InTransaction, Course, FreshLines, Reading, AllItemised,
           [Next]_vars
    PROVE  AllItemised'
<1>1. ASSUME NEW s \in payslips PROVE Itemised(s)'
  <2>1. s.run \in committed /\ s.run \in Runs
    BY DEF Sequenced, Typed, TypeOK
  <2> QED BY <2>1, RunRemembers, ItemisedKept DEF AllItemised
<1>2. ASSUME NEW v \in Workers, NEW s \in tx[v].inserted PROVE Itemised(s)'
  <2>1. pc[v] \in TxnSteps /\ s.run = tx[v].run
    BY DEF InTransaction
  <2>2. s.run \in Runs
    BY <2>1 DEF Typed, Numbered, RunSteps
  <2> QED BY <2>1, <2>2, RunRemembers, ItemisedKept DEF AllItemised
<1> USE DEF AllItemised, OthersKeep
<1>3. CASE Quiet
  BY <1>1, <1>2, <1>3 DEF Quiet, Keeps
<1>4. ASSUME NEW w \in Workers, Leaves(w) PROVE AllItemised'
  BY <1>1, <1>2, <1>4, LeaveEffect DEF Leaves
<1>5. ASSUME NEW w \in Workers, NEW p \in Periods, LoadForRun(w, p) PROVE AllItemised'
  BY <1>1, <1>2, <1>5, LoadEffect
<1>6. ASSUME NEW w \in Workers, CollectPayslips(w) PROVE AllItemised'
  BY <1>1, <1>2, <1>6, CollectEffect
<1>7. ASSUME NEW w \in Workers, NEW s \in tx[w].doomed, DeletePayslip(w, s)
      PROVE  AllItemised'
  BY <1>1, <1>2, <1>7, DeleteEffect
<1>8. ASSUME NEW w \in Workers, InsertPayslip(w) PROVE AllItemised'
  <2>1. OthersKeep(w) /\ payslips' = payslips
    BY <1>8, InsertEffect
  <2>2. PICK s : tx'[w].inserted = tx[w].inserted \cup {s} /\ Itemised(s)'
    BY <1>8, InsertItemised
  <2> QED BY <1>1, <1>2, <2>1, <2>2
<1>9. ASSUME NEW w \in Workers, CommitRun(w) PROVE AllItemised'
  BY <1>1, <1>2, <1>9, LeaveEffect DEF CommitRun
<1> QED BY <1>3, <1>4, <1>5, <1>6, <1>7, <1>8, <1>9, Classified

LEMMA ItemisedInit == Init => FreshLines /\ Reading /\ AllItemised
BY DEF Init, FreshLines, Reading, AllItemised, Pending, NoRequest, LineSteps

\* However long a run takes and whatever is entered, edited or deleted
\* meanwhile, its payslips have exactly lines of their employee and period, and
\* every line that was there when its transaction began and still is.
THEOREM PayslipsItemised == Spec => []LinesExact
<1> DEFINE Inv == FreshLines /\ Reading /\ AllItemised
<1>1. Init => Inv
  BY ItemisedInit
<1>2. IInv /\ Course /\ Inv /\ [Next]_vars => Inv'
  BY FreshStep, ReadingStep, ItemisedStep DEF IInv
<1>3. Inv => LinesExact
  BY DEF LinesExact, AllItemised, Itemised, Remembered
<1> HIDE DEF Inv
<1> QED BY <1>1, <1>2, <1>3, Invariant, ListedAlways, PTL DEF Spec

-----------------------------------------------------------------------------
(* Refinement.                                                             *)

\* A run deletes payslips of its own period only.
DeletesOwn ==
    \A w \in Workers : \A s \in tx[w].doomed \cup tx[w].deleted :
       s.period \in tx[w].period

LEMMA DeletesOwnStep ==
    ASSUME Typed, InTransaction, DeletesOwn, [Next]_vars
    PROVE  DeletesOwn'
<1> USE DEF DeletesOwn, OthersKeep
<1>1. CASE Quiet
  BY <1>1 DEF Quiet, Keeps, InTransaction
<1>2. ASSUME NEW w \in Workers, Leaves(w) PROVE DeletesOwn'
  BY <1>2, LeaveEffect DEF Leaves
<1>3. ASSUME NEW w \in Workers, NEW p \in Periods, LoadForRun(w, p) PROVE DeletesOwn'
  BY <1>3, LoadEffect DEF InTransaction, TxnSteps
<1>4. ASSUME NEW w \in Workers, CollectPayslips(w) PROVE DeletesOwn'
  BY <1>4, CollectEffect
<1>5. ASSUME NEW w \in Workers, NEW s \in tx[w].doomed, DeletePayslip(w, s)
      PROVE  DeletesOwn'
  BY <1>5, DeleteEffect
<1>6. ASSUME NEW w \in Workers, InsertPayslip(w) PROVE DeletesOwn'
  BY <1>6, InsertEffect
<1>7. ASSUME NEW w \in Workers, CommitRun(w) PROVE DeletesOwn'
  BY <1>7, LeaveEffect DEF CommitRun
<1> QED BY <1>1, <1>2, <1>3, <1>4, <1>5, <1>6, <1>7, Classified

Seen == [r \in Runs |-> log[r].runs]
Listing == [r \in Runs |-> log[r].payable]

\* A step that neither begins, lists nor commits a run, nor deletes a payslip.
LEMMA Unseen ==
    ASSUME payslips' = payslips, committed' = committed,
           \A r \in Runs : log'[r].runs = log[r].runs /\ log'[r].payable = log[r].payable
    PROVE  UNCHANGED Ledger!vars
BY DEF Ledger!vars

LEMMA LedgerInit == Init => Ledger!Init
BY DEF Init, Ledger!Init

LEMMA LedgerBegin ==
    ASSUME IInv, NEW w \in Workers, CollectPayslips(w)
    PROVE  Ledger!Next
<1>1. PICK r \in Runs : r = tx[w].run
  BY CollectMoves DEF IInv
<1>2. /\ r \notin committed
      /\ payslips' = payslips /\ committed' = committed
      /\ \A q \in Runs :
            /\ log'[q].payable = log[q].payable
            /\ log'[q].runs = IF q = r THEN committed ELSE log[q].runs
  BY <1>1, CollectMoves, CollectEffect DEF IInv, Sequenced
<1>3. Seen' = [Seen EXCEPT ![r] = committed] /\ Listing' = Listing
  BY <1>2 DEF Seen, Listing
<1>4. Ledger!Begin(r)
  BY <1>2, <1>3 DEF Ledger!Begin, Seen, Listing
<1> QED BY <1>4 DEF Ledger!Next

LEMMA LedgerList ==
    ASSUME IInv, NEW w \in Workers, ListEmployees(w)
    PROVE  Ledger!Next
<1>1. PICK r \in Runs : r = tx[w].run
  BY ListMoves DEF IInv
<1>2. /\ r \notin committed
      /\ payslips' = payslips /\ committed' = committed
      /\ \A q \in Runs :
            /\ log'[q].runs = log[q].runs
            /\ q # r => log'[q].payable = log[q].payable
  BY <1>1, ListMoves DEF IInv, Sequenced, ListEmployees, rows
<1>3. PICK paid \in SUBSET Employees : paid = log'[r].payable
  <2>1. TypeOK'
    BY TypeNext DEF IInv, Next, Proceed
  <2> QED BY <2>1 DEF TypeOK, LogEntry
<1>4. Listing' = [Listing EXCEPT ![r] = paid] /\ Seen' = Seen
  BY <1>2, <1>3 DEF Seen, Listing
<1>5. Ledger!List(r, paid)
  BY <1>2, <1>4 DEF Ledger!List, Seen, Listing
<1> QED BY <1>5 DEF Ledger!Next

\* The commit takes effect for a reader at once: it is the only step in which
\* payslips appear, and what the run had collected disappears with it.
LEMMA LedgerPublish ==
    ASSUME IInv, IInv', Course, Listed, DeletesOwn, NEW w \in Workers, CommitRun(w)
    PROVE  Ledger!Next
<1>1. PICK r \in Runs : r = tx[w].run
  BY CommitMoves
<1>2. /\ r \notin committed
      /\ payslips' \ payslips = tx[w].inserted
      /\ payslips \ payslips' \subseteq tx[w].deleted
      /\ \A s \in tx[w].inserted : s.run = r /\ s.period \in tx[w].period
      /\ {s.employee : s \in tx[w].inserted} = log[r].payable
      /\ committed' = committed \cup {r} /\ log' = log
  BY <1>1, CommitMoves
<1>3. pc[w] = "each"
  BY DEF CommitRun
<1>4. PICK p \in Periods : tx[w].period = {p}
  BY <1>3 DEF Course, RunSteps, TxnSteps
<1>5. \A s \in payslips' \ payslips : s.run = r /\ s.period = p
  BY <1>2, <1>4
<1>6. \A s \in payslips \ payslips' : s.period = p
  BY <1>2, <1>4 DEF DeletesOwn
<1>7. \A s, t \in payslips' :
         s.period = p /\ t.period = p /\ s.employee = t.employee => s = t
  BY DEF IInv, OnePayslip, SameKey
<1>8. ASSUME NEW s \in payslips', s.period = p PROVE s.run \notin log[r].runs
  <2>1. s \in payslips \ tx[w].deleted \/ s \in tx[w].inserted
    BY <1>8 DEF CommitRun
  <2>2. CASE s \in payslips \ tx[w].deleted
    <3>1. tx[w].doomed = {}
      BY <1>3 DEF IInv, InTransaction
    <3> QED BY <1>1, <1>3, <1>4, <1>8, <2>2, <3>1 DEF IInv, Replacing, TxnSteps
  <2>3. CASE s \in tx[w].inserted
    BY <1>2, <2>3 DEF IInv, Sequenced
  <2> QED BY <2>1, <2>2, <2>3
<1>9. Ledger!Publish(r, p)
  BY <1>2, <1>5, <1>6, <1>7, <1>8 DEF Ledger!Publish
<1> QED BY <1>9 DEF Ledger!Next

\* Every step is a step of the ledger, or shows a reader nothing.
LEMMA LedgerStep ==
    ASSUME IInv, Course, Listed, DeletesOwn, [Next]_vars
    PROVE  [Ledger!Next]_(Ledger!vars)
<1>1. ASSUME NEW w \in Workers, CollectPayslips(w) PROVE Ledger!Next
  BY <1>1, LedgerBegin
<1>2. ASSUME NEW w \in Workers, ListEmployees(w) PROVE Ledger!Next
  BY <1>2, LedgerList
<1>3. ASSUME NEW w \in Workers, CommitRun(w) PROVE Ledger!Next
  BY <1>3, LedgerPublish, IInvStep
<1>4. ASSUME NEW s \in payslips, AdminDeletePayslip(s) PROVE Ledger!Next
  <2>1. Ledger!Withdraw(s)
    BY <1>4 DEF AdminDeletePayslip, history, Ledger!Withdraw
  <2> QED BY <2>1 DEF Ledger!Next
<1>5. ASSUME NEW w \in Workers,
             \/ Begin(w) \/ AbortDeadlocked(w) \/ Crash(w)
             \/ AcceptForm(w) \/ RefuseForm(w)
             \/ \E s \in tx[w].doomed : DeletePayslip(w, s)
             \/ DeletionDone(w)
             \/ \E x \in tx[w].todo : NextEmployee(w, x)
             \/ ReadBonuses(w) \/ ReadDeductions(w) \/ ReadReimbursements(w)
             \/ SkipEmployee(w) \/ InsertPayslip(w) \/ FailRun(w) \/ RollBackRun(w)
             \/ SaveClosed(w) \/ InsertCompensation(w) \/ SaveEmployee(w)
      PROVE  UNCHANGED <<payslips, committed, log>>
  BY <1>5 DEF Begin, LoadForRun, LoadForClose, ValidateCompensation, LoadForEdit,
     AbortDeadlocked, Crash, AcceptForm, RefuseForm, DeletePayslip, DeletionDone,
     NextEmployee, ReadBonuses, ReadDeductions, ReadReimbursements, ReadLines,
     SkipEmployee, InsertPayslip, FailRun, RollBackRun, SaveClosed,
     InsertCompensation, SaveEmployee, rows, history
<1>6. CASE Elsewhere /\ \A s \in payslips : ~AdminDeletePayslip(s)
  BY <1>6 DEF Elsewhere, Hire, DeleteEmployee, AdminSetStatus, AdminDeletePeriod,
     AdminDeleteCompensation, Edits, AdminEditCompensation, history, Ledger!vars
<1>7. CASE UNCHANGED vars
  BY <1>7, Unseen DEF vars, rows, history
<1>8. UNCHANGED <<payslips, committed, log>> => UNCHANGED Ledger!vars
  BY Unseen
<1> QED BY <1>1, <1>2, <1>3, <1>4, <1>5, <1>6, <1>7, <1>8 DEF Next, Proceed, Elsewhere

\* PayrollRun implements PayrollLedger: however the statements of runs, their
\* waits, failures and crashes interleave, whoever reads payslips sees each run
\* take effect in one step, replacing all that its period had when it began.
THEOREM LedgerImplemented == Spec => ImplementsLedger
<1>1. Init => DeletesOwn
  BY DEF Init, DeletesOwn, NoRequest
<1>2. IInv /\ DeletesOwn /\ [Next]_vars => DeletesOwn'
  BY DeletesOwnStep DEF IInv
<1>3. IInv /\ Course /\ Listed /\ DeletesOwn /\ [Next]_vars => [Ledger!Next]_(Ledger!vars)
  BY LedgerStep
<1>4. Init => Ledger!Init
  BY LedgerInit
<1> QED
  BY <1>1, <1>2, <1>3, <1>4, Invariant, ListedAlways, PTL
     DEF Spec, ImplementsLedger, Ledger!Spec
=============================================================================
