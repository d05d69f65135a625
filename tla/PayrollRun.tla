----------------------------- MODULE PayrollRun -----------------------------
(***************************************************************************)
(* Payroll runs of one company, interleaved statement by statement with    *)
(* everything else that writes the rows they read: closing a period,       *)
(* entering compensation, editing staff and the super-admin's site.        *)
(*                                                                         *)
(* The database is PostgreSQL in autocommit at READ COMMITTED, as Django   *)
(* leaves it: a statement sees what was committed when it began, every     *)
(* statement outside run_payroll_for_period commits on its own, and the    *)
(* run's writes stay private to its worker until its commit.  A worker     *)
(* serves one request at a time; between two of its statements any other   *)
(* worker may move.                                                        *)
(***************************************************************************)
EXTENDS Naturals, FiniteSets

CONSTANTS
    Employees,      \* primary keys of employees, hired or still to be hired
    Periods,        \* primary keys of the company's pay periods
    Workers,        \* server processes, one request each
    HireProfiles,   \* pay profiles a new employee can get (form, CSV)
    EditProfiles,   \* pay profiles an edit can leave (form, admin)
    MaxRuns,        \* bound: payroll runs submitted in a behaviour
    MaxLines        \* bound: compensation lines submitted in a behaviour

Bases == {"fixed", "hourly", "unit"}
Rates == {"set", "null", "unquantizable"}  \* the rate pay_basis selects
Profile == [basis : Bases, rate : Rates]
Kinds == {"bonus", "deduction", "reimbursement"}

ASSUME BoundsAssumption == MaxRuns \in Nat /\ MaxLines \in Nat
ASSUME ProfilesAssumption ==
    HireProfiles \subseteq Profile /\ EditProfiles \subseteq Profile

Runs == 1 .. MaxRuns
Lines == 1 .. MaxLines

CompLine == [id : Lines, kind : Kinds, employee : Employees, period : Periods]
Payslip  == [run : Runs, employee : Employees, period : Periods,
             lines : SUBSET CompLine]
Person   == [employee : Employees, profile : Profile]  \* a loaded Employee
Given    == [employee : Employees, basis : Bases]      \* hours or units typed in

VARIABLES
    \* Committed rows.
    status,     \* period -> "open", "closed" or "deleted"
    staff,      \* employee -> "unborn", "active", "inactive" or "deleted"
    profile,    \* employee -> pay profile on the row
    comp,       \* bonus, deduction and reimbursement rows
    payslips,   \* payslip rows; a row is known by its run and employee
    \* What each worker's request holds in memory and in its transaction.
    pc,         \* worker -> statement it executes next
    tx,         \* worker -> its request's locals and uncommitted writes
    \* Sequences, and what the properties remember of the past.
    nextRun, nextLine,
    committed,  \* runs that have committed
    log,        \* run -> what was committed when its transaction began
    racing      \* period -> workers past the open check when it was closed

rows == <<status, staff, profile, comp, payslips>>
history == <<committed, log, racing>>
vars == <<rows, pc, tx, nextRun, nextLine, history>>

Steps == {"idle", "form", "collect", "delete", "list", "each", "bonus",
          "deduction", "reimbursement", "compute",
          "close", "addcomp", "edit"}

\* Steps of a payroll run, and those inside its transaction.
TxnSteps == {"delete", "list", "each", "bonus", "deduction", "reimbursement",
             "compute"}
RunSteps == TxnSteps \cup {"form", "collect"}

Request ==
    [run : 0 .. MaxRuns,            \* 0: the request is not a run
     period : SUBSET Periods,       \* the PayPeriod it loaded, if any
     person : SUBSET Person,        \* the Employee it works on, if any
     inputs : SUBSET Given,         \* hours_by_employee, units_by_employee
     doomed : SUBSET Payslip,       \* collected, not yet deleted
     deleted : SUBSET Payslip,      \* deleted, uncommitted
     inserted : SUBSET Payslip,     \* inserted, uncommitted
     todo : SUBSET Person,          \* employees listed, not yet handled
     lines : SUBSET CompLine]       \* lines read, or the line to insert

NoRequest == [run |-> 0, period |-> {}, person |-> {}, inputs |-> {},
              doomed |-> {}, deleted |-> {}, inserted |-> {}, todo |-> {},
              lines |-> {}]

LogEntry == [runs : SUBSET Runs, comp : SUBSET CompLine,
             payable : SUBSET Employees]

Employed(e) == staff[e] \in {"active", "inactive"}
Stored(p) == status[p] \in {"open", "closed"}

(***************************************************************************)
(* Names ending in Variant are not part of the specification: each is the  *)
(* definition that follows it with one mistake the code could have made,   *)
(* and substituting it shows which property notices the mistake.           *)
(***************************************************************************)

\* The label of the choice saved in place of its value.
ClosedVariant == "Closed"
Closed == "closed"

\* The period can be opened by its key whatever its status.
IsOpenVariant(p) == Stored(p)
IsOpen(p) == status[p] = "open"

Init ==
    /\ status = [p \in Periods |-> "open"]
    /\ staff = [e \in Employees |-> "unborn"]
    /\ profile \in [Employees -> {CHOOSE q \in Profile : TRUE}]
    /\ comp = {}
    /\ payslips = {}
    /\ pc = [w \in Workers |-> "idle"]
    /\ tx = [w \in Workers |-> NoRequest]
    /\ nextRun = 1 /\ nextLine = 1
    /\ committed = {}
    /\ log = [r \in Runs |-> [runs |-> {}, comp |-> {}, payable |-> {}]]
    /\ racing = [p \in Periods |-> {}]

-----------------------------------------------------------------------------
(* The life of a request.                                                  *)

Goto(w, step) == pc' = [pc EXCEPT ![w] = step]

\* The request ends; what its transaction had not committed is rolled back.
End(w) == /\ pc' = [pc EXCEPT ![w] = "idle"]
          /\ tx' = [tx EXCEPT ![w] = NoRequest]

\* Requests that may still add rows to p: they read it when it was open.
Adding(p) == {w \in Workers : /\ p \in tx[w].period
                              /\ pc[w] \in RunSteps \cup {"addcomp"}}

\* A statement sets p's status; a period that becomes closed remembers the
\* requests that were already past the open check, an open one has none.
SetStatus(p, s) ==
    /\ status' = [status EXCEPT ![p] = s]
    /\ racing' = [racing EXCEPT ![p] =
                    IF s # Closed THEN {}
                    ELSE IF status[p] = Closed THEN @ ELSE Adding(p)]

\* racing after worker w's request has ended.
Finished(w) == [p \in Periods |-> racing[p] \ {w}]

-----------------------------------------------------------------------------
(* Waiting for row locks and for uncommitted unique keys.                  *)

SameKey(s, t) == s.employee = t.employee /\ s.period = t.period

\* Some other transaction has deleted row s and not committed yet.
LockedBy(w, s) == {v \in Workers \ {w} : s \in tx[v].deleted}

\* Transactions whose outcome decides whether w can insert row s.
InsertWaitsFor(w, s) ==
    {v \in Workers \ {w} :
        \/ \E t \in tx[v].inserted : SameKey(s, t)
        \/ \E t \in payslips \cap tx[v].deleted : SameKey(s, t)}

\* A row w sees, committed or its own, holds the unique key of s; the variant
\* has no unique_employee_period constraint.
KeyTakenVariant(w, s) == FALSE
KeyTaken(w, s) ==
    \E t \in (payslips \ tx[w].deleted) \cup tx[w].inserted : SameKey(s, t)

\* calculate_payslip: base pay needs the rate of the pay basis and, unless it
\* is fixed, hours or units entered for that basis; else it raises ValueError.
Computable(w, x) ==
    /\ x.profile.rate # "null"
    /\ \/ x.profile.basis = "fixed"
       \/ [employee |-> x.employee, basis |-> x.profile.basis] \in tx[w].inputs

\* The payslip worker w makes for employee x.
NewPayslip(w, x, p) ==
    [run |-> tx[w].run, employee |-> x.employee, period |-> p,
     lines |-> tx[w].lines]

\* The transactions w cannot move without; empty when it can.
WaitsFor(w) ==
    CASE pc[w] = "delete" /\ tx[w].doomed # {}
           -> IF \E s \in tx[w].doomed : LockedBy(w, s) = {} THEN {}
              ELSE UNION {LockedBy(w, s) : s \in tx[w].doomed}
      [] pc[w] = "compute"
           -> UNION {IF Computable(w, x) /\ x.profile.rate = "set"
                     THEN UNION {InsertWaitsFor(w, NewPayslip(w, x, p)) :
                                   p \in tx[w].period}
                     ELSE {} : x \in tx[w].person}
      [] OTHER -> {}

\* w waits, and is in a cycle of waiting transactions: a least set of workers in
\* which each one waits for another.
Deadlocked(w) ==
    LET Stuck(S) == S # {} /\ \A v \in S : WaitsFor(v) \cap S # {}
    IN /\ WaitsFor(w) # {}
       /\ \E S \in SUBSET Workers :
             /\ w \in S
             /\ Stuck(S)
             /\ \A T \in SUBSET S : T # S => ~Stuck(T)

-----------------------------------------------------------------------------
(* run_payroll_view and run_payroll_for_period.                            *)

\* get_object_or_404 and the is_closed check.  The number is for bookkeeping.
LoadForRun(w, p) ==
    /\ pc[w] = "idle"
    /\ IsOpen(p)
    /\ nextRun <= MaxRuns
    /\ nextRun' = nextRun + 1
    /\ tx' = [tx EXCEPT ![w].period = {p}, ![w].run = nextRun]
    /\ Goto(w, "form")
    /\ UNCHANGED <<rows, nextLine, history>>

\* RunPayrollForm: hours or units are required of every active employee who
\* is not on a fixed salary, so a valid form gives all of them.
AcceptForm(w) ==
    /\ pc[w] = "form"
    /\ tx' = [tx EXCEPT ![w].inputs =
                {g \in Given : /\ staff[g.employee] = "active"
                               /\ g.basis = profile[g.employee].basis
                               /\ g.basis # "fixed"}]
    /\ Goto(w, "collect")
    /\ UNCHANGED <<rows, nextRun, nextLine, history>>

\* The form, of a run or of an edit, was not valid or was only asked for.
RefuseForm(w) ==
    /\ pc[w] \in {"form", "edit"}
    /\ End(w)
    /\ racing' = Finished(w)
    /\ UNCHANGED <<rows, nextRun, nextLine, committed, log>>

\* The payslips the run replaces; the variant keeps those of employees who
\* have left.
ReplacedVariant(w) == {s \in payslips : /\ s.period \in tx[w].period
                                       /\ staff[s.employee] = "active"}
Replaced(w) == {s \in payslips : s.period \in tx[w].period}

\* BEGIN, and the SELECT with which delete() collects the period's payslips.
CollectPayslips(w) ==
    /\ pc[w] = "collect"
    /\ tx' = [tx EXCEPT ![w].doomed = Replaced(w)]
    /\ log' = [log EXCEPT ![tx[w].run] =
                            [@ EXCEPT !.runs = committed, !.comp = comp]]
    /\ Goto(w, "delete")
    /\ UNCHANGED <<rows, nextRun, nextLine, committed, racing>>

\* DELETE ... WHERE id IN (...), one row: it waits for a lock on the row and
\* skips a row that is gone.
DeletePayslip(w, s) ==
    /\ pc[w] = "delete"
    /\ s \in tx[w].doomed
    /\ LockedBy(w, s) = {}
    /\ tx' = [tx EXCEPT ![w].doomed = @ \ {s},
                        ![w].deleted = @ \cup ({s} \cap payslips)]
    /\ UNCHANGED <<rows, pc, nextRun, nextLine, history>>

DeletionDone(w) ==
    /\ pc[w] = "delete"
    /\ tx[w].doomed = {}
    /\ Goto(w, "list")
    /\ UNCHANGED <<rows, tx, nextRun, nextLine, history>>

\* list(Employee.all_tenants.filter(company=..., is_active=True)).
ListEmployees(w) ==
    /\ pc[w] = "list"
    /\ LET listed == {x \in Person : /\ staff[x.employee] = "active"
                                     /\ x.profile = profile[x.employee]}
       IN /\ tx' = [tx EXCEPT ![w].todo = listed]
          /\ log' = [log EXCEPT ![tx[w].run].payable =
                        {x.employee : x \in {y \in listed : Computable(w, y)}}]
    /\ Goto(w, "each")
    /\ UNCHANGED <<rows, nextRun, nextLine, committed, racing>>

\* The loop takes the next employee.  Names tie and are edited between two
\* listings, so any order is possible.
NextEmployee(w, x) ==
    /\ pc[w] = "each"
    /\ x \in tx[w].todo
    /\ tx' = [tx EXCEPT ![w].todo = @ \ {x},
                        ![w].person = {x},
                        ![w].lines = {}]
    /\ Goto(w, "bonus")
    /\ UNCHANGED <<rows, nextRun, nextLine, history>>

\* filter(employee=emp, period=period); the variant forgets the period.
LinesOfVariant(w, kind) ==
    {l \in comp : /\ l.kind = kind
                  /\ \E x \in tx[w].person : l.employee = x.employee}
LinesOf(w, kind) ==
    {l \in comp : /\ l.kind = kind
                  /\ l.period \in tx[w].period
                  /\ \E x \in tx[w].person : l.employee = x.employee}

\* One of the three lazy querysets is evaluated by _comp_list.
ReadLines(w, kind, next) ==
    /\ pc[w] = kind
    /\ tx' = [tx EXCEPT ![w].lines = @ \cup LinesOf(w, kind)]
    /\ Goto(w, next)
    /\ UNCHANGED <<rows, nextRun, nextLine, history>>

\* except ValueError: continue.
SkipEmployee(w) ==
    /\ pc[w] = "compute"
    /\ \E x \in tx[w].person : ~Computable(w, x)
    /\ tx' = [tx EXCEPT ![w].person = {}, ![w].lines = {}]
    /\ Goto(w, "each")
    /\ UNCHANGED <<rows, nextRun, nextLine, history>>

\* Payslip.objects.create and the bulk_create of its lines.
InsertPayslip(w) ==
    /\ pc[w] = "compute"
    /\ \E x \in tx[w].person, p \in tx[w].period :
          LET s == NewPayslip(w, x, p)
          IN /\ Computable(w, x)
             /\ x.profile.rate = "set"
             /\ InsertWaitsFor(w, s) = {}
             /\ ~KeyTaken(w, s)
             /\ tx' = [tx EXCEPT ![w].inserted = @ \cup {s},
                                 ![w].person = {}, ![w].lines = {}]
    /\ Goto(w, "each")
    /\ UNCHANGED <<rows, nextRun, nextLine, history>>

\* InvalidOperation is not a ValueError, and a committed payslip with the same
\* employee and period raises IntegrityError.
InsertFails(w) ==
    \E x \in tx[w].person, p \in tx[w].period :
       /\ Computable(w, x)
       /\ \/ x.profile.rate = "unquantizable"
          \/ /\ InsertWaitsFor(w, NewPayslip(w, x, p)) = {}
             /\ KeyTaken(w, NewPayslip(w, x, p))

\* The transaction rolls back and the request answers 500; the variant treats
\* every error as a reason to skip the employee.
FailRunVariant(w) ==
    /\ pc[w] = "compute"
    /\ InsertFails(w)
    /\ tx' = [tx EXCEPT ![w].person = {}, ![w].lines = {}]
    /\ Goto(w, "each")
    /\ UNCHANGED <<rows, nextRun, nextLine, history>>
FailRun(w) ==
    /\ pc[w] = "compute"
    /\ InsertFails(w)
    /\ End(w)
    /\ racing' = Finished(w)
    /\ UNCHANGED <<rows, nextRun, nextLine, committed, log>>

\* The foreign keys of the inserted rows, deferred to the commit; the variant
\* declares none.
ReferencesHoldVariant(w) == TRUE
ReferencesHold(w) ==
    \A s \in tx[w].inserted : Employed(s.employee) /\ Stored(s.period)

CommitRun(w) ==
    /\ pc[w] = "each"
    /\ tx[w].todo = {}
    /\ ReferencesHold(w)
    /\ payslips' = (payslips \ tx[w].deleted) \cup tx[w].inserted
    /\ committed' = committed \cup {tx[w].run}
    /\ End(w)
    /\ racing' = Finished(w)
    /\ UNCHANGED <<status, staff, profile, comp, nextRun, nextLine, log>>

\* A foreign key fails at the commit: IntegrityError, everything rolled back.
RollBackRun(w) ==
    /\ pc[w] = "each"
    /\ tx[w].todo = {}
    /\ ~ReferencesHold(w)
    /\ End(w)
    /\ racing' = Finished(w)
    /\ UNCHANGED <<rows, nextRun, nextLine, committed, log>>

\* PostgreSQL breaks a cycle of waiting transactions by aborting one of them.
AbortDeadlocked(w) ==
    /\ Deadlocked(w)
    /\ End(w)
    /\ racing' = Finished(w)
    /\ UNCHANGED <<rows, nextRun, nextLine, committed, log>>

\* The worker dies or the connection drops between two statements.
Crash(w) ==
    /\ pc[w] # "idle"
    /\ End(w)
    /\ racing' = Finished(w)
    /\ UNCHANGED <<rows, nextRun, nextLine, committed, log>>

-----------------------------------------------------------------------------
(* Closing a period, entering compensation, keeping the staff.             *)

\* close_period_view loads the period whatever its status ...
LoadForClose(w, p) ==
    /\ pc[w] = "idle"
    /\ Stored(p)
    /\ tx' = [tx EXCEPT ![w].period = {p}]
    /\ Goto(w, "close")
    /\ UNCHANGED <<rows, nextRun, nextLine, history>>

\* ... and saves all of it, inserting the row again if it is gone.  The variant
\* updates only an open period, and tries again until it has.
SaveClosedVariant(w) ==
    /\ pc[w] = "close"
    /\ \E p \in tx[w].period : IsOpen(p) /\ SetStatus(p, Closed)
    /\ End(w)
    /\ UNCHANGED <<staff, profile, comp, payslips, nextRun, nextLine,
                   committed, log>>
SaveClosed(w) ==
    /\ pc[w] = "close"
    /\ \E p \in tx[w].period : SetStatus(p, Closed)
    /\ End(w)
    /\ UNCHANGED <<staff, profile, comp, payslips, nextRun, nextLine,
                   committed, log>>

\* _BaseCompensationForm: an active employee and an open period.
ValidateCompensation(w, e, p, kind) ==
    /\ pc[w] = "idle"
    /\ staff[e] = "active"
    /\ IsOpen(p)
    /\ nextLine <= MaxLines
    /\ nextLine' = nextLine + 1
    /\ tx' = [tx EXCEPT
                ![w].period = {p},
                ![w].lines = {[id |-> nextLine, kind |-> kind,
                               employee |-> e, period |-> p]}]
    /\ Goto(w, "addcomp")
    /\ UNCHANGED <<rows, nextRun, history>>

\* obj.save(); the insert fails if a row it references has gone meanwhile.
InsertCompensation(w) ==
    /\ pc[w] = "addcomp"
    /\ comp' = comp \cup {l \in tx[w].lines : /\ Employed(l.employee)
                                              /\ Stored(l.period)}
    /\ End(w)
    /\ racing' = Finished(w)
    /\ UNCHANGED <<status, staff, profile, payslips, nextRun, nextLine,
                   committed, log>>

\* EmployeeCreateView or a CSV row.
Hire(e) ==
    /\ staff[e] = "unborn"
    /\ \E s \in {"active", "inactive"}, q \in HireProfiles :
          /\ staff' = [staff EXCEPT ![e] = s]
          /\ profile' = [profile EXCEPT ![e] = q]
    /\ UNCHANGED <<status, comp, payslips, pc, tx, nextRun, nextLine, history>>

\* EmployeeUpdateView loads the row ...
LoadForEdit(w, e) ==
    /\ pc[w] = "idle"
    /\ Employed(e)
    /\ tx' = [tx EXCEPT ![w].person =
                {[employee |-> e, profile |-> profile[e]]}]
    /\ Goto(w, "edit")
    /\ UNCHANGED <<rows, nextRun, nextLine, history>>

\* ... and writes all its columns back: an UPDATE, or an INSERT with the same
\* key when the row has been deleted meanwhile.
SaveEmployee(w) ==
    /\ pc[w] = "edit"
    /\ \E x \in tx[w].person, s \in {"active", "inactive"}, q \in EditProfiles :
          /\ staff' = [staff EXCEPT ![x.employee] = s]
          /\ profile' = [profile EXCEPT ![x.employee] = q]
    /\ End(w)
    /\ UNCHANGED <<status, comp, payslips, nextRun, nextLine, history>>

\* EmployeeDeleteView: PROTECT, and the foreign keys, refuse an employee whom
\* a committed payslip or compensation line references.
DeleteEmployee(e) ==
    /\ Employed(e)
    /\ \A s \in payslips : s.employee # e
    /\ \A l \in comp : l.employee # e
    /\ staff' = [staff EXCEPT ![e] = "deleted"]
    /\ UNCHANGED <<status, profile, comp, payslips, pc, tx, nextRun, nextLine,
                   history>>

-----------------------------------------------------------------------------
(* The super-admin's site.                                                 *)

\* PayPeriodAdmin saves the change form, whose status is a free choice.
AdminSetStatus(p, s) ==
    /\ Stored(p)
    /\ SetStatus(p, s)
    /\ UNCHANGED <<staff, profile, comp, payslips, pc, tx, nextRun, nextLine,
                   committed, log>>

AdminDeletePeriod(p) ==
    /\ Stored(p)
    /\ \A s \in payslips : s.period # p
    /\ \A l \in comp : l.period # p
    /\ SetStatus(p, "deleted")
    /\ UNCHANGED <<staff, profile, comp, payslips, pc, tx, nextRun, nextLine,
                   committed, log>>

\* The row's lines go with it (CASCADE); the DELETE waits while a run has it.
AdminDeletePayslip(s) ==
    /\ \A w \in Workers : s \notin tx[w].deleted
    /\ payslips' = payslips \ {s}
    /\ UNCHANGED <<status, staff, profile, comp, pc, tx, nextRun, nextLine,
                   history>>

AdminDeleteCompensation(l) ==
    /\ comp' = comp \ {l}
    /\ UNCHANGED <<status, staff, profile, payslips, pc, tx, nextRun, nextLine,
                   history>>

\* The change form leaves another version of a row, of any employee and period:
\* only the staff's form asks for an open one.
AdminEditCompensation(l, e, p) ==
    /\ nextLine <= MaxLines
    /\ nextLine' = nextLine + 1
    /\ Employed(e) /\ Stored(p)
    /\ comp' = (comp \ {l}) \cup
          {[l EXCEPT !.id = nextLine, !.employee = e, !.period = p]}
    /\ UNCHANGED <<status, staff, profile, payslips, pc, tx, nextRun, history>>

Edits(l) == \E e \in Employees, p \in Periods : AdminEditCompensation(l, e, p)

-----------------------------------------------------------------------------
ReadBonuses(w) == ReadLines(w, "bonus", "deduction")
ReadDeductions(w) == ReadLines(w, "deduction", "reimbursement")
ReadReimbursements(w) == ReadLines(w, "reimbursement", "compute")

\* The next statement of the request worker w is serving.
Proceed(w) ==
    \/ AcceptForm(w) \/ RefuseForm(w)
    \/ CollectPayslips(w)
    \/ \E s \in tx[w].doomed : DeletePayslip(w, s)
    \/ DeletionDone(w)
    \/ ListEmployees(w)
    \/ \E x \in tx[w].todo : NextEmployee(w, x)
    \/ ReadBonuses(w) \/ ReadDeductions(w) \/ ReadReimbursements(w)
    \/ SkipEmployee(w) \/ InsertPayslip(w) \/ FailRun(w)
    \/ CommitRun(w) \/ RollBackRun(w)
    \/ SaveClosed(w)
    \/ InsertCompensation(w)
    \/ SaveEmployee(w)

\* Worker w takes a new request.
Begin(w) ==
    \/ \E p \in Periods : LoadForRun(w, p) \/ LoadForClose(w, p)
    \/ \E e \in Employees, p \in Periods, kind \in Kinds :
          ValidateCompensation(w, e, p, kind)
    \/ \E e \in Employees : LoadForEdit(w, e)

\* Requests of one statement, by anyone.
Elsewhere ==
    \/ \E e \in Employees : Hire(e) \/ DeleteEmployee(e)
    \/ \E p \in Periods : \/ \E s \in {"open", Closed} : AdminSetStatus(p, s)
                          \/ AdminDeletePeriod(p)
    \/ \E s \in payslips : AdminDeletePayslip(s)
    \/ \E l \in comp : AdminDeleteCompensation(l) \/ Edits(l)

Next ==
    \/ \E w \in Workers : Begin(w) \/ Proceed(w) \/ AbortDeadlocked(w) \/ Crash(w)
    \/ Elsewhere

Spec == Init /\ [][Next]_vars

\* A server keeps executing the request it has taken, and PostgreSQL's
\* deadlock timer always fires; nobody has to send a request or to crash.  A
\* worker cannot do both, since a deadlocked one has no next statement.
Fairness == \A w \in Workers : WF_vars(Proceed(w) \/ AbortDeadlocked(w))
FairSpec == Spec /\ Fairness

-----------------------------------------------------------------------------
(* Properties.                                                             *)

TypeOK ==
    /\ status \in [Periods -> {"open", "closed", "deleted"}]
    /\ staff \in [Employees -> {"unborn", "active", "inactive", "deleted"}]
    /\ profile \in [Employees -> Profile]
    /\ comp \subseteq CompLine
    /\ payslips \subseteq Payslip
    /\ pc \in [Workers -> Steps]
    /\ tx \in [Workers -> Request]
    /\ nextRun \in 1 .. MaxRuns + 1
    /\ nextLine \in 1 .. MaxLines + 1
    /\ committed \subseteq Runs
    /\ log \in [Runs -> LogEntry]
    /\ racing \in [Periods -> SUBSET Workers]

\* However runs overlap, no employee ever has two payslips in one period.
OnePayslip == \A s, t \in payslips : SameKey(s, t) => s = t

\* Whatever is deleted while a run is under way, a committed payslip or
\* compensation line never references a missing employee or period.
NoDangling ==
    /\ \A s \in payslips : Employed(s.employee) /\ Stored(s.period)
    /\ \A l \in comp : Employed(l.employee) /\ Stored(l.period)

\* A period never mixes the payslips of a run with those of a run that had
\* committed before it began: everything older is gone, whoever has been
\* hired, edited or made inactive in between.
ReplacesEarlierRuns ==
    \A s, t \in payslips : s.period = t.period => s.run \notin log[t.run].runs

\* The lines of a payslip are those of its employee and period, and they
\* include each line committed before the run began that still exists.
LinesExact ==
    \A s \in payslips :
       /\ \A l \in s.lines : SameKey(l, s)
       /\ {l \in log[s.run].comp \cap comp : SameKey(l, s)} \subseteq s.lines

RowsIn(p) == {s \in payslips : s.period = p} \cup {l \in comp : l.period = p}

\* Once a period is closed and the requests that had passed the open check
\* have ended, it gains no payslip and no compensation line but those the
\* super-admin moves into it.
SealedAfterClose ==
    [][\/ \E l \in comp : Edits(l)
       \/ \A p \in Periods :
             status[p] = "closed" /\ racing[p] = {} => RowsIn(p)' \subseteq RowsIn(p)]_vars

\* The payslips of a run appear together, one for each employee it listed
\* whose pay could be computed, or not at all.
RunIsAtomic ==
    [][\A r \in Runs :
          LET new == {s \in payslips' \ payslips : s.run = r}
          IN new # {} => {s.employee : s \in new} = log[r].payable]_vars

\* Every request ends, those of runs waiting for each other's rows included.
RequestsEnd == \A w \in Workers : pc[w] # "idle" ~> pc[w] = "idle"

\* "Closed periods are immutable" (the docstring of PayPeriod): a closed
\* period gains nothing.
ClosedGainsNothing ==
    [][\A p \in Periods :
          status[p] = "closed" => RowsIn(p)' \subseteq RowsIn(p)]_vars

\* "Existing payslips for the period are deleted and recreated, so re-running
\* is safe" (the docstring of run_payroll_for_period): the payslips of a
\* period are those of one run.
OneRunPerPeriod ==
    \A s, t \in payslips : s.period = t.period => s.run = t.run
=============================================================================
