# Payroll: a verification project

TLA+ specifications of the payroll system in `src/`, the TLC runs that check
them on small instances, and TLAPS proofs of their main properties for every
size. `PROJECT.json` maps each definition to the lines it models.

## The system

A Django 5.2 application on PostgreSQL, many companies (tenants) in one
database. Server processes handle one request at a time. There are no background
workers, no queues and no locks of the application's own. The database runs
in autocommit at READ COMMITTED (`config/settings/base.py` sets neither
`ATOMIC_REQUESTS` nor an isolation level). So **every statement of a view is a
step of its own that commits at once**, and only what is declared
`@transaction.atomic`, the payroll run, is a transaction. Nothing reads with
`select_for_update`. Most of what is hard here follows from that.

| Component | State | Operations | Interacts with | Hard part, and what makes it correct |
|---|---|---|---|---|
| Payroll run (`payroll/views.py`, `services.py`, `forms.py`) | payslips and lines of a period | run, and run again | reads employees, compensation, the period; calls the calculator | two runs of one period overlap, wait for each other, deadlock, fail in the middle; a run races a closing. All or nothing, one payslip per employee, nothing older survives |
| Calculator (`services/payroll/calculator.py`) | none | `calculate_payslip` | called for each employee | rounding, signs, missing and non-finite numbers. The slip adds up and is rounded once |
| Pay periods (`payroll/models.py`, `views.py`, `admin.py`) | month, status, who closed | create, close, edit and delete (admin site) | guards runs and compensation | check and write are separate statements. One period per month; a closed month stays |
| Compensation (`compensation/`) | bonus, deduction, reimbursement rows | create, edit and delete (admin site) | validated against employees and open periods, read by runs | validated against an open period, saved after it closed |
| Employees (`employees/`) | staff, basis, rates, documents, portal account | create, edit, delete, activate | read by runs, protected by payslips and compensation | a full-row save of a stale copy undoes, or undeletes |
| CSV import (`employees/csv_import.py`) | none | import a file | inserts employees | row-by-row commits, retries, numbers nobody validates |
| Portal accounts (`employees/views.py`, `accounts/models.py`) | users, link to the employee | create an account | e-mail uniqueness, the edit form, the admin site | check, user and link are three commits. An account belongs to one employee and is not lost |
| Audit trail (`audit/`) | append-only entries | record, from signals | every save and delete of an audited model | outside a transaction the entry comes after the commit. It tells nothing that did not happen and names who did it |
| Tenant and user context (`tenants/`, `accounts/middleware.py`) | ContextVars, session variables of the connection | bind and reset per request | scopes queries, row policies, audit attribution | what outlives a request, and errors before the block that resets. Each layer isolates without the other |
| Field encryption (`services/encryption/`) | keys | encrypt, decrypt, rotate | every salary and identifier | servers with different keys during a rotation |
| Companies (`tenants/models.py`, `admin.py`) | slug, `is_active` | switch on and off (admin site) | resolved from the host of each request | deactivated while a request is under way |
| Accounts and sign-in, dashboard, self-service, money, log redaction, commands, repository checks | | | | Django's own, read-only, or stateless: see "Not modelled" |

## Modules

| Module | What it is |
|---|---|
| `PayrollRun` | Runs of one company's payroll, statement by statement, with closing, compensation, staff and the admin site interleaved |
| `PayrollRun_proofs` | Its invariants: types, keys and locks, replacement, then deletions and closing |
| `PayslipCalc`, `PayslipCalc_proofs` | `calculate_payslip`, line by line; rounding |
| `PayPeriods`, `PayPeriods_proofs` | Creation, closing, editing and deletion of periods through `PayPeriod.save` |
| `PayrollLedger` | What overlapping payroll runs promise readers of payslips, in one step each |
| `PayrollRunLedger`, `PayrollRunLedger_proofs` | `PayrollRun` shown to implement it (refinement mapping), step by step; whom a run pays and with which lines |
| `EmployeeRecords` | Employee forms, CSV import, portal accounts, the admin site and the audit trail, statement by statement in autocommit |
| `EmployeeRecords_proofs`, `EmployeeRecordsLinks_proofs`, `EmployeeRecordsTrail_proofs` | Its types and the courses of its requests; employees and their accounts; the audit trail and imports |
| `RequestContext`, `RequestContext_proofs` | Successive requests of one worker: ContextVars, session variables and row policies, encryption keys; its invariants |
| `MCPayrollRun`, `MCPayslipCalc`, `MCPayPeriods`, `MCEmployeeRecords`, `MCRequestContext` | Instances for TLC |

`PayrollRun`, `EmployeeRecords` and `RequestContext` look at the same server
processes from three sides: the payroll transaction, the autocommitted views,
and what a process keeps between requests. They share no variables; each has
of the others' tables only what its own statements read.

A definition whose name ends in `Variant` is not part of a specification: it is
the definition after it with one mistake, and shows which property would notice
it (`PROJECT.json`, "mutants").

### PayrollRun and the code

Committed rows are `status` (periods), `staff` and `profile` (employees), `comp`
and `payslips`. A worker's request is its program counter `pc` and the record
`tx`: its local variables, and its uncommitted deletions and insertions. Actions
follow the order of the statements:

| Step | Code |
|---|---|
| `LoadForRun`, `AcceptForm`/`RefuseForm` | `run_payroll_view`: `get_object_or_404`, `is_closed`; `RunPayrollForm`, whose required fields are those of the hourly and unit employees active then |
| `CollectPayslips`, `DeletePayslip`, `DeletionDone` | `Payslip.all_tenants.filter(period=period).delete()`: the SELECT of Django's collector, then a DELETE by key that locks row after row, waits for rows another run has deleted, and passes over rows that are gone |
| `ListEmployees`, `NextEmployee` | `list(Employee...)` and the loop, in any order: names tie, and are edited between two listings |
| `ReadBonuses`, `ReadDeductions`, `ReadReimbursements` | the three lazy querysets, each its own statement |
| `SkipEmployee`, `InsertPayslip`, `FailRun` | `calculate_payslip`: `ValueError` skips; any other error, or a unique key that is taken, ends the request and the transaction |
| `CommitRun`, `RollBackRun` | the commit, where the deferred foreign keys are checked |
| `AbortDeadlocked`, `Crash` | PostgreSQL aborts a transaction in a cycle of waiting ones; a process dies |
| `LoadForClose`, `SaveClosed` | `close_period_view` |
| `ValidateCompensation`, `InsertCompensation` | `compensation_create` and its form |
| `Hire`, `LoadForEdit`, `SaveEmployee`, `DeleteEmployee` | the employee views; saves write the whole row |
| `AdminSetStatus`, `AdminDelete...`, `AdminEditCompensation` | the super-admin's site |

PostgreSQL is external, and modelled by what the code relies on: a deleted row
is locked until its transaction ends (`LockedBy`); an insert waits for a
transaction that has inserted, or deleted, the same unique key
(`InsertWaitsFor`) and fails if the key is there at last (`KeyTaken`);
`WaitsFor` and `Deadlocked` are its wait graph.

Abstractions. Hours and units entered are a set of `Given` pairs, since only
whether one was entered for the basis decides the control flow; a rate is set,
null or unquantizable. Statements that would lock for an instant only (a
single-row UPDATE in autocommit) are one step. `PayPeriod.save`'s check of a
closed row compares months, which are `PayPeriods`' business; a save it refuses
ends the request with nothing written, as `Crash` does here. The admin site cannot add rows of these
tables (their company is not editable, and not null), so it does not here. It
edits compensation: `id` is then a version of a row, and an edit, one
transaction, leaves the next. The form asks nothing of the period, so a closed
one may gain a line this way, and `SealedAfterClose` excepts just that. Its change
form of payslips is left out: it rewrites employee, period and amounts by hand,
and what it leaves is no run's payslip.

`log`, `committed` and `racing` record the past for the properties and are read
by no guard.

### PayrollLedger

A reader of payslips does not see statements. For it a run r begins (`Begin`:
`seen[r]` is what has taken effect by then), settles whom it pays (`List`) and
takes effect once (`Publish`): the new payslips are all r's, one for each
employee it settled on, what disappears is of its period, nobody is paid twice
in the period, and nothing that r had seen when it began is left. Payslips of a
run that overlapped r may be left: that is what `run_mixed` finds, and the
ledger promises no more than the code keeps. The mapping of `PayrollRunLedger`
is the committed tables as they are, with `seen` and `listing` read off `log`;
every statement, wait, failure and crash in between stutters. `listing` are the
employees a run listed whose pay could be computed when it got to them: a
failed or half-done run that committed, or a skipped employee who could have
been paid, is no step of the ledger.

### EmployeeRecords and the code

`staff`, `users` and `entries` are the committed tables. Of an employee's columns
there are the key, `work_email` and `user`, on which the portal account turns;
all others are written with the row. A worker's request is `pc` and `tx`: the
copy of the row it loaded, the user it created, the line it is at, the outcomes
so far and the change whose signal is next.

| Step | Code |
|---|---|
| `CreateEmployee`, then `Record` | `EmployeeCreateView.form_valid`: the row is committed, then `post_save` writes the entry |
| `LoadToEdit`, `SaveEdit` / `MissRow`, `Reinsert`, then `Record` | `EmployeeUpdateView`: `get_object`, then `Model.save()`, an UPDATE of all columns and, if it found no row, an INSERT with the same key |
| `LoadToDelete`, `DeleteEmployee` / `Decline` | `EmployeeDeleteView`; `delete()` and its signals are one transaction. `Decline`: the form is only asked for or is not valid |
| `LoadForPortal`, `CreateUser` / `UserExists`, `LinkUser`, then `Record` | `create_portal_account_view`; `save(update_fields=...)` raises if the row is gone |
| `StatementFails` | a constraint, or payroll rows that `PROTECT` the employee, refuse: an exception nobody catches, status 500. (The admin site lists the rows that protect first: `Decline`) |
| `RefuseFile`; `BeginImport`, for each line `StoreLine` and `Record`, or `RefuseLine`, or `FailLine`; `FinishImport` | `import_employees` and `csv_import_view`. What a line leads to is a parameter: stored, `ValueError`, or another exception (a short line makes `.strip()` an `AttributeError`; a value its column cannot hold) |
| `LoadInAdmin`, `AdminSave` / `DeleteEmployee` | the change and delete forms of the admin site, a transaction each, on a company's host or the bare domain, where nothing is audited |
| `AdminCreateUser` | `UserAdmin`; no employee is changed |
| `AdminDeleteUser` | `UserAdmin`'s deletion, a request on a company's host or the bare domain. `Employee.user` is `on_delete=SET_NULL`: the collector's UPDATE changes an audited row and sends no signal, so it adds to `changed` and never to `entries` |
| `Crash` | a process dies |

`Normalize` is `normalize_email`: the domain in lower case. Two addresses that
differ only there are one account's, whether `create_user` or the admin site's
form field normalises them. The company an entry is filed under is
`RequestContext`'s business; here a request has one (`tenant`) or none.
`requests`, `changed`, `broken` and `reports` record the past for the
properties; of them guards read only what is a request's own input.

### RequestContext and the code

One worker of one server, since a worker shares nothing with the others but
the database, which they change (`SavedElsewhere`, `DeletedElsewhere`), the
companies and the settings. The chain is that of `settings.MIDDLEWARE`:
`Receive` (the user's ContextVar, whose `try` follows at once),
`Resolve` (`request.tenant`, the tenant's ContextVar), `ApplySession` (one
`set_config` statement), the view, and `Return` through both `finally` blocks.
`MiddlewareFails` is an exception of the database in between: the query for the
company, or `set_config`, which comes after `current_tenant.set` and before the
`try`. Then the tenant's ContextVar keeps its value, the next request's token
remembers it, and its `finally` restores it; the model has exactly that.
`Disconnect`: whether the connection, and with it the session variables, outlives
the request is a setting (`CONN_MAX_AGE`), so both may happen.

In the view, `ChangeRow` saves or deletes a row found with `objects`
(`ManagerRows`, in the staff's pages) or `all_tenants` (the admin site), under
the row policies in both cases (`PolicyRows`); `InsertRow` is a form's save with
`company = request.tenant`; `RecordAudit` takes company and actor from the
ContextVars, and the policies apply to the entry. Rows stand for those of any
table with policies. `keys` is the newest key the server was started with, as
`FIELD_ENCRYPTION_KEYS` is read at start: `Decrypts` is `MultiFernet`, which
tries each key it has, `Rotate` puts a key first, `Restart` restarts this server.
A row it cannot decrypt is an exception in the view.

### PayslipCalc and the code

A payslip's computation is a loop, so it is a state machine: the base pay, one
step per bonus, deduction and reimbursement, the net pay. Decimals are integers:
rates in parts of a cent (`Grain` parts), compensation in cents, since its form
fields allow two decimal places. Decimals beyond the context's 28 digits are left out. A
rate may be absent (`null`), a NaN or an infinity: `_parse_decimal` of the CSV
import accepts whatever `Decimal()` parses. The rates of the other bases may be
left over on the row; the input has all three. `exact` is the unrounded pay,
for the property only. An unknown basis cannot occur: both ways to enter one
validate it.

### PayPeriods and the code

`row` holds the committed rows. A request is its `pc`, the `key` of the instance
it saves and the `copy` it writes. `CheckSave` is `PayPeriod.save` up to
`super().save()`, which is `UpdatePeriod` and, when the UPDATE found no row,
`ReinsertPeriod`, as Django does. `SubmitEdit` is the admin's change form: it may give
any month and status, and as the company is not one of its fields Django skips
the check of `unique_company_period`; the database's constraint remains
(`MonthTaken`).

## Runs

| Run | Question | Instance |
|---|---|---|
| `run_overlap` | Do overlapping runs keep one payslip per employee, and replace what had been committed before? Is each one step of `PayrollLedger` to a reader? | 2 employees, 1 period, 2 workers, 3 runs |
| `run_lines` | Do payslips have the right lines, do deletions leave dangling references, what can enter a closed period? | 1 employee, 2 periods, 2 workers, 1 run, 2 lines or versions of one |
| `run_profiles` | Does a run that pays some, skips some and fails on some commit all or nothing? | 2 employees with all kinds of basis and rate, 1 worker, 2 runs, 1 line |
| `run_live` | Does every request end, when runs wait for each other? | 2 employees, 1 period, 2 workers, 2 runs, fair |
| `slip` | Does a payslip itemise its inputs, add up, and round once? | 4 parts to the cent, rates -2 and 3 parts, each basis, null, NaN, infinity, up to 2 rows of each kind |
| `periods` | One period per month? Is a closed month kept? | 2 periods, 2 months, 2 users, 2 workers |
| `records` | Are links and accounts sound, can an import be resumed, is the trail true, and complete but for crashes and deleted accounts? | 2 employees and 2 users at most, 2 workers, 3 requests, files of 3 lines with each kind of line, 3 addresses of which two are the same but for case |
| `context` | Does each layer isolate tenants on its own, is the trail attributed right, does a restarted server read all rows, does a deactivated company gain requests? | 2 companies, a super-admin, an admin and an employee, 2 rows, 2 keys, 2 different entries, any number of requests |
| `run_closed`, `run_mixed`, `periods_edit`, `records_unlink` | Four promises of comments and messages that the code does not keep (below) | small |

Why the bounds are enough. Each of the hazards takes two requests that overlap
and, for replacement, one that had committed before: two workers and three runs.
Cycles of waiting need two employees' keys. Moving a line or a payslip to the
wrong period needs two periods; the lines a run reads depend on its own
statements and on those of the staff's and the super-admin's pages, so one run does there. A half cent needs four parts to the cent, as
`Grain` even and rates that are and are not multiples of half of it, with both
signs. In `records`, two requests
overlap and a third one follows or was there before; two keys are needed for one account and
two employees, and for one import of two lines; the files have each kind of line
before and after a good one. In `context` what an earlier request leaves behind
is remembered by the ContextVar, the token and the session, so two companies and
any number of requests, which are not bounded, give every combination; two keys
give a server that is behind and one that is not. The entries are
a set, bounded as such. Runs do not stop for lack of requests but because keys, runs and lines are
bounded, so they do not check for deadlock; waiting for each other is what
`run_live` checks. Symmetry is used in safety runs only. The theorems below
hold for every value of the bounds.

Fairness (`FairSpec`): weak fairness, for each worker, of the next statement of
its request or of the abortion of its transaction when it is deadlocked: a server
process keeps executing its request, and PostgreSQL's `deadlock_timeout` always fires.
A deadlocked worker has no next statement, so the two do not compete. No request
has to arrive, and no process has to crash. In `run_live` edits are started and
given up but not saved, which keeps the graph small; which rows and keys runs wait for does not
depend on them.

### What the runs found

* `run_closed`: "Closed periods are immutable" (`payroll/models.py:21`). A run
  that had read the period while it was open commits its payslips after it has
  been closed. What does hold is `SealedAfterClose`: once the requests already
  past the open check have ended, a closed period gains nothing.
* `run_mixed`: "Existing payslips for the period are deleted and recreated, so
  re-running is safe" (`payroll/services.py:32`). Of two overlapping runs that
  list different employees both commit, and the period has payslips of both. What
  does hold: nothing that had been committed before a run began survives it
  (`ReplacesEarlierRuns`), and no employee is paid twice (`OnePayslip`).
* `periods_edit`: "Closed pay periods are immutable." (`payroll/models.py:70`). An
  edit whose check ran before the closing writes another month, and the open
  status, over the closed row. What does hold is `ClosedMonthKept`.
* `records_unlink`: "Append-only record of mutations to tenant-scoped models"
  (`audit/models.py:13`). A portal account that is deleted in the admin site, on
  the company's host, is removed from its employee by an UPDATE for which Django sends no
  signal, and no entry tells of it. What does hold is `ChangesRecorded`, which
  excepts just these changes (`kind # "account"`): any other one on the host lacks
  its entry only until its request has written it or crashed.

Two more comments that the code does not bear out need no run, since one request
shows them. Closing a closed period replaces who closed it, against "Allow closing-time fields to
update once" (`payroll/models.py:63`); and the admin site works on the bare domain, where
`record_audit` leaves its changes out, against "every mutable action in
the system is supposed to happen inside a tenant scope" (`audit/recorders.py:4`).
The models have both (`LoadToClose`, `LoadInAdmin`).

## Proofs

Assumed: what the modules' `ASSUME`s say of their constants (bounds are natural
numbers, profiles are profiles, a cent has at least one part, there is a month,
`Nobody` is not a user). TLC evaluates them in every run.

**PayrollRun.** `OnePayslip` is not inductive: that a commit does not duplicate
a key depends on what the other transactions hold. `IInv` adds: run numbers
are used once, and what is in the table or in a `log` has committed
(`Sequenced`); uncommitted rows belong to a transaction, and its insertions to
its run and period (`InTransaction`); a deleted row is locked by one transaction
and stays in the table until that commits (`Locks`); an uncommitted payslip shares its key
with no row its transaction sees and no other uncommitted one (`Keys`); and,
for `ReplacesEarlierRuns`, a transaction has deleted, or is still to delete, each payslip
of its period made by a run that had committed when it began (`Replacing`). The effects of the actions
are lemmas (a request ends, a run inserts, commits, a row disappears), each
action is reduced to one of them, and `Invariant`, `TypeCorrect`,
`PayslipsUnique` and `EarlierRunsReplaced` follow. `RerunsAlone` says when the promise
that `run_mixed` refutes is kept: as long as no two transactions work on one
period at once (`Alone`), a period has the payslips of one run
(`OneRunPerPeriod`), since nothing comes into it between a run's deletion and its
commit (`Undisturbed`). Nothing in the code sees to `Alone`; it is the
theorem's hypothesis, not an assumption of the model. Two more invariants give
`ReferencesWhole` (`NoDangling`: deletions are refused while a committed row
references theirs, insertions and commits check) and `ClosingSeals`
(`SealedAfterClose`), whose invariant says that a worker that may still add to a
closed period is among those `racing` remembers.

**Whom a run pays, and with which lines.** `PayrollRunLedger_proofs` first fixes the
course of a run (`Course`: one period from its form on, nobody listed or inserted before the
listing, one employee at a time between two turns of the loop). Then:

* `RunsAppearWhole` (`RunIsAtomic`). The invariant is that whoever a run listed
  and can pay has an uncommitted payslip or is still to do (`Accounted`). An
  employee leaves one side exactly when entering the other: by the insertion, as
  an employee whose pay cannot be computed was on neither. At the commit nobody
  is left to do, and payslips come into the table at a commit only.
* `PayslipsItemised` (`LinesExact`). The property speaks of lines that were there when
  the transaction began *and still are*; what makes it inductive is that this
  set, `Remembered`, only shrinks. That needs line numbers to be drawn once and
  before the insertion (`FreshLines`: a line about to be inserted is in no table and no
  log). A run in the loop has, of the kinds it has read, all it remembers
  for the employee (`Reading`), and all payslips, uncommitted or not, satisfy
  the property (`AllItemised`).
* `LedgerImplemented` (`ImplementsLedger`). The initial states agree, and
  each step is one of the ledger or changes nothing of what it sees:
  `CollectPayslips` is `Begin`, `ListEmployees` is `List`, `CommitRun` is `Publish` and
  `AdminDeletePayslip` is `Withdraw`. `Publish` is the step with content:
  whom it pays is `Accounted`, that nobody is paid twice is `OnePayslip` after the
  step, that nothing seen is left is `ReplacesEarlierRuns` after it, and that
  what disappears is of the run's period is `DeletesOwn`. All others stutter because
  no other action writes the payslips, the committed runs or these fields of `log`.

**RequestContext.** None of the properties is inductive: that a query is
answered for the right company depends on what was bound when the request was
received and on what failed requests left. `IInv` says that from `apply` on the
tenant's ContextVar is `request.tenant`, whatever the token holds, and that is
the host's company or none; in the view the session is that of this request,
whatever it was before; the user's ContextVar is the request's user from
`Receive` to the end; the row whose signal is being handled belongs to the bound
company, if one is bound; and no row has a key that is not in the settings. Nothing is
assumed of what an earlier request left behind. `ManagerScopes`, `PoliciesScope`, `TrailAttributed`,
`RestartSuffices` and `InactiveGainNothing` follow, each for all companies,
accounts, roles and keys.

**EmployeeRecords.** Each property of the run `records` is a theorem, for any
files, addresses and bounds. `Typed` adds to `TypeOK` that a request has one
worker (`Serving`), is at a step of its kind (`InCourse`), that an account is
made for an employee with an address only (`Addressed`), and that at most one
change, its request's own, awaits its entry (`Pending`).
`EmployeeRecordsLinks_proofs` adds `LinksInv` (keys are used once, also by the
copies requests hold; an account that is linked exists and is one employee's),
from which `SpecLinksSound`; `AccountsInv` (addresses are stored normalised and
distinct), from which `SpecAccountsDistinct`; and `FreshInv` (before it writes,
a request has changed nothing, and a portal request's copy has no account),
which with `Typed` gives the action property `SpecLinkKept`.
`EmployeeRecordsTrail_proofs` adds `TrueInv` (what awaits its entry has happened,
and a row a request holds is stored or was deleted), from which
`SpecEntriesTrue`; `MissedInv` (a change without its entry is the one its worker
is about to record, or its request is broken and nobody serves it any more; `Told`
leaves out requests on the bare domain and the deletion of an account, as
the property does), from which `SpecChangesRecorded`; and `ImportInv`, for `SpecImportAccounted`: a line stored is a
good line, stored once, with those before it dealt with (`StoredInv`); an
import's outcomes are those of the lines before its own and name what they
created (`ProgressInv`); and so does the report it leaves (`ReportInv`).

**PayslipCalc.** `QuantizeError` (rounding errs by at most half a cent),
`QuantizeExact` (whole cents stay) and `QuantizeMonotone` (a higher rate never
pays less) are the arithmetic. The invariant says that base, totals and `exact`
have differed by at most half a cent since the base pay was computed, because
compensation is whole cents; `RoundsOnce` follows for any number of lines.
`SlipSums` (`SlipAddsUp`) needs the sum of a sequence, a recursive function,
whose values cannot be proved by induction here. It is proved along the
computation instead: `AddUpTo(s, k, v)` says that there is a function obeying the
recursion over `s`, and that whichever obeys it ends at `v`; appending a line
carries this from `v` to `v` plus the line (`LineAddsUp`), as each step of the
computation appends one. The invariant `Itemising` adds that the lines so far,
followed by the rows not reached, are the rows given. An `EXTENDS` of
`SequenceTheorems` provides the laws of concatenation.

**PayPeriods.** The invariant says that a request past the check either races a
closing or carries the closed row's month, and that a request has one key and one
copy. `MonthsUnique` and `ClosingKeepsMonth` follow. `SavesAlone` says when the promise
that `periods_edit` refutes is kept: as long as no two requests are past the check for one
period (again a hypothesis nothing in the code sees to), nobody ever races a
closing (`Unraced`), and `ClosedImmutable` is `ClosedMonthKept`.

Only model-checked: `RequestsEnd`, which is liveness under fairness; neither
fairness nor `ENABLED` can be reasoned about with the installed provers. The
four violations are TLC's counterexamples. Every other property a run checks is
a theorem above, for all values of the constants.

## Not modelled

* Sign-in, password reset and lock-out: Django's and django-axes' state, only
  configured here. The role constraint is one CHECK.
* Self-service pages, printing and the dashboard: they read and change nothing.
* `Money` and log redaction: stateless, about printed forms.
* The other columns that name an account and are `on_delete=SET_NULL`:
  `PayPeriod.closed_by` and the actor of an audit entry. `PayPeriods` and
  `RequestContext` have accounts that stay. `closed_by` is emptied as an employee's account is,
  by a statement nobody records.
* Edits of a company's slug, new companies, and the admin site's edits of a
  user's role or address: a request reads them once, in its first statements.
* Audit entries of payslips: written in the run's transaction, they commit or
  roll back with what they tell of.
* Identity documents: columns of the employee row that no statement decides on.
* `bootstrap_rls_role`, `seed_demo`, the repository's static checks: run by hand
  or on the source, not part of the running system. `seed_demo` calls
  `run_payroll_for_period` on the current month whatever its status; it is for
  an empty development database.
* Encryption itself, and the removal of an old key from the settings.

## Plan

1. *Done*: `PayrollRun`, the core, with its invariants proved; `PayslipCalc`;
   `PayPeriods`.
2. *Done*: `PayrollLedger` and the refinement, checked in `run_overlap`;
   `EmployeeRecords` and its run `records`; `RequestContext` and its run
   `context`; the properties of both proved.
3. *Done*: proofs of `RunIsAtomic`, `LinesExact`, `SlipAddsUp` and of the
   refinement.
4. *Done*: when two of the refuted promises are kept (`RerunsAlone`, `SavesAlone`).
5. Accounts that are deleted in `PayPeriods` and `RequestContext`, and when
   `ClosedGainsNothing` is kept.
