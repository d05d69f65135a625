--------------------------- MODULE EmployeeRecords ---------------------------
(***************************************************************************)
(* The employee records of one company, the portal accounts linked to them *)
(* and the audit trail, under requests that interleave statement by        *)
(* statement: the staff's forms, the CSV import, the creation of portal    *)
(* accounts and the admin site.                                            *)
(*                                                                         *)
(* The views run in autocommit: a row is committed before the post_save    *)
(* signal writes its audit entry.  Model.delete() and the admin site use a *)
(* transaction, so that a row and its entry appear together.               *)
(***************************************************************************)
EXTENDS Naturals, Sequences, FiniteSets

CONSTANTS
    Emails,        \* e-mail addresses
    NoEmail,       \* the blank address
    NewEmails,     \* what the form or a file gives a new employee
    EditEmails,    \* what an edit leaves
    Normalize,     \* address -> normalize_email of it
    Workers,       \* server processes, one request each
    Files,         \* uploaded files: what each line leads to
    MaxEmployees,  \* bound: employee rows ever inserted with a new key
    MaxUsers,      \* bound: user accounts ever created
    MaxRequests    \* bound: requests ever served

LineKinds == {"good", "bad", "fatal"}  \* stored, ValueError, another error

Addresses == Emails \cup {NoEmail}

ASSUME EmailsAssumption ==
    /\ NoEmail \notin Emails
    /\ NewEmails \subseteq Addresses /\ EditEmails \subseteq Addresses
    /\ Normalize \in [Emails -> Emails]
    /\ \A a \in Emails : Normalize[Normalize[a]] = Normalize[a]
ASSUME FilesAssumption == Files \subseteq Seq(LineKinds)
ASSUME BoundsAssumption ==
    MaxEmployees \in Nat /\ MaxUsers \in Nat /\ MaxRequests \in Nat

Requests == 1 .. MaxRequests
Row == [pk : 1 .. MaxEmployees, email : Addresses, user : 0 .. MaxUsers]
User == [pk : 1 .. MaxUsers, email : Emails]

\* A change of an employee row, and the audit entry about it: who made it, at
\* which line of a file (0: not an import), what was done to which row.
Change == [request : Requests, line : Nat,
           action : {"create", "update", "delete"}, pk : 1 .. MaxEmployees]

Outcome == [line : Nat \ {0}, ok : BOOLEAN, pk : 0 .. MaxEmployees]

VARIABLES
    staff,         \* employee rows; user 0 is NULL
    users,         \* user rows
    entries,       \* audit entries about employees
    nextEmployee, nextUser,
    pc,            \* worker -> statement it executes next
    tx,            \* worker -> its request's locals
    nextRequest,
    requests,      \* request -> what it asks for, on which host
    changed,       \* committed changes of employee rows
    broken,        \* requests that crashed or answered 500
    reports        \* reports shown after an import

rows == <<staff, users, entries>>
sequences == <<nextEmployee, nextUser>>
life == <<nextRequest, requests>>
history == <<changed, broken, reports>>
vars == <<rows, sequences, pc, tx, life, history>>

Kinds == {"none", "create", "edit", "delete", "portal", "import", "admin",
          "account"}
Steps == {"idle", "save", "reinsert", "remove", "change", "user", "link",
          "line", "record"}

Locals(request, row, line) ==
    [request |-> request, row |-> row, user |-> 0, line |-> line,
     outcomes |-> {}, change |-> {}]
Idle == Locals(0, {}, 0)

\* Some employees, without an account, may be there already.
Init ==
    /\ nextEmployee \in 1 .. MaxEmployees
    /\ \E email \in [1 .. nextEmployee - 1 -> NewEmails] :
          staff = {[pk |-> k, email |-> email[k], user |-> 0] : k \in DOMAIN email}
    /\ users = {} /\ entries = {}
    /\ nextUser = 1 /\ nextRequest = 1
    /\ pc = [w \in Workers |-> "idle"]
    /\ tx = [w \in Workers |-> Idle]
    /\ requests = [r \in Requests |->
                     [kind |-> "none", tenant |-> FALSE, lines |-> <<>>]]
    /\ changed = {} /\ broken = {} /\ reports = {}

-----------------------------------------------------------------------------
(* The life of a request.                                                  *)

\* Worker w takes the next request; tenant: whether its host is the company's.
Start(w, kind, tenant, lines) ==
    /\ pc[w] = "idle"
    /\ nextRequest <= MaxRequests
    /\ nextRequest' = nextRequest + 1
    /\ requests' = [requests EXCEPT ![nextRequest] =
                      [kind |-> kind, tenant |-> tenant, lines |-> lines]]

Goto(w, step) == pc' = [pc EXCEPT ![w] = step]

End(w) == Goto(w, "idle") /\ tx' = [tx EXCEPT ![w] = Idle]

\* An exception nobody catches, or the end of the process.
Break(w) ==
    /\ End(w)
    /\ broken' = broken \cup {tx[w].request}
    /\ UNCHANGED <<rows, sequences, life, changed, reports>>

\* Worker w has loaded employee x for its next statement.
Load(w, x, kind, tenant, step) ==
    /\ Start(w, kind, tenant, <<>>)
    /\ tx' = [tx EXCEPT ![w] = Locals(nextRequest, {x}, 0)]
    /\ Goto(w, step)
    /\ UNCHANGED <<rows, sequences, history>>

\* Worker w's statement made a change and is committed; its signal is next.
Made(w, t, action, pk) ==
    LET c == [request |-> t.request, line |-> t.line, action |-> action,
              pk |-> pk]
    IN /\ changed' = changed \cup {c}
       /\ tx' = [tx EXCEPT ![w] = [t EXCEPT !.change = {c}]]
       /\ Goto(w, "record")

\* record_audit: nothing is recorded without a tenant.
Recorded(c) == {d \in {c} : requests[d.request].tenant}

-----------------------------------------------------------------------------
(* Rows.                                                                   *)

Stored(pk) == \E x \in staff : x.pk = pk
With(x) == {y \in staff : y.pk # x.pk} \cup {x}

\* The constraints of Employee.user: a foreign key, and one-to-one.  The
\* variant is a plain foreign key.
CanStoreVariant(x) == x.user # 0 => \E u \in users : u.pk = x.user
CanStore(x) ==
    x.user # 0 => /\ \E u \in users : u.pk = x.user
                  /\ \A y \in staff : y.pk # x.pk => y.user # x.user

\* The address create_user stores; the variant stores it as typed.
AddressVariant(a) == a
Address(a) == Normalize[a]
Taken(a) == \E u \in users : u.email = Address(a)

-----------------------------------------------------------------------------
(* The staff's forms.                                                      *)

\* A new row, from the form or from line t.line of a file.
Insert(w, t) ==
    /\ nextEmployee <= MaxEmployees
    /\ \E a \in NewEmails :
          staff' = staff \cup {[pk |-> nextEmployee, email |-> a, user |-> 0]}
    /\ nextEmployee' = nextEmployee + 1
    /\ Made(w, t, "create", nextEmployee)
    /\ UNCHANGED <<users, entries, nextUser, broken, reports>>

CreateEmployee(w) ==
    /\ Start(w, "create", TRUE, <<>>)
    /\ Insert(w, Locals(nextRequest, {}, 0))

LoadToEdit(w, x) == Load(w, x, "edit", TRUE, "save")

\* The form's columns are the request's, all others those of the loaded copy.
Edited(w) == {[x EXCEPT !.email = a] : x \in tx[w].row, a \in EditEmails}

\* UPDATE of all columns.
SaveEdit(w) ==
    /\ pc[w] = "save"
    /\ \E x \in Edited(w) : /\ Stored(x.pk)
                            /\ CanStore(x)
                            /\ staff' = With(x)
                            /\ Made(w, tx[w], "update", x.pk)
    /\ UNCHANGED <<users, entries, sequences, life, broken, reports>>

\* The UPDATE matched no row: save() goes on to INSERT ...
MissRow(w) ==
    /\ pc[w] = "save"
    /\ \A x \in tx[w].row : ~Stored(x.pk)
    /\ Goto(w, "reinsert")
    /\ UNCHANGED <<rows, sequences, tx, life, history>>

\* ... the row again, with the same key.
Reinsert(w) ==
    /\ pc[w] = "reinsert"
    /\ \E x \in Edited(w) : /\ ~Stored(x.pk)
                            /\ CanStore(x)
                            /\ staff' = With(x)
                            /\ Made(w, tx[w], "create", x.pk)
    /\ UNCHANGED <<users, entries, sequences, life, broken, reports>>

LoadToDelete(w, x) == Load(w, x, "delete", TRUE, "remove")

\* delete(), one transaction with the post_delete signal, which fires whether
\* or not the row is still there.
DeleteEmployee(w) ==
    /\ pc[w] \in {"remove", "change"}
    /\ \E x \in tx[w].row :
          LET c == [request |-> tx[w].request, line |-> 0,
                    action |-> "delete", pk |-> x.pk]
          IN /\ staff' = {y \in staff : y.pk # x.pk}
             /\ entries' = entries \cup Recorded(c)
             /\ changed' = changed \cup {d \in {c} : Stored(x.pk)}
    /\ End(w)
    /\ UNCHANGED <<users, sequences, life, broken, reports>>

\* The form is only asked for or is not valid, or the admin site lists the
\* payroll rows that PROTECT the employee.
Decline(w) ==
    /\ pc[w] \in {"save", "remove", "change"}
    /\ End(w)
    /\ UNCHANGED <<rows, sequences, life, history>>

-----------------------------------------------------------------------------
(* Portal accounts.                                                        *)

\* An employee with a work e-mail and no account yet; the variant does not
\* look for an account.
LoadForPortalVariant(w, x) ==
    x.email # NoEmail /\ Load(w, x, "portal", TRUE, "user")
LoadForPortal(w, x) ==
    /\ x.user = 0
    /\ x.email # NoEmail
    /\ Load(w, x, "portal", TRUE, "user")

CreateUser(w) ==
    /\ pc[w] = "user"
    /\ nextUser <= MaxUsers
    /\ nextUser' = nextUser + 1
    /\ \E x \in tx[w].row :
          /\ ~Taken(x.email)
          /\ users' = users \cup {[pk |-> nextUser, email |-> Address(x.email)]}
    /\ tx' = [tx EXCEPT ![w].user = nextUser]
    /\ Goto(w, "link")
    /\ UNCHANGED <<staff, entries, nextEmployee, life, history>>

\* except IntegrityError: a message.
UserExists(w) ==
    /\ pc[w] = "user"
    /\ \A x \in tx[w].row : Taken(x.email)
    /\ End(w)
    /\ UNCHANGED <<rows, sequences, life, history>>

\* The rows the link is written to.
Linked(w) == {[y EXCEPT !.user = tx[w].user] :
                y \in {z \in staff : \E x \in tx[w].row : x.pk = z.pk}}

\* save(update_fields=["user", "updated_at"]); the variant does not notice that
\* the row is gone.
LinkUserVariant(w) ==
    /\ pc[w] = "link"
    /\ \E x \in tx[w].row :
          /\ staff' = {y \in staff : y.pk # x.pk} \cup Linked(w)
          /\ tx' = [tx EXCEPT ![w].change =
                     {[request |-> tx[w].request, line |-> 0,
                       action |-> "update", pk |-> x.pk]}]
          /\ changed' = changed \cup {c \in tx'[w].change : Stored(x.pk)}
    /\ Goto(w, "record")
    /\ UNCHANGED <<users, entries, sequences, life, broken, reports>>
LinkUser(w) ==
    /\ pc[w] = "link"
    /\ \E x \in Linked(w) : /\ CanStore(x)
                            /\ staff' = With(x)
                            /\ Made(w, tx[w], "update", x.pk)
    /\ UNCHANGED <<users, entries, sequences, life, broken, reports>>

\* A constraint refuses the statement, update_fields matched no row, or payroll
\* rows PROTECT the employee from deletion.
StatementFails(w) ==
    /\ \/ pc[w] = "save" /\ \E x \in Edited(w) : Stored(x.pk) /\ ~CanStore(x)
       \/ pc[w] = "reinsert" /\ \E x \in Edited(w) : Stored(x.pk) \/ ~CanStore(x)
       \/ pc[w] = "link" /\ \A x \in Linked(w) : ~CanStore(x)
       \/ pc[w] \in {"remove", "change"} /\ \E x \in tx[w].row : Stored(x.pk)
    /\ Break(w)

-----------------------------------------------------------------------------
(* The CSV import.                                                         *)

BeginImport(w, f) ==
    /\ Start(w, "import", TRUE, f)
    /\ tx' = [tx EXCEPT ![w] = Locals(nextRequest, {}, 2)]
    /\ Goto(w, "line")
    /\ UNCHANGED <<rows, sequences, history>>

\* A required column is missing: one error and nothing else.  The variant
\* numbers it 0.
RefuseFileVariant(w) ==
    /\ Start(w, "import", TRUE, <<>>)
    /\ reports' = reports \cup
         {[request |-> nextRequest,
           outcomes |-> {[line |-> 0, ok |-> FALSE, pk |-> 0]}]}
    /\ UNCHANGED <<rows, sequences, pc, tx, changed, broken>>
RefuseFile(w) ==
    /\ Start(w, "import", TRUE, <<>>)
    /\ reports' = reports \cup
         {[request |-> nextRequest,
           outcomes |-> {[line |-> 1, ok |-> FALSE, pk |-> 0]}]}
    /\ UNCHANGED <<rows, sequences, pc, tx, changed, broken>>

\* What becomes of the line worker w is at; the first line holds the headers.
LinesOf(w) == requests[tx[w].request].lines
AtLine(w, kind) ==
    /\ pc[w] = "line"
    /\ tx[w].line <= Len(LinesOf(w)) + 1
    /\ LinesOf(w)[tx[w].line - 1] = kind

\* The request's locals after an outcome for the current line.
Reported(w, ok, pk) ==
    [tx[w] EXCEPT !.line = @ + 1, !.change = {},
                  !.outcomes = @ \cup {[line |-> tx[w].line, ok |-> ok, pk |-> pk]}]

\* Employee.objects.create; the variant is a bulk_create, without signals.
StoreLineVariant(w) ==
    /\ AtLine(w, "good")
    /\ nextEmployee <= MaxEmployees
    /\ \E a \in NewEmails :
          staff' = staff \cup {[pk |-> nextEmployee, email |-> a, user |-> 0]}
    /\ nextEmployee' = nextEmployee + 1
    /\ changed' = changed \cup
         {[request |-> tx[w].request, line |-> tx[w].line, action |-> "create",
           pk |-> nextEmployee]}
    /\ tx' = [tx EXCEPT ![w] = Reported(w, TRUE, nextEmployee)]
    /\ UNCHANGED <<pc, users, entries, nextUser, life, broken, reports>>
StoreLine(w) == AtLine(w, "good") /\ Insert(w, tx[w]) /\ UNCHANGED life

\* except ValueError.
RefuseLine(w) ==
    /\ AtLine(w, "bad")
    /\ tx' = [tx EXCEPT ![w] = Reported(w, FALSE, 0)]
    /\ UNCHANGED <<rows, sequences, pc, life, history>>

\* A short line (AttributeError) or a value its column cannot hold (DataError)
\* ends the request; the variant makes an outcome of every exception.
FailLineVariant(w) ==
    /\ AtLine(w, "fatal")
    /\ tx' = [tx EXCEPT ![w] = Reported(w, FALSE, 0)]
    /\ UNCHANGED <<rows, sequences, pc, life, history>>
FailLine(w) == AtLine(w, "fatal") /\ Break(w)

\* The report is rendered.
FinishImport(w) ==
    /\ pc[w] = "line"
    /\ tx[w].line > Len(LinesOf(w)) + 1
    /\ reports' = reports \cup
         {[request |-> tx[w].request, outcomes |-> tx[w].outcomes]}
    /\ End(w)
    /\ UNCHANGED <<rows, sequences, life, changed, broken>>

-----------------------------------------------------------------------------
(* The audit entry of a saved row, and the end of the request or line.     *)

Record(w) ==
    /\ pc[w] = "record"
    /\ \E c \in tx[w].change :
          /\ entries' = entries \cup Recorded(c)
          /\ IF requests[c.request].kind = "import"
             THEN /\ tx' = [tx EXCEPT ![w] = Reported(w, TRUE, c.pk)]
                  /\ Goto(w, "line")
             ELSE End(w)
    /\ UNCHANGED <<staff, users, sequences, life, history>>

-----------------------------------------------------------------------------
(* The admin site: each request one transaction, on the company's host or  *)
(* on the bare domain.                                                     *)

LoadInAdmin(w, x, tenant) == Load(w, x, "admin", tenant, "change")

\* The change form sets every column, the portal account included.
AdminSave(w) ==
    /\ pc[w] = "change"
    /\ \E x \in tx[w].row, a \in EditEmails, u \in 0 .. MaxUsers :
          LET y == [pk |-> x.pk, email |-> a, user |-> u]
              c == [request |-> tx[w].request, line |-> 0, pk |-> x.pk,
                    action |-> IF Stored(x.pk) THEN "update" ELSE "create"]
          IN /\ CanStore(y)
             /\ staff' = With(y)
             /\ entries' = entries \cup Recorded(c)
             /\ changed' = changed \cup {c}
    /\ End(w)
    /\ UNCHANGED <<users, sequences, life, broken, reports>>

\* A new account changes no employee.
AdminCreateUser(a) ==
    /\ nextUser <= MaxUsers
    /\ nextUser' = nextUser + 1
    /\ ~Taken(a)
    /\ users' = users \cup {[pk |-> nextUser, email |-> Address(a)]}
    /\ UNCHANGED <<staff, entries, nextEmployee, pc, tx, life, history>>

\* on_delete=SET_NULL: the deletion of an account updates the employee's row
\* with a statement of its own, for which no signal is sent.
AdminDeleteUser(w, u, tenant) ==
    /\ Start(w, "account", tenant, <<>>)
    /\ users' = users \ {u}
    /\ staff' = {IF x.user = u.pk THEN [x EXCEPT !.user = 0] ELSE x : x \in staff}
    /\ changed' = changed \cup
         {[request |-> nextRequest, line |-> 0, action |-> "update", pk |-> x.pk] :
            x \in {y \in staff : y.user = u.pk}}
    /\ UNCHANGED <<entries, sequences, pc, tx, broken, reports>>

Crash(w) == pc[w] # "idle" /\ Break(w)

-----------------------------------------------------------------------------
Begin(w) ==
    \/ CreateEmployee(w)
    \/ \E x \in staff : \/ LoadToEdit(w, x) \/ LoadToDelete(w, x)
                        \/ LoadForPortal(w, x)
                        \/ \E b \in BOOLEAN : LoadInAdmin(w, x, b)
    \/ \E f \in Files : BeginImport(w, f)
    \/ RefuseFile(w)
    \/ \E u \in users, b \in BOOLEAN : AdminDeleteUser(w, u, b)

Proceed(w) ==
    \/ SaveEdit(w) \/ MissRow(w) \/ Reinsert(w) \/ StatementFails(w)
    \/ DeleteEmployee(w) \/ Decline(w)
    \/ CreateUser(w) \/ UserExists(w) \/ LinkUser(w)
    \/ StoreLine(w) \/ RefuseLine(w) \/ FailLine(w) \/ FinishImport(w)
    \/ Record(w)
    \/ AdminSave(w)

Next ==
    \/ \E w \in Workers : Begin(w) \/ Proceed(w) \/ Crash(w)
    \/ \E a \in Emails : AdminCreateUser(a)

Spec == Init /\ [][Next]_vars

-----------------------------------------------------------------------------
(* Properties.                                                             *)

TypeOK ==
    /\ staff \subseteq Row /\ users \subseteq User /\ entries \subseteq Change
    /\ nextEmployee \in 1 .. MaxEmployees + 1
    /\ nextUser \in 1 .. MaxUsers + 1
    /\ nextRequest \in 1 .. MaxRequests + 1
    /\ pc \in [Workers -> Steps]
    /\ tx \in [Workers -> [request : 0 .. MaxRequests, row : SUBSET Row,
                           user : 0 .. MaxUsers, line : Nat,
                           outcomes : SUBSET Outcome, change : SUBSET Change]]
    /\ requests \in [Requests -> [kind : Kinds, tenant : BOOLEAN,
                                  lines : Files \cup {<<>>}]]
    /\ changed \subseteq Change
    /\ broken \subseteq Requests
    /\ reports \subseteq [request : Requests, outcomes : SUBSET Outcome]

\* However portal requests, stale forms and the admin site overlap, a row is
\* one row of its key, its account exists and no other employee has it.
LinksSound ==
    /\ \A x, y \in staff : x.pk = y.pk => x = y
    /\ \A x \in staff : x.user # 0 =>
          /\ \E u \in users : u.pk = x.user
          /\ \A y \in staff : y.user = x.user => y = x

\* Addresses that differ only as normalize_email ignores never have two
\* accounts, whichever of the portal and the admin site made them.
AccountsDistinct ==
    \A u, v \in users : Normalize[u.email] = Normalize[v.email] => u = v

\* Once nobody holds a copy of the employee without the link, only the admin
\* site removes a portal account from an employee: the staff's forms save the
\* whole row, and the portal view never replaces an account.
LinkKept ==
    [][\A x \in staff :
          /\ x.user # 0
          /\ \A w \in Workers : \A y \in tx[w].row :
                y.pk = x.pk => y.user = x.user
          => \/ \E y \in staff' : y.pk = x.pk /\ y.user = x.user
             \/ \A y \in staff' : y.pk # x.pk
             \/ \A u \in users' : u.pk # x.user
             \/ \E c \in changed' \ changed : /\ c.pk = x.pk
                                              /\ requests[c.request].kind = "admin"
      ]_vars

\* What an import stored is the good lines up to where it got, each once, and
\* it got past no line that raised something other than ValueError: a retry
\* knows which lines to leave out.  A report that is shown names exactly the
\* employees the file created and has an outcome for each line.
ImportAccounted ==
    LET made(r) == {c \in changed : c.request = r /\ c.line > 0}
    IN /\ \A r \in Requests : \A c \in made(r) :
             /\ \A d \in made(r) : d.line = c.line => d = c
             /\ requests[r].lines[c.line - 1] = "good"
             /\ \A i \in 1 .. c.line - 2 :
                   /\ requests[r].lines[i] # "fatal"
                   /\ requests[r].lines[i] = "good" =>
                         \E d \in made(r) : d.line = i + 1
       /\ \A p \in reports :
             /\ {<<o.line, o.pk>> : o \in {q \in p.outcomes : q.ok}}
                  = {<<c.line, c.pk>> : c \in made(p.request)}
             /\ \A i \in DOMAIN requests[p.request].lines :
                   \E o \in p.outcomes : o.line = i + 1

\* The trail never tells of a change that did not happen: a creation or an
\* update was committed by the request the entry names, and a deletion may be
\* recorded twice but only of a row that was deleted.
EntriesTrue ==
    \A n \in entries :
       \/ n \in changed
       \/ /\ n.action = "delete"
          /\ \E c \in changed : c.action = "delete" /\ c.pk = n.pk

\* A change made on the company's host lacks its entry only until its request
\* has recorded it, or for good if that request crashed just then: one change
\* at most, never a deletion nor a change of the admin site's forms.  The one
\* exception is an account removed from an employee because it was deleted.
ChangesRecorded ==
    \A r \in Requests :
       LET missing == {c \in changed \ entries : c.request = r}
       IN missing # {} /\ requests[r].tenant /\ requests[r].kind # "account" =>
             /\ Cardinality(missing) = 1
             /\ requests[r].kind # "admin"
             /\ \A c \in missing : c.action # "delete"
             /\ r \in broken \/ \E w \in Workers : missing = tx[w].change

\* "Append-only record of mutations to tenant-scoped models." (AuditLogEntry):
\* on the company's host a change of an employee that no crash interrupted has
\* its entry once its request is over.
MutationsRecorded ==
    \A c \in changed \ entries :
       \/ ~requests[c.request].tenant
       \/ c.request \in broken
       \/ \E w \in Workers : c \in tx[w].change
=============================================================================
