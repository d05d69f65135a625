-------------------- MODULE EmployeeRecordsLinks_proofs --------------------
(***************************************************************************)
(* The employees' portal accounts: a row is one row of its key, the        *)
(* account it is linked to exists and is nobody else's, and the accounts   *)
(* have distinct addresses.                                                *)
(***************************************************************************)
EXTENDS EmployeeRecords_proofs

\* Keys come from sequences, and a request only holds rows it has loaded.
Keyed ==
    /\ \A x, y \in staff : x.pk = y.pk => x = y
    /\ \A x \in staff : x.pk < nextEmployee
    /\ \A w \in Workers : \A x \in tx[w].row : x.pk < nextEmployee
    /\ \A u, v \in users : u.pk = v.pk => u = v
    /\ \A u \in users : u.pk < nextUser

Constrained ==
    \A x \in staff : x.user # 0 =>
       /\ \E u \in users : u.pk = x.user
       /\ \A y \in staff : y.user = x.user => y = x

LinksInv == Keyed /\ Constrained

Loaded == \A v \in Workers : tx'[v].row \subseteq tx[v].row \cup staff

-----------------------------------------------------------------------------
(* What happens to the rows.                                               *)

LEMMA SameLinks ==
    ASSUME Typed, LinksInv, Loaded,
           UNCHANGED <<staff, users, nextEmployee, nextUser>>
    PROVE  LinksInv'
<1>1. Keyed'
  BY DEF LinksInv, Keyed, Loaded
<1>2. Constrained'
  BY DEF LinksInv, Constrained
<1> QED BY <1>1, <1>2 DEF LinksInv

LEMMA StoreLinks ==
    ASSUME Typed, LinksInv, Loaded, NEW x \in Row, x.pk < nextEmployee, CanStore(x),
           staff' = With(x), UNCHANGED <<users, nextEmployee, nextUser>>
    PROVE  LinksInv'
<1>1. Keyed'
  BY DEF LinksInv, Keyed, Loaded, With
<1>2. ASSUME NEW y \in staff', y.user # 0
      PROVE  /\ \E u \in users' : u.pk = y.user
             /\ \A z \in staff' : z.user = y.user => z = y
  BY <1>2 DEF LinksInv, Constrained, With, CanStore
<1> QED BY <1>1, <1>2 DEF LinksInv, Constrained

LEMMA InsertLinks ==
    ASSUME Typed, LinksInv, Loaded, Inserted
    PROVE  LinksInv'
<1>1. PICK a \in NewEmails :
         staff' = staff \cup {[pk |-> nextEmployee, email |-> a, user |-> 0]}
  BY DEF Inserted
<1> DEFINE n == [pk |-> nextEmployee, email |-> a, user |-> 0]
<1>2. n.pk = nextEmployee /\ n.user = 0
  OBVIOUS
<1> HIDE DEF n
<1>3. /\ staff' = staff \cup {n} /\ users' = users /\ nextUser' = nextUser
      /\ nextEmployee \in Nat /\ nextEmployee' = nextEmployee + 1
  BY <1>1 DEF Inserted, n
<1>4. /\ \A x \in staff : x.pk \in Nat
      /\ \A v \in Workers : \A x \in tx[v].row : x.pk \in Nat
  BY DEF Typed, TypeOK, Row
<1>5. Keyed'
  BY <1>2, <1>3, <1>4 DEF LinksInv, Keyed, Loaded
<1>6. Constrained'
  BY <1>2, <1>3 DEF LinksInv, Constrained
<1> QED BY <1>5, <1>6 DEF LinksInv

LEMMA RemoveLinks ==
    ASSUME Typed, LinksInv, Loaded, NEW pk, staff' = {y \in staff : y.pk # pk},
           UNCHANGED <<users, nextEmployee, nextUser>>
    PROVE  LinksInv'
<1>1. Keyed'
  BY DEF LinksInv, Keyed, Loaded
<1>2. Constrained'
  BY DEF LinksInv, Constrained
<1> QED BY <1>1, <1>2 DEF LinksInv

LEMMA NewUserLinks ==
    ASSUME Typed, LinksInv, Loaded, NEW a, nextUser' = nextUser + 1,
           users' = users \cup {[pk |-> nextUser, email |-> a]},
           UNCHANGED <<staff, nextEmployee>>
    PROVE  LinksInv'
<1> DEFINE n == [pk |-> nextUser, email |-> a]
<1>1. n.pk = nextUser /\ users' = users \cup {n}
  OBVIOUS
<1> HIDE DEF n
<1>2. nextUser \in Nat /\ \A u \in users : u.pk \in Nat
  BY DEF Typed, TypeOK, User
<1>3. Keyed'
  BY <1>1, <1>2 DEF LinksInv, Keyed, Loaded
<1>4. Constrained'
  BY <1>1 DEF LinksInv, Constrained
<1> QED BY <1>3, <1>4 DEF LinksInv

LEMMA DeleteUserLinks ==
    ASSUME Typed, LinksInv, NEW w \in Workers, NEW u \in users, NEW b \in BOOLEAN,
           AdminDeleteUser(w, u, b)
    PROVE  LinksInv'
<1> DEFINE Nulled(x) == IF x.user = u.pk THEN [x EXCEPT !.user = 0] ELSE x
<1>1. ASSUME NEW x \in staff
      PROVE  /\ Nulled(x).pk = x.pk
             /\ Nulled(x).user = IF x.user = u.pk THEN 0 ELSE x.user
             /\ Nulled(x).user # 0 => Nulled(x) = x
  <2>1. x \in Row
    BY DEF Typed, TypeOK
  <2> QED BY <2>1 DEF Row
<1>2. /\ staff' = {Nulled(x) : x \in staff} /\ users' = users \ {u}
      /\ UNCHANGED <<nextEmployee, nextUser, tx>>
  BY DEF AdminDeleteUser, sequences
<1> HIDE DEF Nulled
<1>3. Keyed'
  <2>1. ASSUME NEW x \in staff', NEW y \in staff', x.pk = y.pk PROVE x = y
    <3>1. PICK p \in staff, q \in staff : x = Nulled(p) /\ y = Nulled(q)
      BY <1>2
    <3> QED BY <1>1, <2>1, <3>1 DEF LinksInv, Keyed
  <2>2. ASSUME NEW x \in staff' PROVE x.pk < nextEmployee'
    BY <1>1, <1>2 DEF LinksInv, Keyed
  <2> QED BY <1>2, <2>1, <2>2 DEF LinksInv, Keyed
<1>4. ASSUME NEW x \in staff', x.user # 0
      PROVE  /\ \E v \in users' : v.pk = x.user
             /\ \A y \in staff' : y.user = x.user => y = x
  <2>1. PICK p \in staff : x = Nulled(p)
    BY <1>2
  <2>2. x = p /\ x.user # u.pk
    BY <1>1, <1>4, <2>1
  <2>3. \E v \in users' : v.pk = x.user
    BY <1>2, <1>4, <2>2 DEF LinksInv, Constrained
  <2>4. ASSUME NEW y \in staff', y.user = x.user PROVE y = x
    <3>1. PICK q \in staff : y = Nulled(q)
      BY <1>2
    <3>2. y = q
      BY <1>1, <1>4, <2>4, <3>1
    <3> QED BY <1>4, <2>2, <2>4, <3>2 DEF LinksInv, Constrained
  <2> QED BY <2>3, <2>4
<1> QED BY <1>3, <1>4 DEF LinksInv, Constrained

-----------------------------------------------------------------------------
(* Links.                                                                  *)

LEMMA InitLinks == Init => LinksInv
<1> SUFFICES ASSUME Init PROVE LinksInv
  OBVIOUS
<1>1. PICK email \in [1 .. nextEmployee - 1 -> NewEmails] :
         staff = {[pk |-> k, email |-> email[k], user |-> 0] : k \in DOMAIN email}
  BY DEF Init
<1>2. nextEmployee \in Nat /\ users = {}
  BY BoundsAssumption DEF Init
<1>3. \A w \in Workers : tx[w].row = {}
  BY DEF Init, Idle, Locals
<1>4. ASSUME NEW x \in staff
      PROVE  /\ x.pk \in 1 .. nextEmployee - 1 /\ x.user = 0
             /\ x = [pk |-> x.pk, email |-> email[x.pk], user |-> 0]
  BY <1>1
<1> QED BY <1>2, <1>3, <1>4 DEF LinksInv, Keyed, Constrained

\* The rows a request holds after a step.
LEMMA LoadedWhen ==
    ASSUME NEW w \in Workers, Only(w), tx'[w].row \subseteq tx[w].row \cup staff
    PROVE  Loaded
  BY DEF Only, Loaded

LEMMA IdleRow == Idle.row = {}
  BY DEF Idle, Locals

LEMMA MadeRow ==
    ASSUME Typed, NEW w \in Workers, NEW action, NEW pk, MadeBy(w, action, pk)
    PROVE  tx'[w].row = tx[w].row /\ Loaded
<1>1. tx[w] \in Local
  BY DEF Typed, TypeOK, Local
<1>2. tx'[w].row = tx[w].row
  BY <1>1 DEF MadeBy, Local
<1> QED BY <1>2, LoadedWhen DEF MadeBy

LEMMA BeginLinks ==
    ASSUME Typed, LinksInv, NEW w \in Workers, Begin(w)
    PROVE  LinksInv'
<1>1. CASE CreateEmployee(w)
  <2>1. Only(w) /\ Inserted
        /\ \E c : tx'[w] = [Locals(nextRequest, {}, 0) EXCEPT !.change = {c}]
    BY <1>1, CreateEffect DEF Began
  <2>2. tx'[w].row = {}
    BY <2>1 DEF Locals
  <2> QED BY <2>1, <2>2, LoadedWhen, InsertLinks
<1>2. ASSUME NEW x \in staff,
             \/ LoadToEdit(w, x) \/ LoadToDelete(w, x) \/ LoadForPortal(w, x)
             \/ \E b \in BOOLEAN : LoadInAdmin(w, x, b)
      PROVE  LinksInv'
  <2>1. /\ Only(w) /\ tx'[w] = Locals(nextRequest, {x}, 0)
        /\ UNCHANGED <<rows, sequences>>
    BY <1>2, LoadEffect DEF Began
  <2>2. tx'[w].row = {x}
    BY <2>1 DEF Locals
  <2> QED BY <2>1, <2>2, LoadedWhen, SameLinks DEF rows, sequences
<1>3. ASSUME NEW f \in Files, BeginImport(w, f) PROVE LinksInv'
  <2>1. /\ Only(w) /\ tx'[w] = Locals(nextRequest, {}, 2)
        /\ UNCHANGED <<rows, sequences>>
    BY <1>3, BeginImportEffect DEF Began
  <2>2. tx'[w].row = {}
    BY <2>1 DEF Locals
  <2> QED BY <2>1, <2>2, LoadedWhen, SameLinks DEF rows, sequences
<1>4. CASE RefuseFile(w)
  BY <1>4, RefuseFileEffect, SameLinks DEF rows, sequences, Loaded
<1> QED BY <1>1, <1>2, <1>3, <1>4, DeleteUserLinks DEF Begin

LEMMA ProceedLinks ==
    ASSUME Typed, LinksInv, NEW w \in Workers, Proceed(w) \/ Crash(w)
    PROVE  LinksInv'
<1>1. CASE SaveEdit(w) \/ Reinsert(w)
  <2>1. PICK x \in Edited(w), action \in {"create", "update"} :
           /\ MadeBy(w, action, x.pk) /\ x \in Row /\ CanStore(x) /\ staff' = With(x)
           /\ UNCHANGED <<users, nextEmployee, nextUser>>
    BY <1>1, SaveEffect DEF sequences
  <2>2. x.pk < nextEmployee
    <3>1. PICK y \in tx[w].row, a \in EditEmails : x = [y EXCEPT !.email = a]
      BY DEF Edited
    <3>2. y \in Row
      BY DEF Typed, TypeOK
    <3>3. x.pk = y.pk
      BY <3>1, <3>2 DEF Row
    <3> QED BY <3>3 DEF LinksInv, Keyed
  <2> QED BY <2>1, <2>2, MadeRow, StoreLinks
<1>2. CASE LinkUser(w)
  <2>1. PICK x \in Linked(w) :
           /\ MadeBy(w, "update", x.pk) /\ x \in Row /\ CanStore(x) /\ staff' = With(x)
           /\ Stored(x.pk) /\ UNCHANGED <<users, nextEmployee, nextUser>>
    BY <1>2, LinkEffect DEF sequences
  <2>2. x.pk < nextEmployee
    BY <2>1 DEF LinksInv, Keyed, Stored
  <2> QED BY <2>1, <2>2, MadeRow, StoreLinks
<1>3. CASE AdminSave(w)
  <2>1. PICK x \in tx[w].row, y \in Row :
           /\ Only(w) /\ tx'[w] = Idle /\ y.pk = x.pk /\ CanStore(y)
           /\ staff' = With(y) /\ UNCHANGED <<users, nextEmployee, nextUser>>
    BY <1>3, AdminSaveEffect DEF sequences
  <2>2. y.pk < nextEmployee
    BY <2>1 DEF LinksInv, Keyed
  <2> QED BY <2>1, <2>2, IdleRow, LoadedWhen, StoreLinks
<1>4. CASE DeleteEmployee(w)
  <2>1. PICK x \in tx[w].row :
           /\ Only(w) /\ tx'[w] = Idle /\ staff' = {y \in staff : y.pk # x.pk}
           /\ UNCHANGED <<users, nextEmployee, nextUser>>
    BY <1>4, DeleteEffect DEF sequences
  <2> QED BY <2>1, IdleRow, LoadedWhen, RemoveLinks
<1>5. CASE StoreLine(w)
  BY <1>5, StoreLineEffect, MadeRow, InsertLinks
<1>6. CASE CreateUser(w)
  <2>1. PICK x \in tx[w].row :
           /\ Only(w) /\ tx'[w] = [tx[w] EXCEPT !.user = nextUser]
           /\ nextUser' = nextUser + 1
           /\ users' = users \cup {[pk |-> nextUser, email |-> Address(x.email)]}
           /\ UNCHANGED <<staff, nextEmployee>>
    BY <1>6, CreateUserEffect
  <2>2. tx'[w].row = tx[w].row
    BY <2>1 DEF Typed, TypeOK
  <2> QED BY <2>1, <2>2, LoadedWhen, NewUserLinks
<1>7. CASE MissRow(w)
  BY <1>7, MissRowEffect, SameLinks DEF rows, sequences, Loaded
<1>8. CASE RefuseLine(w)
  <2>1. Only(w) /\ tx'[w] = Reported(w, FALSE, 0) /\ tx[w].line # 0
        /\ pc[w] # "idle" /\ UNCHANGED <<staff, users, nextEmployee, nextUser>>
    BY <1>8, RefuseLineEffect DEF RefuseLine, AtLine, rows, sequences
  <2>2. tx'[w].row = tx[w].row
    <3>1. 0 \in 0 .. MaxEmployees
      BY BoundsAssumption
    <3> QED BY <2>1, <3>1, ReportedLocal
  <2> QED BY <2>1, <2>2, LoadedWhen, SameLinks
<1>9. CASE Record(w)
  <2>1. PICK c \in Change :
           /\ Only(w) /\ pc[w] = "record"
           /\ \/ tx'[w] = Idle
              \/ tx'[w] = Reported(w, TRUE, c.pk) /\ tx[w].line # 0
           /\ UNCHANGED <<staff, users, nextEmployee, nextUser>>
    BY <1>9, RecordEffect DEF sequences
  <2>2. tx'[w].row \subseteq tx[w].row
    <3>1. c.pk \in 0 .. MaxEmployees
      BY DEF Change
    <3> QED BY <2>1, <3>1, IdleRow, ReportedLocal
  <2> QED BY <2>1, <2>2, LoadedWhen, SameLinks
<1>10. CASE \/ StatementFails(w) \/ Decline(w) \/ UserExists(w) \/ FailLine(w)
            \/ FinishImport(w) \/ Crash(w)
  <2>1. Only(w) /\ tx'[w] = Idle /\ UNCHANGED <<staff, users, nextEmployee, nextUser>>
    BY <1>10, QuitsEffect
  <2> QED BY <2>1, IdleRow, LoadedWhen, SameLinks
<1> QED
  BY <1>1, <1>2, <1>3, <1>4, <1>5, <1>6, <1>7, <1>8, <1>9, <1>10 DEF Proceed

LEMMA NextLinks == Typed /\ LinksInv /\ [Next]_vars => LinksInv'
<1> SUFFICES ASSUME Typed, LinksInv, [Next]_vars PROVE LinksInv'
  OBVIOUS
<1>1. CASE UNCHANGED vars
  BY <1>1, SameLinks DEF vars, rows, sequences, Loaded
<1>2. ASSUME NEW a \in Emails, AdminCreateUser(a) PROVE LinksInv'
  BY <1>2, NewUserLinks DEF AdminCreateUser, Loaded
<1> QED BY <1>1, <1>2, BeginLinks, ProceedLinks DEF Next

\* However portal requests, stale forms and the admin site overlap, an employee
\* row is one row of its key and its account is there and nobody else's.
THEOREM SpecLinksSound == Spec => []LinksSound
<1>1. LinksInv => LinksSound
  BY DEF LinksInv, Keyed, Constrained, LinksSound
<1> QED BY InitTyped, InitLinks, NextTyped, NextLinks, <1>1, PTL DEF Spec

-----------------------------------------------------------------------------
(* Addresses.                                                              *)

\* Addresses are stored normalised, and the column is unique.
AccountsInv ==
    /\ \A u \in users : Normalize[u.email] = u.email
    /\ \A u, v \in users : u.email = v.email => u = v

LEMMA NewUserAccounts ==
    ASSUME AccountsInv, NEW a \in Emails, ~Taken(a), NEW pk,
           users' = users \cup {[pk |-> pk, email |-> Address(a)]}
    PROVE  AccountsInv'
<1> DEFINE n == [pk |-> pk, email |-> Address(a)]
<1>1. n.email = Address(a) /\ Normalize[n.email] = n.email
  BY EmailsAssumption DEF Address
<1>2. users' = users \cup {n} /\ \A u \in users : u.email # n.email
  BY DEF Taken
<1> HIDE DEF n
<1> QED BY <1>1, <1>2 DEF AccountsInv

LEMMA NextAccounts == Typed /\ AccountsInv /\ [Next]_vars => AccountsInv'
<1> SUFFICES ASSUME Typed, AccountsInv, [Next]_vars PROVE AccountsInv'
  OBVIOUS
<1>1. CASE users' \subseteq users
  BY <1>1 DEF AccountsInv
<1>2. ASSUME NEW w \in Workers, CreateUser(w) PROVE AccountsInv'
  <2>1. PICK x \in tx[w].row :
           /\ x.email \in Emails /\ ~Taken(x.email)
           /\ users' = users \cup {[pk |-> nextUser, email |-> Address(x.email)]}
    BY <1>2, CreateUserEffect
  <2> QED BY <2>1, NewUserAccounts
<1>3. ASSUME NEW a \in Emails, AdminCreateUser(a) PROVE AccountsInv'
  BY <1>3, NewUserAccounts DEF AdminCreateUser
<1>4. ASSUME NEW w \in Workers, Begin(w) PROVE users' \subseteq users
  BY <1>4
     DEF Begin, CreateEmployee, Insert, LoadToEdit, LoadToDelete, LoadForPortal,
         LoadInAdmin, Load, BeginImport, RefuseFile, AdminDeleteUser, rows
<1>5. ASSUME NEW w \in Workers, Proceed(w) \/ Crash(w), ~CreateUser(w)
      PROVE  users' = users
  BY <1>5
     DEF Proceed, SaveEdit, MissRow, Reinsert, StatementFails, DeleteEmployee,
         Decline, UserExists, LinkUser, StoreLine, Insert, RefuseLine, FailLine,
         FinishImport, Record, AdminSave, Crash, Break, rows
<1>6. CASE UNCHANGED vars
  BY <1>1, <1>6 DEF vars, rows
<1> QED BY <1>1, <1>2, <1>3, <1>4, <1>5, <1>6 DEF Next

\* Addresses that differ only as normalize_email ignores never have two
\* accounts, whether the portal or the admin site made them.
THEOREM SpecAccountsDistinct == Spec => []AccountsDistinct
<1>1. Init => AccountsInv
  BY DEF Init, AccountsInv
<1>2. AccountsInv => AccountsDistinct
  BY DEF AccountsInv, AccountsDistinct
<1> QED BY InitTyped, NextTyped, NextAccounts, <1>1, <1>2, PTL DEF Spec

-----------------------------------------------------------------------------
(* What a request has done and read before its first change.               *)

Before == {"save", "reinsert", "remove", "change", "user", "link"}

\* No change is of a request to come, none of a request that is still before
\* its change, and a request for an account read an employee without one.
FreshInv ==
    /\ \A c \in changed : c.request < nextRequest
    /\ \A w \in Workers : pc[w] \in Before =>
          \A c \in changed : c.request # tx[w].request
    /\ \A w \in Workers : pc[w] \in {"user", "link"} =>
          \A x \in tx[w].row : x.user = 0

\* Worker w, serving request q, did not change anything.
LEMMA QuietFresh ==
    ASSUME Typed, FreshInv, NEW w \in Workers, Only(w), changed' = changed,
           \/ nextRequest' = nextRequest
           \/ nextRequest \in Requests /\ nextRequest' = nextRequest + 1,
           pc'[w] \in Before =>
              \/ tx'[w].request = nextRequest
              \/ pc[w] \in Before /\ tx'[w].request = tx[w].request,
           pc'[w] \in {"user", "link"} => \A x \in tx'[w].row : x.user = 0
    PROVE  FreshInv'
<1>1. nextRequest \in Nat /\ \A c \in changed : c.request \in Nat
  BY BoundsAssumption DEF Typed, TypeOK, Requests, Change
<1>2. \A c \in changed' : c.request < nextRequest'
  BY <1>1 DEF FreshInv, Requests
<1>3. ASSUME NEW v \in Workers, pc'[v] \in Before, NEW c \in changed'
      PROVE  c.request # tx'[v].request
  BY <1>1, <1>3 DEF FreshInv, Only
<1>4. ASSUME NEW v \in Workers, pc'[v] \in {"user", "link"}, NEW x \in tx'[v].row
      PROVE  x.user = 0
  BY <1>4 DEF FreshInv, Only
<1> QED BY <1>2, <1>3, <1>4 DEF FreshInv

\* Worker w changed a row, for the request it serves or for a new one.
LEMMA ChangedFresh ==
    ASSUME Typed, FreshInv, NEW w \in Workers, Only(w), pc'[w] \notin Before,
           NEW r \in Requests, \A c \in changed' : c \in changed \/ c.request = r,
           \/ pc[w] # "idle" /\ r = tx[w].request /\ nextRequest' = nextRequest
           \/ r = nextRequest /\ nextRequest' = nextRequest + 1
    PROVE  FreshInv'
<1>1. nextRequest \in Nat /\ \A c \in changed : c.request \in Nat
  BY BoundsAssumption DEF Typed, TypeOK, Requests, Change
<1>2. \A c \in changed' : c.request < nextRequest'
  BY <1>1 DEF FreshInv, Typed, Serving, Requests
<1>3. ASSUME NEW v \in Workers \ {w}, pc[v] \in Before
      PROVE  tx[v].request # r
  BY <1>1, <1>3 DEF Typed, Serving, Before, Requests
<1>4. ASSUME NEW v \in Workers, pc'[v] \in Before, NEW c \in changed'
      PROVE  c.request # tx'[v].request
  BY <1>3, <1>4 DEF FreshInv, Only
<1>5. ASSUME NEW v \in Workers, pc'[v] \in {"user", "link"}, NEW x \in tx'[v].row
      PROVE  x.user = 0
  BY <1>5 DEF FreshInv, Only, Before
<1> QED BY <1>2, <1>4, <1>5 DEF FreshInv

LEMMA BeginFresh ==
    ASSUME Typed, FreshInv, NEW w \in Workers, Begin(w)
    PROVE  FreshInv'
<1>1. CASE CreateEmployee(w)
  <2>1. /\ Only(w) /\ pc'[w] = "record" /\ nextRequest \in Requests
        /\ nextRequest' = nextRequest + 1
        /\ changed' = changed \cup {[request |-> nextRequest, line |-> 0,
                                     action |-> "create", pk |-> nextEmployee]}
    BY <1>1, CreateEffect DEF Began
  <2> QED BY <2>1, ChangedFresh DEF Before
<1>2. ASSUME NEW x \in staff,
             \/ LoadToEdit(w, x) \/ LoadToDelete(w, x) \/ LoadForPortal(w, x)
             \/ \E b \in BOOLEAN : LoadInAdmin(w, x, b)
      PROVE  FreshInv'
  <2>1. PICK step \in {"save", "remove", "user", "change"} :
           /\ Only(w) /\ pc'[w] = step /\ tx'[w] = Locals(nextRequest, {x}, 0)
           /\ nextRequest \in Requests /\ nextRequest' = nextRequest + 1
           /\ step = "user" => x.user = 0
           /\ UNCHANGED history
    BY <1>2, LoadEffect DEF Began
  <2>2. tx'[w].row = {x} /\ tx'[w].request = nextRequest
    BY <2>1 DEF Locals
  <2> QED BY <2>1, <2>2, QuietFresh DEF history
<1>3. ASSUME NEW f \in Files, BeginImport(w, f) PROVE FreshInv'
  <2>1. /\ Only(w) /\ pc'[w] = "line" /\ UNCHANGED history
        /\ nextRequest \in Requests /\ nextRequest' = nextRequest + 1
    BY <1>3, BeginImportEffect DEF Began
  <2> QED BY <2>1, QuietFresh DEF history, Before
<1>4. CASE RefuseFile(w)
  <2>1. /\ UNCHANGED <<pc, tx, changed>> /\ nextRequest \in Requests
        /\ nextRequest' = nextRequest + 1
    BY <1>4, RefuseFileEffect
  <2> QED BY <2>1, QuietFresh DEF Only, FreshInv
<1>5. ASSUME NEW u \in users, NEW b \in BOOLEAN, AdminDeleteUser(w, u, b)
      PROVE  FreshInv'
  <2>1. /\ Only(w) /\ pc'[w] \notin Before
        /\ nextRequest \in Requests /\ nextRequest' = nextRequest + 1
        /\ \A c \in changed' : c \in changed \/ c.request = nextRequest
    BY <1>5, DeleteUserEffect DEF Only, Before
  <2> QED BY <2>1, ChangedFresh
<1> QED BY <1>1, <1>2, <1>3, <1>4, <1>5 DEF Begin

LEMMA ProceedFresh ==
    ASSUME Typed, FreshInv, NEW w \in Workers, Proceed(w) \/ Crash(w)
    PROVE  FreshInv'
<1>1. ASSUME NEW action, NEW pk, MadeBy(w, action, pk), pc[w] # "idle",
             UNCHANGED life
      PROVE  FreshInv'
  <2>1. tx[w].request \in Requests /\ nextRequest' = nextRequest
    BY <1>1 DEF Typed, Serving, life
  <2>2. \A c \in changed' : c \in changed \/ c.request = tx[w].request
    BY <1>1 DEF MadeBy, ChangeBy
  <2> QED BY <1>1, <2>1, <2>2, ChangedFresh DEF MadeBy, Before
<1>2. ASSUME Only(w), pc[w] # "idle", pc'[w] = "idle", UNCHANGED life,
             NEW c, c.request = tx[w].request, changed' \subseteq changed \cup {c}
      PROVE  FreshInv'
  <2>1. tx[w].request \in Requests /\ nextRequest' = nextRequest
    BY <1>2 DEF Typed, Serving, life
  <2> QED BY <1>2, <2>1, ChangedFresh DEF Before
<1>3. CASE SaveEdit(w) \/ Reinsert(w)
  <2>1. \E action, pk : MadeBy(w, action, pk) /\ pc[w] # "idle" /\ UNCHANGED life
    BY <1>3, SaveEffect
  <2> QED BY <1>1, <2>1
<1>4. CASE LinkUser(w)
  <2>1. \E pk : MadeBy(w, "update", pk) /\ pc[w] # "idle" /\ UNCHANGED life
    BY <1>4, LinkEffect
  <2> QED BY <1>1, <2>1
<1>5. CASE StoreLine(w)
  <2>1. /\ MadeBy(w, "create", nextEmployee) /\ pc[w] # "idle" /\ UNCHANGED life
    BY <1>5, StoreLineEffect DEF AtLine
  <2> QED BY <1>1, <2>1
<1>6. CASE AdminSave(w)
  <2>1. PICK c \in Change :
           /\ Only(w) /\ pc[w] # "idle" /\ pc'[w] = "idle" /\ UNCHANGED life
           /\ c.request = tx[w].request /\ changed' = changed \cup {c}
    BY <1>6, AdminSaveEffect
  <2> QED BY <1>2, <2>1
<1>7. CASE DeleteEmployee(w)
  <2>1. PICK c \in Change :
           /\ Only(w) /\ pc[w] # "idle" /\ pc'[w] = "idle" /\ UNCHANGED life
           /\ c.request = tx[w].request /\ changed' \subseteq changed \cup {c}
    BY <1>7, DeleteEffect
  <2> QED BY <1>2, <2>1
<1>8. CASE CreateUser(w)
  <2>1. /\ Only(w) /\ pc[w] = "user" /\ pc'[w] = "link"
        /\ tx'[w] = [tx[w] EXCEPT !.user = nextUser]
        /\ nextRequest' = nextRequest /\ changed' = changed
    BY <1>8, CreateUserEffect DEF life, history
  <2>2. tx'[w].row = tx[w].row /\ tx'[w].request = tx[w].request
    BY <2>1 DEF Typed, TypeOK
  <2>3. \A x \in tx'[w].row : x.user = 0
    BY <2>1, <2>2 DEF FreshInv
  <2> QED BY <2>1, <2>2, <2>3, QuietFresh DEF Before
<1>9. CASE MissRow(w)
  <2>1. /\ Only(w) /\ pc[w] = "save" /\ pc'[w] = "reinsert" /\ tx' = tx
        /\ nextRequest' = nextRequest /\ changed' = changed
    BY <1>9, MissRowEffect DEF life, history
  <2> QED BY <2>1, QuietFresh DEF Before
<1>10. CASE RefuseLine(w)
  <2>1. /\ Only(w) /\ pc'[w] = "line" /\ nextRequest' = nextRequest
        /\ changed' = changed
    BY <1>10, RefuseLineEffect DEF RefuseLine, AtLine, life, history
  <2> QED BY <2>1, QuietFresh DEF Before
<1>11. CASE Record(w)
  <2>1. /\ Only(w) /\ pc'[w] \in {"idle", "line"} /\ nextRequest' = nextRequest
        /\ changed' = changed
    BY <1>11, RecordEffect DEF life, history
  <2> QED BY <2>1, QuietFresh DEF Before
<1>12. CASE \/ StatementFails(w) \/ Decline(w) \/ UserExists(w) \/ FailLine(w)
            \/ FinishImport(w) \/ Crash(w)
  <2>1. Only(w) /\ pc'[w] = "idle" /\ nextRequest' = nextRequest /\ changed' = changed
    BY <1>12, QuitsEffect
  <2> QED BY <2>1, QuietFresh DEF Before
<1> QED
  BY <1>3, <1>4, <1>5, <1>6, <1>7, <1>8, <1>9, <1>10, <1>11, <1>12 DEF Proceed

LEMMA NextFresh == Typed /\ FreshInv /\ [Next]_vars => FreshInv'
<1> SUFFICES ASSUME Typed, FreshInv, [Next]_vars PROVE FreshInv'
  OBVIOUS
<1>1. CASE UNCHANGED <<pc, tx, life, history>>
  <2>1. nextRequest' = nextRequest /\ changed' = changed /\ pc' = pc /\ tx' = tx
    BY <1>1 DEF life, history
  <2> QED BY <2>1 DEF FreshInv
<1>2. (\E a \in Emails : AdminCreateUser(a)) => UNCHANGED <<pc, tx, life, history>>
  BY DEF AdminCreateUser
<1>3. UNCHANGED vars => UNCHANGED <<pc, tx, life, history>>
  BY DEF vars
<1> QED BY <1>1, <1>2, <1>3, BeginFresh, ProceedFresh DEF Next

LEMMA InitFresh == Init => FreshInv
  BY DEF Init, FreshInv

-----------------------------------------------------------------------------
(* Who removes a link.                                                     *)

\* x keeps its account, or may lose it.
Keeps(x) ==
    \/ \E y \in staff' : y.pk = x.pk /\ y.user = x.user
    \/ \A y \in staff' : y.pk # x.pk
    \/ \A u \in users' : u.pk # x.user
    \/ \E c \in changed' \ changed : c.pk = x.pk /\ requests[c.request].kind = "admin"

\* Nobody holds a copy of employee x without its account.
NoStale(x) ==
    \A w \in Workers : \A y \in tx[w].row : y.pk = x.pk => y.user = x.user

LEMMA StoredKeeps ==
    ASSUME NEW x \in staff, NEW z, staff' = With(z), z.pk = x.pk => z.user = x.user
    PROVE  Keeps(x)
  BY DEF With, Keeps

LEMMA StepKeeps ==
    ASSUME Typed, LinksInv, FreshInv, [Next]_vars, NEW x \in staff, x.user # 0,
           NoStale(x)
    PROVE  Keeps(x)
<1>1. CASE staff \subseteq staff'
  BY <1>1 DEF Keeps
<1>2. CASE UNCHANGED vars
  BY <1>1, <1>2 DEF vars, rows
<1>3. ASSUME NEW w \in Workers, Begin(w),
             ~\E u \in users, b \in BOOLEAN : AdminDeleteUser(w, u, b)
      PROVE  staff \subseteq staff'
  BY <1>3
     DEF Begin, CreateEmployee, Insert, LoadToEdit, LoadToDelete, LoadForPortal,
         LoadInAdmin, Load, BeginImport, RefuseFile, rows
<1>4. ASSUME NEW w \in Workers, SaveEdit(w) \/ Reinsert(w) PROVE Keeps(x)
  <2>1. PICK z \in Edited(w) : staff' = With(z)
    BY <1>4, SaveEffect
  <2>2. PICK y \in tx[w].row, a \in EditEmails : z = [y EXCEPT !.email = a]
    BY DEF Edited
  <2>3. z.pk = y.pk /\ z.user = y.user
    BY <2>2 DEF Typed, TypeOK, Row
  <2> QED BY <2>1, <2>3, StoredKeeps DEF NoStale
<1>5. ASSUME NEW w \in Workers, LinkUser(w) PROVE Keeps(x)
  <2>1. PICK z \in Linked(w) : staff' = With(z) /\ pc[w] = "link"
    BY <1>5, LinkEffect
  <2>2. PICK y \in staff, q \in tx[w].row :
           q.pk = y.pk /\ z = [y EXCEPT !.user = tx[w].user]
    BY DEF Linked
  <2>3. z.pk = y.pk
    BY <2>2 DEF Typed, TypeOK, Row
  <2>4. q.user = 0
    BY <2>1 DEF FreshInv
  <2>5. z.pk # x.pk
    BY <2>2, <2>3, <2>4 DEF NoStale
  <2> QED BY <2>1, <2>5, StoredKeeps
<1>6. ASSUME NEW w \in Workers, AdminSave(w) PROVE Keeps(x)
  <2> DEFINE C(q, action) == [request |-> tx[w].request, line |-> 0,
                              action |-> action, pk |-> q.pk]
  <2>1. PICK q \in tx[w].row, z \in Row, action \in {"create", "update"} :
           /\ pc[w] = "change" /\ z.pk = q.pk /\ staff' = With(z)
           /\ changed' = changed \cup {C(q, action)}
    <3> HIDE DEF C
    <3>1. PICK q \in tx[w].row, z \in Row, action \in {"create", "update"} :
             LET c == C(q, action)
             IN /\ Typed' /\ Only(w) /\ pc'[w] = "idle" /\ tx'[w] = Idle
                /\ pc[w] = "change" /\ c \in Change
                /\ z.pk = q.pk /\ CanStore(z) /\ staff' = With(z)
                /\ entries' = entries \cup Recorded(c)
                /\ changed' = changed \cup {c}
                /\ UNCHANGED <<users, sequences, life, broken, reports>>
      BY <1>6, AdminSaveEffect DEF C
    <3> QED BY <3>1
  <2> DEFINE c == C(q, action)
  <2>2. c.request = tx[w].request /\ c.pk = q.pk /\ changed' = changed \cup {c}
    BY <2>1
  <2> HIDE DEF c
  <2>3. c \notin changed
    BY <2>1, <2>2 DEF FreshInv, Before
  <2>4. requests[c.request].kind = "admin"
    BY <2>1, <2>2 DEF Typed, InCourse, Courses
  <2>5. CASE q.pk = x.pk
    BY <2>2, <2>3, <2>4, <2>5 DEF Keeps
  <2>6. CASE q.pk # x.pk
    BY <2>1, <2>6, StoredKeeps
  <2> QED BY <2>5, <2>6
<1>7. ASSUME NEW w \in Workers, DeleteEmployee(w) PROVE Keeps(x)
  <2>1. PICK q \in tx[w].row : staff' = {y \in staff : y.pk # q.pk}
    BY <1>7, DeleteEffect
  <2> QED BY <2>1 DEF Keeps
<1>8. ASSUME NEW w \in Workers,
             \/ MissRow(w) \/ StatementFails(w) \/ Decline(w) \/ CreateUser(w)
             \/ UserExists(w) \/ StoreLine(w) \/ RefuseLine(w) \/ FailLine(w)
             \/ FinishImport(w) \/ Record(w) \/ Crash(w)
      PROVE  staff \subseteq staff'
  BY <1>8
     DEF MissRow, StatementFails, Decline, CreateUser, UserExists, StoreLine,
         Insert, RefuseLine, FailLine, FinishImport, Record, Crash, Break, rows
<1>9. ASSUME NEW a \in Emails, AdminCreateUser(a) PROVE staff \subseteq staff'
  BY <1>9 DEF AdminCreateUser
<1>10. ASSUME NEW w \in Workers, NEW u \in users, NEW b \in BOOLEAN,
              AdminDeleteUser(w, u, b)
       PROVE  Keeps(x)
  <2>1. /\ users' = users \ {u}
        /\ staff' = {IF y.user = u.pk THEN [y EXCEPT !.user = 0] ELSE y : y \in staff}
    BY <1>10 DEF AdminDeleteUser
  <2>2. CASE x.user = u.pk
    BY <2>1, <2>2 DEF LinksInv, Keyed, Keeps
  <2>3. CASE x.user # u.pk
    BY <2>1, <2>3 DEF Keeps
  <2> QED BY <2>2, <2>3
<1> QED
  BY <1>1, <1>2, <1>3, <1>4, <1>5, <1>6, <1>7, <1>8, <1>9, <1>10
     DEF Next, Proceed

\* Once nobody holds a copy of the employee without the link, only the admin
\* site removes a portal account from an employee.
THEOREM SpecLinkKept == Spec => LinkKept
<1> DEFINE Kept ==
      \A x \in staff :
         /\ x.user # 0
         /\ \A w \in Workers : \A y \in tx[w].row : y.pk = x.pk => y.user = x.user
         => \/ \E y \in staff' : y.pk = x.pk /\ y.user = x.user
            \/ \A y \in staff' : y.pk # x.pk
            \/ \A u \in users' : u.pk # x.user
            \/ \E c \in changed' \ changed : /\ c.pk = x.pk
                                             /\ requests[c.request].kind = "admin"
<1>1. Typed /\ LinksInv /\ FreshInv /\ [Next]_vars => [Kept]_vars
  BY StepKeeps DEF Keeps, NoStale
<1> QED
  BY InitTyped, InitLinks, InitFresh, NextTyped, NextLinks, NextFresh, <1>1, PTL
     DEF Spec, LinkKept
=============================================================================
