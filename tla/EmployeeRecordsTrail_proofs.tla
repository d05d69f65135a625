-------------------- MODULE EmployeeRecordsTrail_proofs --------------------
(***************************************************************************)
(* The audit trail of the employee records: what it tells happened, what   *)
(* happened and it does not tell, and what an import leaves behind.        *)
(***************************************************************************)
EXTENDS EmployeeRecordsLinks_proofs

-----------------------------------------------------------------------------
(* What the trail tells happened.                                          *)

Deleted(pk) == \E c \in changed : c.action = "delete" /\ c.pk = pk

\* A change is committed before its entry is written, and the rows a request
\* holds are stored or somebody deleted them.
TrueInv ==
    /\ EntriesTrue
    /\ \A w \in Workers : tx[w].change \subseteq changed
    /\ \A w \in Workers : \A x \in tx[w].row : Stored(x.pk) \/ Deleted(x.pk)

\* A step that keeps the keys of the rows and adds true entries only.
LEMMA KeepTrue ==
    ASSUME Typed, TrueInv, changed \subseteq changed',
           \A n \in entries' : n \in entries \/ n \in changed',
           \A pk : Stored(pk) => Stored(pk)',
           \A v \in Workers : tx'[v].change \subseteq tx[v].change \cup changed',
           Loaded
    PROVE  TrueInv'
<1>1. \A pk : Deleted(pk) => Deleted(pk)'
  BY DEF Deleted
<1>2. EntriesTrue'
  BY DEF TrueInv, EntriesTrue
<1>3. \A w \in Workers : tx'[w].change \subseteq changed'
  BY DEF TrueInv
<1>4. ASSUME NEW w \in Workers, NEW x \in tx'[w].row
      PROVE  Stored(x.pk)' \/ Deleted(x.pk)'
  <2>1. CASE x \in staff
    BY <2>1 DEF Stored
  <2>2. CASE x \in tx[w].row
    BY <1>1, <2>2 DEF TrueInv
  <2> QED BY <1>4, <2>1, <2>2 DEF Loaded
<1> QED BY <1>2, <1>3, <1>4 DEF TrueInv

LEMMA WithStored ==
    ASSUME NEW x, staff' = With(x), NEW pk, Stored(pk)
    PROVE  Stored(pk)'
  BY DEF With, Stored

LEMMA MadeTrue ==
    ASSUME Typed, TrueInv, NEW w \in Workers, NEW action, NEW pk,
           MadeBy(w, action, pk), entries' = entries,
           \A k : Stored(k) => Stored(k)'
    PROVE  TrueInv'
<1>1. Loaded
  BY MadeRow
<1>2. tx'[w].change = {ChangeBy(w, action, pk)}
  <2>1. tx[w] \in Local
    BY DEF Typed, TypeOK, Local
  <2> QED BY <2>1 DEF MadeBy, Local
<1>3. changed \subseteq changed' /\ tx'[w].change \subseteq changed'
  BY <1>2 DEF MadeBy
<1>4. \A v \in Workers : tx'[v].change \subseteq tx[v].change \cup changed'
  BY <1>3 DEF MadeBy, Only
<1> QED BY <1>1, <1>3, <1>4, KeepTrue

\* Worker w ended its request with a change and its entry in one transaction.
LEMMA TransactionTrue ==
    ASSUME Typed, TrueInv, NEW w \in Workers, Only(w), tx'[w] = Idle, NEW c,
           entries' = entries \cup Recorded(c), changed' = changed \cup {c},
           \A pk : Stored(pk) => Stored(pk)'
    PROVE  TrueInv'
<1>1. Idle.row = {} /\ Idle.change = {}
  BY DEF Idle, Locals
<1>2. Loaded
  BY <1>1, LoadedWhen
<1>3. \A v \in Workers : tx'[v].change \subseteq tx[v].change \cup changed'
  BY <1>1 DEF Only
<1> QED BY <1>2, <1>3, KeepTrue DEF Recorded

LEMMA DeleteTrue ==
    ASSUME Typed, TrueInv, NEW w \in Workers, DeleteEmployee(w)
    PROVE  TrueInv'
<1>1. PICK x \in tx[w].row :
         LET c == [request |-> tx[w].request, line |-> 0, action |-> "delete",
                   pk |-> x.pk]
         IN /\ Only(w) /\ tx'[w] = Idle
            /\ staff' = {y \in staff : y.pk # x.pk}
            /\ entries' = entries \cup Recorded(c)
            /\ changed' = changed \cup {d \in {c} : Stored(x.pk)}
  BY DeleteEffect
<1> DEFINE c == [request |-> tx[w].request, line |-> 0, action |-> "delete",
                 pk |-> x.pk]
<1>2. /\ c.action = "delete" /\ c.pk = x.pk
      /\ entries' = entries \cup Recorded(c)
      /\ changed' = changed \cup {d \in {c} : Stored(x.pk)}
  BY <1>1
<1> HIDE DEF c
<1>3. Deleted(x.pk)' /\ (\A pk : Deleted(pk) => Deleted(pk)')
  BY <1>2 DEF Deleted, TrueInv
<1>4. \A pk : Stored(pk) => Stored(pk)' \/ pk = x.pk
  BY <1>1 DEF Stored
<1>5. Idle.row = {} /\ Idle.change = {}
  BY DEF Idle, Locals
<1>6. EntriesTrue'
  <2>1. ASSUME NEW n \in entries'
        PROVE  n \in changed' \/ (n.action = "delete" /\ Deleted(n.pk)')
    BY <1>2, <1>3 DEF TrueInv, EntriesTrue, Recorded, Deleted
  <2> QED BY <2>1 DEF EntriesTrue, Deleted
<1>7. \A v \in Workers : tx'[v].change \subseteq changed'
  BY <1>1, <1>2, <1>5 DEF TrueInv, Only
<1>8. ASSUME NEW v \in Workers, NEW y \in tx'[v].row
      PROVE  Stored(y.pk)' \/ Deleted(y.pk)'
  BY <1>1, <1>3, <1>4, <1>5, <1>8 DEF TrueInv, Only
<1> QED BY <1>6, <1>7, <1>8 DEF TrueInv

\* A step that leaves rows and changes alone.
LEMMA SameTrue ==
    ASSUME Typed, TrueInv, Loaded, UNCHANGED <<staff, changed>>,
           \A n \in entries' : n \in entries \/ n \in changed,
           \A v \in Workers : tx'[v].change \subseteq tx[v].change
    PROVE  TrueInv'
<1>1. \A pk : Stored(pk) => Stored(pk)'
  BY DEF Stored
<1> QED BY <1>1, KeepTrue

\* The locals of a worker that drops its change and keeps its row, or ends.
LEMMA SameLocals ==
    ASSUME NEW w \in Workers, Only(w), tx'[w].row \subseteq tx[w].row \cup staff,
           tx'[w].change \subseteq tx[w].change
    PROVE  Loaded /\ \A v \in Workers : tx'[v].change \subseteq tx[v].change
  BY DEF Only, Loaded

LEMMA BeginTrue ==
    ASSUME Typed, TrueInv, NEW w \in Workers, Begin(w)
    PROVE  TrueInv'
<1>1. CASE CreateEmployee(w)
  <2>1. PICK c : /\ Only(w) /\ Inserted /\ changed' = changed \cup {c}
                 /\ tx'[w] = [Locals(nextRequest, {}, 0) EXCEPT !.change = {c}]
    BY <1>1, CreateEffect DEF Began
  <2>2. tx'[w].row = {} /\ tx'[w].change = {c}
    BY <2>1 DEF Locals
  <2>3. \A pk : Stored(pk) => Stored(pk)'
    BY <2>1 DEF Inserted, Stored
  <2>4. Loaded /\ \A v \in Workers : tx'[v].change \subseteq tx[v].change \cup changed'
    BY <2>1, <2>2, LoadedWhen DEF Only
  <2> QED BY <2>1, <2>3, <2>4, KeepTrue DEF Inserted
<1>2. ASSUME NEW x \in staff,
             \/ LoadToEdit(w, x) \/ LoadToDelete(w, x) \/ LoadForPortal(w, x)
             \/ \E b \in BOOLEAN : LoadInAdmin(w, x, b)
      PROVE  TrueInv'
  <2>1. /\ Only(w) /\ tx'[w] = Locals(nextRequest, {x}, 0)
        /\ UNCHANGED <<rows, history>>
    BY <1>2, LoadEffect DEF Began
  <2>2. tx'[w].row = {x} /\ tx'[w].change = {}
    BY <2>1 DEF Locals
  <2> QED BY <2>1, <2>2, SameLocals, SameTrue DEF rows, history
<1>3. ASSUME NEW f \in Files, BeginImport(w, f) PROVE TrueInv'
  <2>1. /\ Only(w) /\ tx'[w] = Locals(nextRequest, {}, 2)
        /\ UNCHANGED <<rows, history>>
    BY <1>3, BeginImportEffect DEF Began
  <2>2. tx'[w].row = {} /\ tx'[w].change = {}
    BY <2>1 DEF Locals
  <2> QED BY <2>1, <2>2, SameLocals, SameTrue DEF rows, history
<1>4. CASE RefuseFile(w)
  <2>1. UNCHANGED <<rows, tx, changed>>
    BY <1>4, RefuseFileEffect
  <2> QED BY <2>1, SameTrue DEF rows, Loaded
<1>5. ASSUME NEW u \in users, NEW b \in BOOLEAN, AdminDeleteUser(w, u, b)
      PROVE  TrueInv'
  <2>1. changed \subseteq changed' /\ UNCHANGED <<entries, tx>>
    BY <1>5, DeleteUserEffect
  <2>2. staff' = {IF x.user = u.pk THEN [x EXCEPT !.user = 0] ELSE x : x \in staff}
    BY <1>5 DEF AdminDeleteUser
  <2>3. \A x \in staff : [x EXCEPT !.user = 0].pk = x.pk
    BY DEF Typed, TypeOK, Row
  <2>4. \A pk : Stored(pk) => Stored(pk)'
    BY <2>2, <2>3 DEF Stored
  <2> QED BY <2>1, <2>4, KeepTrue DEF Loaded
<1> QED BY <1>1, <1>2, <1>3, <1>4, <1>5 DEF Begin

LEMMA ProceedTrue ==
    ASSUME Typed, TrueInv, NEW w \in Workers, Proceed(w) \/ Crash(w)
    PROVE  TrueInv'
<1>1. CASE SaveEdit(w) \/ Reinsert(w)
  <2>1. PICK x \in Edited(w), action \in {"create", "update"} :
           MadeBy(w, action, x.pk) /\ staff' = With(x) /\ entries' = entries
    BY <1>1, SaveEffect
  <2> QED BY <2>1, WithStored, MadeTrue
<1>2. CASE LinkUser(w)
  <2>1. PICK x \in Linked(w) :
           MadeBy(w, "update", x.pk) /\ staff' = With(x) /\ entries' = entries
    BY <1>2, LinkEffect
  <2> QED BY <2>1, WithStored, MadeTrue
<1>3. CASE StoreLine(w)
  <2>1. MadeBy(w, "create", nextEmployee) /\ Inserted
    BY <1>3, StoreLineEffect
  <2>2. entries' = entries /\ \A pk : Stored(pk) => Stored(pk)'
    BY <2>1 DEF Inserted, Stored
  <2> QED BY <2>1, <2>2, MadeTrue
<1>4. CASE AdminSave(w)
  <2>1. PICK y \in Row, c \in Change :
           /\ Only(w) /\ tx'[w] = Idle /\ staff' = With(y)
           /\ entries' = entries \cup Recorded(c) /\ changed' = changed \cup {c}
    BY <1>4, AdminSaveEffect
  <2> QED BY <2>1, WithStored, TransactionTrue
<1>5. CASE CreateUser(w)
  <2>1. /\ Only(w) /\ tx'[w] = [tx[w] EXCEPT !.user = nextUser]
        /\ UNCHANGED <<staff, entries, changed>>
    BY <1>5, CreateUserEffect DEF history
  <2>2. tx'[w].row = tx[w].row /\ tx'[w].change = tx[w].change
    BY <2>1 DEF Typed, TypeOK
  <2> QED BY <2>1, <2>2, SameLocals, SameTrue
<1>6. CASE MissRow(w)
  <2>1. UNCHANGED <<staff, entries, changed, tx>>
    BY <1>6 DEF MissRow, rows, history
  <2> QED BY <2>1, SameTrue DEF Loaded
<1>7. CASE RefuseLine(w)
  <2>1. Only(w) /\ tx'[w] = Reported(w, FALSE, 0) /\ tx[w].line # 0
        /\ pc[w] # "idle" /\ UNCHANGED <<staff, entries, changed>>
    BY <1>7, RefuseLineEffect DEF RefuseLine, AtLine, rows, history
  <2>2. tx'[w].row = tx[w].row /\ tx'[w].change = {}
    <3>1. 0 \in 0 .. MaxEmployees /\ FALSE \in BOOLEAN
      BY BoundsAssumption
    <3> DEFINE t == Reported(w, FALSE, 0)
    <3>2. t.row = tx[w].row /\ t.change = {}
      BY <2>1, <3>1, ReportedLocal
    <3> QED BY <2>1, <3>2
  <2> QED BY <2>1, <2>2, SameLocals, SameTrue
<1>8. CASE Record(w)
  <2>1. PICK c \in tx[w].change :
           /\ Only(w) /\ pc[w] = "record" /\ c \in Change
           /\ entries' = entries \cup Recorded(c)
           /\ \/ tx'[w] = Idle
              \/ tx'[w] = Reported(w, TRUE, c.pk) /\ tx[w].line # 0
           /\ UNCHANGED <<staff, changed>>
    BY <1>8, RecordEffect DEF history
  <2>2. tx'[w].row \subseteq tx[w].row /\ tx'[w].change = {}
    <3>1. c.pk \in 0 .. MaxEmployees /\ Idle.row = {} /\ Idle.change = {}
      BY <2>1 DEF Change, Idle, Locals
    <3> QED BY <2>1, <3>1, ReportedLocal
  <2>3. \A n \in entries' : n \in entries \/ n \in changed
    BY <2>1 DEF TrueInv, Recorded
  <2> QED BY <2>1, <2>2, <2>3, SameLocals, SameTrue
<1>9. CASE \/ StatementFails(w) \/ Decline(w) \/ UserExists(w) \/ FailLine(w)
           \/ FinishImport(w) \/ Crash(w)
  <2>1. Only(w) /\ tx'[w] = Idle /\ UNCHANGED <<staff, entries, changed>>
    BY <1>9, QuitsEffect
  <2>2. Idle.row = {} /\ Idle.change = {}
    BY DEF Idle, Locals
  <2> QED BY <2>1, <2>2, SameLocals, SameTrue
<1> QED
  BY <1>1, <1>2, <1>3, <1>4, <1>5, <1>6, <1>7, <1>8, <1>9, DeleteTrue DEF Proceed

LEMMA NextTrue == Typed /\ TrueInv /\ [Next]_vars => TrueInv'
<1> SUFFICES ASSUME Typed, TrueInv, [Next]_vars PROVE TrueInv'
  OBVIOUS
<1>1. CASE UNCHANGED vars
  BY <1>1, SameTrue DEF vars, rows, history, Loaded
<1>2. ASSUME NEW a \in Emails, AdminCreateUser(a) PROVE TrueInv'
  BY <1>2, SameTrue DEF AdminCreateUser, history, Loaded
<1> QED BY <1>1, <1>2, BeginTrue, ProceedTrue DEF Next

\* The trail never tells of a change that did not happen, however the deletions
\* and saves of several requests overlap.
THEOREM SpecEntriesTrue == Spec => []EntriesTrue
<1>1. Init => TrueInv
  BY DEF Init, TrueInv, EntriesTrue, Idle, Locals
<1>2. TrueInv => EntriesTrue
  BY DEF TrueInv
<1> QED BY InitTyped, NextTyped, NextTrue, <1>1, <1>2, PTL DEF Spec

-----------------------------------------------------------------------------
(* What happened and the trail does not tell.                              *)

Unserved(r) == \A w \in Workers : pc[w] # "idle" => tx[w].request # r

\* A request whose changes are meant to be told.
Told(r) == requests[r].tenant /\ requests[r].kind # "account"

\* A change without its entry is the only one of its request, which is about to
\* write it or crashed just then.
MissedInv ==
    \A c \in changed \ entries : Told(c.request) =>
       /\ c.action # "delete" /\ requests[c.request].kind # "admin"
       /\ \A d \in changed \ entries : d.request = c.request => d = c
       /\ \/ c.request \in broken /\ Unserved(c.request)
          \/ \E w \in Workers : tx[w].change = {c}

\* The requests that have begun stay as they are, and worker w serves the same
\* request or a new one.
Serves(w) ==
    /\ Only(w)
    /\ \A r \in Requests : r < nextRequest => requests'[r] = requests[r]
    /\ pc'[w] # "idle" =>
          \/ tx'[w].request = nextRequest
          \/ pc[w] # "idle" /\ tx'[w].request = tx[w].request

LEMMA StaysUnserved ==
    ASSUME Typed, NEW w \in Workers, Serves(w), NEW r \in Requests, r < nextRequest,
           Unserved(r)
    PROVE  Unserved(r)'
<1>1. nextRequest \in Nat /\ r # nextRequest
  BY BoundsAssumption DEF Typed, TypeOK, Requests
<1> QED BY <1>1 DEF Unserved, Serves, Only

LEMMA Begun ==
    ASSUME Typed, FreshInv, NEW w \in Workers, Serves(w), NEW c \in changed
    PROVE  /\ c.request \in Requests /\ c.request < nextRequest
           /\ requests'[c.request] = requests[c.request]
  BY DEF Typed, TypeOK, Change, FreshInv, Serves

\* Worker w changed nothing; if it was about to write an entry, it crashed.
LEMMA QuietMissed ==
    ASSUME Typed, FreshInv, MissedInv, NEW w \in Workers, Serves(w),
           changed' = changed, entries' = entries, broken \subseteq broken',
           \/ tx[w].change = {} \/ tx'[w].change = tx[w].change
           \/ pc'[w] = "idle" /\ tx[w].request \in broken'
    PROVE  MissedInv'
<1> SUFFICES ASSUME NEW c \in changed \ entries, Told(c.request)
             PROVE  /\ c.action # "delete" /\ requests[c.request].kind # "admin"
                    /\ \A d \in changed \ entries : d.request = c.request => d = c
                    /\ \/ c.request \in broken' /\ Unserved(c.request)'
                       \/ \E v \in Workers : tx'[v].change = {c}
  BY Begun DEF MissedInv, Told
<1>1. CASE c.request \in broken /\ Unserved(c.request)
  BY <1>1, Begun, StaysUnserved DEF MissedInv
<1>2. ASSUME NEW v \in Workers, tx[v].change = {c}
      PROVE  \/ c.request \in broken' /\ Unserved(c.request)'
             \/ \E u \in Workers : tx'[u].change = {c}
  <2>1. CASE v # w \/ tx'[w].change = tx[w].change
    BY <1>2, <2>1 DEF Serves, Only
  <2>2. CASE v = w /\ pc'[w] = "idle" /\ tx[w].request \in broken'
    <3>1. pc[w] = "record" /\ c.request = tx[w].request
      BY <1>2, <2>2 DEF Typed, Pending, Sole
    <3>2. \A u \in Workers \ {w} : pc[u] # "idle" => tx[u].request # c.request
      BY <3>1 DEF Typed, Serving
    <3>3. Unserved(c.request)'
      BY <2>2, <3>2 DEF Unserved, Serves, Only
    <3> QED BY <2>2, <3>1, <3>3
  <2> QED BY <1>2, <2>1, <2>2
<1> QED BY <1>1, <1>2 DEF MissedInv

\* Before a change in autocommit, its request has none without an entry.
LEMMA NoneMissed ==
    ASSUME Typed, FreshInv, MissedInv, NEW w \in Workers, NEW r \in Requests,
           \/ pc[w] \notin {"idle", "record"} /\ r = tx[w].request
           \/ r = nextRequest,
           NEW c \in changed \ entries, c.request = r, Told(r)
    PROVE  FALSE
<1>1. nextRequest \in Nat /\ c.request \in Nat /\ c.request < nextRequest
  BY BoundsAssumption DEF Typed, TypeOK, Requests, Change, FreshInv
<1>2. pc[w] \notin {"idle", "record"} /\ r = tx[w].request
  BY <1>1
<1>3. ~Unserved(r)
  BY <1>2 DEF Unserved
<1>4. PICK v \in Workers : tx[v].change = {c}
  BY <1>3 DEF MissedInv
<1>5. pc[v] = "record" /\ tx[v].request = tx[w].request
  BY <1>2, <1>4 DEF Typed, Pending, Sole
<1> QED BY <1>2, <1>5 DEF Typed, Serving

\* A change in autocommit, of the request worker w serves or begins.
LEMMA MadeMissed ==
    ASSUME Typed, FreshInv, MissedInv, NEW w \in Workers, Serves(w),
           NEW c, NEW r \in Requests, c.request = r, c.action # "delete",
           requests'[r].kind # "admin",
           \/ pc[w] \notin {"idle", "record"} /\ r = tx[w].request /\ requests' = requests
           \/ r = nextRequest,
           changed' = changed \cup {c}, entries' = entries, broken' = broken,
           tx'[w].change = {c}, tx[w].change = {}
    PROVE  MissedInv'
<1>1. ASSUME NEW d \in changed \ entries, d.request = r PROVE ~Told(r)'
  <2>1. ~Told(r)
    BY <1>1, NoneMissed
  <2>2. requests'[r] = requests[r]
    BY <1>1, Begun
  <2> QED BY <2>1, <2>2 DEF Told
<1>2. ASSUME NEW d \in changed' \ entries', Told(d.request)'
      PROVE  /\ d.action # "delete" /\ requests'[d.request].kind # "admin"
             /\ \A e \in changed' \ entries' : e.request = d.request => e = d
             /\ \/ d.request \in broken' /\ Unserved(d.request)'
                \/ \E v \in Workers : tx'[v].change = {d}
  <2>1. CASE d = c
    BY <1>1, <1>2, <2>1
  <2>2. CASE d # c
    <3>1. d \in changed \ entries /\ Told(d.request) /\ d.request # r
      BY <1>1, <1>2, <2>2, Begun DEF Told
    <3>2. /\ d.action # "delete" /\ requests'[d.request].kind # "admin"
          /\ \A e \in changed' \ entries' : e.request = d.request => e = d
      BY <3>1, Begun DEF MissedInv
    <3>3. CASE d.request \in broken /\ Unserved(d.request)
      BY <3>1, <3>2, <3>3, Begun, StaysUnserved
    <3>4. ASSUME NEW v \in Workers, tx[v].change = {d} PROVE tx'[v].change = {d}
      BY <3>4 DEF Serves, Only
    <3> QED BY <3>1, <3>2, <3>3, <3>4 DEF MissedInv
  <2> QED BY <2>1, <2>2
<1> QED BY <1>2 DEF MissedInv

\* An entry that is written: of a change in the same transaction, or of the
\* change worker w made before.
LEMMA ToldMissed ==
    ASSUME Typed, FreshInv, MissedInv, NEW w \in Workers, Serves(w), NEW c,
           requests' = requests,
           changed' \subseteq changed \cup {c}, entries' = entries \cup Recorded(c),
           broken' = broken, tx[w].change \subseteq {c}
    PROVE  MissedInv'
<1>1. ASSUME NEW d \in changed' \ entries', Told(d.request)
      PROVE  d # c /\ d \in changed \ entries
  BY <1>1 DEF Recorded, Told
<1>2. ASSUME NEW d \in changed' \ entries', Told(d.request)'
      PROVE  /\ d.action # "delete" /\ requests'[d.request].kind # "admin"
             /\ \A e \in changed' \ entries' : e.request = d.request => e = d
             /\ \/ d.request \in broken' /\ Unserved(d.request)'
                \/ \E v \in Workers : tx'[v].change = {d}
  <2>1. d # c /\ d \in changed \ entries /\ Told(d.request)
    BY <1>1, <1>2 DEF Told
  <2>2. /\ d.action # "delete" /\ requests'[d.request].kind # "admin"
        /\ \A e \in changed \ entries : e.request = d.request => e = d
    BY <1>2, <2>1 DEF MissedInv
  <2>3. ASSUME NEW e \in changed' \ entries', e.request = d.request PROVE e = d
    <3>1. Told(e.request)
      BY <2>1, <2>3 DEF Told
    <3>2. e \in changed \ entries
      BY <1>1, <3>1
    <3> QED BY <2>2, <2>3, <3>2
  <2>4. CASE d.request \in broken /\ Unserved(d.request)
    BY <2>1, <2>2, <2>3, <2>4, Begun, StaysUnserved
  <2>5. ASSUME NEW v \in Workers, tx[v].change = {d} PROVE tx'[v].change = {d}
    BY <2>1, <2>5 DEF Serves, Only
  <2> QED BY <1>2, <2>1, <2>2, <2>3, <2>4, <2>5 DEF MissedInv
<1> QED BY <1>2 DEF MissedInv

LEMMA MadeLocals ==
    ASSUME Typed, NEW w \in Workers, NEW action, NEW pk, MadeBy(w, action, pk),
           requests' = requests, pc[w] # "idle"
    PROVE  /\ Serves(w) /\ tx'[w].change = {ChangeBy(w, action, pk)}
           /\ tx'[w].request = tx[w].request /\ tx'[w].line = tx[w].line
           /\ tx'[w].outcomes = tx[w].outcomes
<1>1. tx[w] \in Local
  BY DEF Typed, TypeOK, Local
<1>2. /\ tx'[w].change = {ChangeBy(w, action, pk)}
      /\ tx'[w].request = tx[w].request /\ tx'[w].line = tx[w].line
      /\ tx'[w].outcomes = tx[w].outcomes
  BY <1>1 DEF MadeBy, Local
<1> QED BY <1>2 DEF Serves, MadeBy

\* A change made by MadeBy, when the request has made none that is pending.
LEMMA MadeByMissed ==
    ASSUME Typed, FreshInv, MissedInv, NEW w \in Workers,
           NEW action \in {"create", "update"}, NEW pk,
           MadeBy(w, action, pk), requests' = requests, broken' = broken,
           entries' = entries, pc[w] \notin {"idle", "record", "change"}
    PROVE  MissedInv'
<1>1. /\ Serves(w) /\ tx'[w].change = {ChangeBy(w, action, pk)}
  BY MadeLocals
<1>2. tx[w].request \in Requests /\ tx[w].change = {}
  BY DEF Typed, Serving, Pending, Sole
<1>3. requests'[tx[w].request].kind # "admin"
  BY DEF Typed, InCourse, Courses
<1> DEFINE c == ChangeBy(w, action, pk)
<1>4. c.request = tx[w].request /\ c.action # "delete"
  BY DEF ChangeBy
<1>5. changed' = changed \cup {c} /\ tx'[w].change = {c}
  BY <1>1 DEF MadeBy
<1> HIDE DEF c
<1> QED BY <1>1, <1>2, <1>3, <1>4, <1>5, MadeMissed

\* The changes made by the deletion of an account are not meant to be told.
LEMMA DeleteUserMissed ==
    ASSUME Typed, FreshInv, MissedInv, NEW w \in Workers, NEW u \in users,
           NEW b \in BOOLEAN, AdminDeleteUser(w, u, b)
    PROVE  MissedInv'
<1>1. /\ nextRequest \in Requests /\ requests'[nextRequest].kind = "account"
      /\ \A c \in changed' : c \in changed \/ c.request = nextRequest
      /\ UNCHANGED <<entries, pc, tx, broken>>
      /\ \A r \in Requests : r < nextRequest => requests'[r] = requests[r]
  BY DeleteUserEffect
<1>2. Serves(w)
  BY <1>1, DeleteUserEffect DEF Serves, Only
<1>3. ASSUME NEW d \in changed' \ entries', Told(d.request)'
      PROVE  d \in changed \ entries /\ d.request < nextRequest /\ Told(d.request)
  BY <1>1, <1>2, <1>3, Begun DEF Told
<1>4. ASSUME NEW d \in changed' \ entries', Told(d.request)'
      PROVE  /\ d.action # "delete" /\ requests'[d.request].kind # "admin"
             /\ \A e \in changed' \ entries' : e.request = d.request => e = d
             /\ \/ d.request \in broken' /\ Unserved(d.request)'
                \/ \E v \in Workers : tx'[v].change = {d}
  <2>1. d \in changed \ entries /\ d.request < nextRequest /\ Told(d.request)
    BY <1>3, <1>4
  <2>2. ASSUME NEW e \in changed' \ entries', e.request = d.request PROVE e = d
    <3>1. Told(e.request)' /\ e \in changed \ entries
      BY <1>3, <1>4, <2>2
    <3> QED BY <2>1, <2>2, <3>1 DEF MissedInv
  <2>3. Unserved(d.request) => Unserved(d.request)'
    BY <1>1 DEF Unserved
  <2> QED BY <1>1, <1>2, <2>1, <2>2, <2>3, Begun DEF MissedInv
<1> QED BY <1>4 DEF MissedInv

LEMMA BeginMissed ==
    ASSUME Typed, FreshInv, MissedInv, NEW w \in Workers, Begin(w)
    PROVE  MissedInv'
<1>1. pc[w] = "idle" /\ tx[w].change = {}
  <2>1. pc[w] = "idle"
    BY DEF Begin, CreateEmployee, LoadToEdit, LoadToDelete, LoadForPortal,
           LoadInAdmin, Load, BeginImport, RefuseFile, AdminDeleteUser, Start
  <2> QED BY <2>1 DEF Typed, Pending, Sole
<1>2. CASE CreateEmployee(w)
  <2> DEFINE c == [request |-> nextRequest, line |-> 0, action |-> "create",
                   pk |-> nextEmployee]
  <2>1. /\ Began(w, "create", TRUE, <<>>) /\ Inserted
        /\ changed' = changed \cup {c}
        /\ tx'[w] = [Locals(nextRequest, {}, 0) EXCEPT !.change = {c}]
    BY <1>2, CreateEffect
  <2>2. c.request = nextRequest /\ c.action # "delete" /\ tx'[w].change = {c}
    BY <2>1 DEF Locals
  <2> HIDE DEF c
  <2>3. Serves(w) /\ nextRequest \in Requests /\ requests'[nextRequest].kind # "admin"
    BY <2>1 DEF Began, Serves
  <2>4. entries' = entries /\ broken' = broken
    BY <2>1 DEF Inserted
  <2> QED BY <1>1, <2>1, <2>2, <2>3, <2>4, MadeMissed
<1>3. ASSUME NEW x \in staff,
             \/ LoadToEdit(w, x) \/ LoadToDelete(w, x) \/ LoadForPortal(w, x)
             \/ \E b \in BOOLEAN : LoadInAdmin(w, x, b)
      PROVE  MissedInv'
  <2>1. Serves(w) /\ UNCHANGED <<rows, history>>
    BY <1>3, LoadEffect DEF Began, Serves
  <2> QED BY <1>1, <2>1, QuietMissed DEF rows, history
<1>4. ASSUME NEW f \in Files, BeginImport(w, f) PROVE MissedInv'
  <2>1. Serves(w) /\ UNCHANGED <<rows, history>>
    BY <1>4, BeginImportEffect DEF Began, Serves
  <2> QED BY <1>1, <2>1, QuietMissed DEF rows, history
<1>5. CASE RefuseFile(w)
  <2>1. Serves(w) /\ UNCHANGED <<rows, changed, broken>>
    BY <1>1, <1>5, RefuseFileEffect DEF Serves, Only
  <2> QED BY <1>1, <2>1, QuietMissed DEF rows
<1>6. ASSUME NEW u \in users, NEW b \in BOOLEAN, AdminDeleteUser(w, u, b)
      PROVE  MissedInv'
  BY <1>6, DeleteUserMissed
<1> QED BY <1>2, <1>3, <1>4, <1>5, <1>6 DEF Begin

LEMMA ProceedMissed ==
    ASSUME Typed, FreshInv, MissedInv, NEW w \in Workers, Proceed(w) \/ Crash(w)
    PROVE  MissedInv'
<1>1. CASE SaveEdit(w) \/ Reinsert(w)
  <2>1. PICK x \in Edited(w), action \in {"create", "update"} :
           /\ MadeBy(w, action, x.pk) /\ pc[w] \in {"save", "reinsert"}
           /\ UNCHANGED <<entries, broken, life>>
    BY <1>1, SaveEffect
  <2> QED BY <2>1, MadeByMissed DEF life
<1>2. CASE LinkUser(w)
  <2>1. PICK pk : /\ MadeBy(w, "update", pk) /\ pc[w] = "link"
                  /\ UNCHANGED <<entries, broken, life>>
    BY <1>2, LinkEffect
  <2> QED BY <2>1, MadeByMissed DEF life
<1>3. CASE StoreLine(w)
  <2>1. /\ MadeBy(w, "create", nextEmployee) /\ pc[w] = "line"
        /\ UNCHANGED <<entries, broken, life>>
    BY <1>3, StoreLineEffect DEF Inserted, AtLine
  <2> QED BY <2>1, MadeByMissed DEF life
<1>4. CASE AdminSave(w)
  <2>1. PICK c \in Change :
           /\ Only(w) /\ pc'[w] = "idle" /\ pc[w] = "change"
           /\ entries' = entries \cup Recorded(c) /\ changed' = changed \cup {c}
           /\ UNCHANGED <<life, broken>>
    BY <1>4, AdminSaveEffect
  <2>2. Serves(w) /\ tx[w].change = {} /\ requests' = requests
    BY <2>1 DEF Serves, life, Typed, Pending, Sole
  <2> QED BY <2>1, <2>2, ToldMissed
<1>5. CASE DeleteEmployee(w)
  <2>1. PICK c \in Change :
           /\ Only(w) /\ pc'[w] = "idle" /\ pc[w] \in {"remove", "change"}
           /\ entries' = entries \cup Recorded(c) /\ changed' \subseteq changed \cup {c}
           /\ UNCHANGED <<life, broken>>
    BY <1>5, DeleteEffect
  <2>2. Serves(w) /\ tx[w].change = {} /\ requests' = requests
    BY <2>1 DEF Serves, life, Typed, Pending, Sole
  <2> QED BY <2>1, <2>2, ToldMissed
<1>6. CASE Record(w)
  <2>1. PICK c \in tx[w].change :
           /\ Only(w) /\ pc[w] = "record" /\ c \in Change
           /\ entries' = entries \cup Recorded(c)
           /\ \/ pc'[w] = "idle"
              \/ tx'[w] = Reported(w, TRUE, c.pk) /\ tx[w].line # 0
           /\ UNCHANGED <<life, history>>
    BY <1>6, RecordEffect
  <2>2. pc'[w] # "idle" => tx'[w].request = tx[w].request
    <3>1. c.pk \in 0 .. MaxEmployees
      BY <2>1 DEF Change
    <3> QED BY <2>1, <3>1, ReportedLocal
  <2>3. Serves(w) /\ tx[w].change \subseteq {c} /\ requests' = requests
    BY <2>1, <2>2 DEF Serves, life, Typed, Pending, Sole
  <2> QED BY <2>1, <2>3, ToldMissed DEF history
<1>7. CASE CreateUser(w)
  <2>1. /\ Only(w) /\ tx'[w] = [tx[w] EXCEPT !.user = nextUser] /\ pc[w] = "user"
        /\ UNCHANGED <<entries, life, history>>
    BY <1>7, CreateUserEffect
  <2>2. tx'[w].request = tx[w].request /\ tx'[w].change = tx[w].change
    BY <2>1 DEF Typed, TypeOK
  <2>3. Serves(w)
    BY <2>1, <2>2 DEF Serves, life
  <2> QED BY <2>1, <2>2, <2>3, QuietMissed DEF history
<1>8. CASE MissRow(w)
  <2>1. Serves(w) /\ tx' = tx /\ UNCHANGED <<entries, history>>
    BY <1>8, MissRowEffect DEF Serves, rows, life
  <2> QED BY <2>1, QuietMissed DEF history
<1>9. CASE RefuseLine(w)
  <2>1. Only(w) /\ tx'[w] = Reported(w, FALSE, 0) /\ tx[w].line # 0
        /\ pc[w] = "line" /\ UNCHANGED <<entries, life, history>>
    BY <1>9, RefuseLineEffect DEF RefuseLine, AtLine, rows
  <2>2. tx'[w].request = tx[w].request
    <3>1. 0 \in 0 .. MaxEmployees
      BY BoundsAssumption
    <3> QED BY <2>1, <3>1, ReportedLocal
  <2>3. Serves(w) /\ tx[w].change = {}
    BY <2>1, <2>2 DEF Serves, life, Typed, Pending, Sole
  <2> QED BY <2>1, <2>3, QuietMissed DEF history
<1>10. CASE \/ StatementFails(w) \/ Decline(w) \/ UserExists(w) \/ FailLine(w)
            \/ FinishImport(w) \/ Crash(w)
  <2>1. /\ Serves(w) /\ pc'[w] = "idle" /\ entries' = entries /\ changed' = changed
    BY <1>10, QuitsEffect DEF Serves
  <2>2. \/ broken' = broken /\ pc[w] # "record"
        \/ broken' = broken \cup {tx[w].request}
    BY <1>10 DEF StatementFails, Decline, UserExists, FailLine, FinishImport,
                 Crash, Break, history
  <2>3. pc[w] # "record" => tx[w].change = {}
    BY DEF Typed, Pending, Sole
  <2> QED BY <2>1, <2>2, <2>3, QuietMissed
<1> QED
  BY <1>1, <1>2, <1>3, <1>4, <1>5, <1>6, <1>7, <1>8, <1>9, <1>10 DEF Proceed

LEMMA NextMissed == Typed /\ FreshInv /\ MissedInv /\ [Next]_vars => MissedInv'
<1> SUFFICES ASSUME Typed, FreshInv, MissedInv, [Next]_vars PROVE MissedInv'
  OBVIOUS
<1>1. CASE UNCHANGED <<entries, pc, tx, life, history>>
  BY <1>1 DEF life, history, MissedInv, Unserved, Told
<1>2. (\E a \in Emails : AdminCreateUser(a))
      => UNCHANGED <<entries, pc, tx, life, history>>
  BY DEF AdminCreateUser
<1>3. UNCHANGED vars => UNCHANGED <<entries, pc, tx, life, history>>
  BY DEF vars, rows
<1> QED BY <1>1, <1>2, <1>3, BeginMissed, ProceedMissed DEF Next

\* A change made on the company's host lacks its entry only until its request
\* has recorded it, or for good if that request crashed just then, unless an
\* account was removed from an employee by its deletion.
THEOREM SpecChangesRecorded == Spec => []ChangesRecorded
<1>1. Init => MissedInv
  BY DEF Init, MissedInv
<1>2. MissedInv => ChangesRecorded
  <2> SUFFICES ASSUME MissedInv, NEW r \in Requests, NEW c \in changed \ entries,
                      c.request = r, Told(r)
               PROVE  LET missing == {d \in changed \ entries : d.request = r}
                      IN /\ Cardinality(missing) = 1
                         /\ requests[r].kind # "admin"
                         /\ \A d \in missing : d.action # "delete"
                         /\ r \in broken \/ \E w \in Workers : missing = tx[w].change
    BY DEF ChangesRecorded, Told
  <2>1. {d \in changed \ entries : d.request = r} = {c}
    BY DEF MissedInv
  <2>2. Cardinality({c}) = 1
    BY FS_Singleton
  <2> QED BY <2>1, <2>2 DEF MissedInv
<1> QED
  BY InitTyped, InitFresh, NextTyped, NextFresh, NextMissed, <1>1, <1>2, PTL DEF Spec

-----------------------------------------------------------------------------
(* What an import leaves behind.                                           *)

\* The changes a file made for request q.
StoredFor(q) == {c \in changed : c.request = q /\ c.line > 0}

\* Before line l of its file, request q stored the good lines and met no fatal
\* one.
Past(q, l) ==
    \A i \in 1 .. l - 2 :
       /\ requests[q].lines[i] # "fatal"
       /\ requests[q].lines[i] = "good" => \E d \in StoredFor(q) : d.line = i + 1

\* The outcomes tell of the stored lines cs and of no others.
Tells(outcomes, cs) ==
    /\ \A o \in outcomes : o.ok => \E c \in cs : c.line = o.line /\ c.pk = o.pk
    /\ \A c \in cs : \E o \in outcomes : o.ok /\ o.line = c.line /\ o.pk = c.pk

StoredInv ==
    \A c \in changed : c.line > 0 =>
       /\ \A d \in changed : d.request = c.request /\ d.line = c.line => d = c
       /\ requests[c.request].lines[c.line - 1] = "good"
       /\ Past(c.request, c.line)

\* How far worker w got in its file.
Progress(w) ==
    LET q == tx[w].request
        l == tx[w].line
        done == StoredFor(q) \ tx[w].change
    IN /\ l >= 2 /\ Past(q, l)
       /\ \A i \in 1 .. l - 2 : \E o \in tx[w].outcomes : o.line = i + 1
       /\ \A c \in done : c.line < l
       /\ Tells(tx[w].outcomes, done)

ProgressInv == \A w \in Workers : pc[w] # "idle" /\ tx[w].line # 0 => Progress(w)

ReportInv ==
    \A p \in reports :
       /\ p.request \in Requests /\ p.request < nextRequest /\ Unserved(p.request)
       /\ Tells(p.outcomes, StoredFor(p.request))
       /\ \A i \in DOMAIN requests[p.request].lines :
             \E o \in p.outcomes : o.line = i + 1

ImportInv == StoredInv /\ ProgressInv /\ ReportInv

LEMMA ImportInvAccounts == ImportInv => ImportAccounted
<1> SUFFICES ASSUME ImportInv PROVE ImportAccounted
  OBVIOUS
<1>1. ASSUME NEW q \in Requests, NEW c \in StoredFor(q)
      PROVE  /\ \A d \in StoredFor(q) : d.line = c.line => d = c
             /\ requests[q].lines[c.line - 1] = "good"
             /\ \A i \in 1 .. c.line - 2 :
                   /\ requests[q].lines[i] # "fatal"
                   /\ requests[q].lines[i] = "good" =>
                         \E d \in StoredFor(q) : d.line = i + 1
  BY <1>1 DEF ImportInv, StoredInv, Past, StoredFor
<1>2. ASSUME NEW p \in reports
      PROVE  /\ {<<o.line, o.pk>> : o \in {u \in p.outcomes : u.ok}}
                  = {<<c.line, c.pk>> : c \in StoredFor(p.request)}
             /\ \A i \in DOMAIN requests[p.request].lines :
                   \E o \in p.outcomes : o.line = i + 1
  <2>1. Tells(p.outcomes, StoredFor(p.request))
    BY DEF ImportInv, ReportInv
  <2>2. {<<o.line, o.pk>> : o \in {u \in p.outcomes : u.ok}}
          \subseteq {<<c.line, c.pk>> : c \in StoredFor(p.request)}
    BY <2>1 DEF Tells
  <2>3. {<<c.line, c.pk>> : c \in StoredFor(p.request)}
          \subseteq {<<o.line, o.pk>> : o \in {u \in p.outcomes : u.ok}}
    BY <2>1 DEF Tells
  <2> QED BY <2>2, <2>3 DEF ImportInv, ReportInv
<1> QED BY <1>1, <1>2 DEF ImportAccounted, StoredFor

LEMMA SameStored ==
    ASSUME changed \subseteq changed', NEW q,
           \A c \in changed' : c \in changed \/ c.line = 0 \/ c.request # q
    PROVE  StoredFor(q)' = StoredFor(q)
  BY DEF StoredFor

LEMMA PastKept ==
    ASSUME changed \subseteq changed', NEW q, requests'[q] = requests[q], NEW l,
           Past(q, l)
    PROVE  Past(q, l)'
  BY DEF Past, StoredFor

\* Nothing a worker does disturbs the import of another.
LEMMA OthersProgress ==
    ASSUME Typed, ImportInv, NEW w \in Workers, Serves(w), changed \subseteq changed',
           NEW v \in Workers \ {w}, pc'[v] # "idle", tx'[v].line # 0,
           StoredFor(tx[v].request)' = StoredFor(tx[v].request)
    PROVE  Progress(v)'
<1>1. /\ pc'[v] = pc[v] /\ tx'[v] = tx[v] /\ pc[v] # "idle" /\ tx[v].line # 0
  BY DEF Serves, Only
<1>2. requests'[tx[v].request] = requests[tx[v].request]
  BY <1>1 DEF Serves, Typed, Serving
<1>3. Progress(v)
  BY <1>1 DEF ImportInv, ProgressInv
<1>4. Past(tx[v].request, tx[v].line)'
  BY <1>1, <1>2, <1>3, PastKept DEF Progress
<1> QED BY <1>1, <1>3, <1>4 DEF Progress, Tells

LEMMA ReportKept ==
    ASSUME Typed, ImportInv, NEW w \in Workers, Serves(w), NEW p \in reports,
           StoredFor(p.request)' = StoredFor(p.request),
           nextRequest' \in {nextRequest, nextRequest + 1}
    PROVE  /\ p.request \in Requests /\ p.request < nextRequest'
           /\ Unserved(p.request)' /\ Tells(p.outcomes, StoredFor(p.request))'
           /\ \A i \in DOMAIN requests'[p.request].lines :
                 \E o \in p.outcomes : o.line = i + 1
<1>1. /\ p.request \in Requests /\ p.request < nextRequest /\ Unserved(p.request)
      /\ Tells(p.outcomes, StoredFor(p.request))
      /\ \A i \in DOMAIN requests[p.request].lines :
            \E o \in p.outcomes : o.line = i + 1
  BY DEF ImportInv, ReportInv
<1>2. Unserved(p.request)' /\ requests'[p.request] = requests[p.request]
  BY <1>1, StaysUnserved DEF Serves
<1>3. p.request < nextRequest'
  BY <1>1, BoundsAssumption DEF Typed, TypeOK, Requests
<1> QED BY <1>1, <1>2, <1>3 DEF Tells

\* A step whose changes are not of a file, and whose worker is not in one
\* afterwards.
LEMMA OutsideImport ==
    ASSUME Typed, FreshInv, ImportInv, NEW w \in Workers, Serves(w),
           changed \subseteq changed',
           \A c \in changed' : c \in changed \/ c.line = 0,
           pc'[w] # "idle" => tx'[w].line = 0,
           nextRequest' \in {nextRequest, nextRequest + 1}, reports' = reports
    PROVE  ImportInv'
<1>1. \A q : StoredFor(q)' = StoredFor(q)
  BY DEF StoredFor
<1>2. StoredInv'
  <2> SUFFICES ASSUME NEW c \in changed', c.line > 0
               PROVE  /\ \A d \in changed' : d.request = c.request /\ d.line = c.line
                                               => d = c
                      /\ requests'[c.request].lines[c.line - 1] = "good"
                      /\ Past(c.request, c.line)'
    BY DEF StoredInv
  <2>1. c \in changed
    OBVIOUS
  <2>2. requests'[c.request] = requests[c.request]
    BY <2>1, Begun
  <2> QED BY <2>1, <2>2, PastKept DEF ImportInv, StoredInv
<1>3. ProgressInv'
  <2>1. ASSUME NEW v \in Workers, pc'[v] # "idle", tx'[v].line # 0
        PROVE  Progress(v)'
    <3>1. CASE v = w
      BY <2>1, <3>1
    <3>2. CASE v # w
      <4>1. v \in Workers \ {w}
        BY <3>2
      <4>2. StoredFor(tx[v].request)' = StoredFor(tx[v].request)
        BY <4>1 DEF StoredFor, Serves, Only
      <4> QED BY <2>1, <4>1, <4>2, OthersProgress
    <3> QED BY <3>1, <3>2
  <2> QED BY <2>1 DEF ProgressInv
<1>4. ReportInv'
  BY <1>1, ReportKept DEF ReportInv
<1> QED BY <1>2, <1>3, <1>4 DEF ImportInv

\* A step of worker w inside its file that stores nothing.
LEMMA InsideImport ==
    ASSUME Typed, FreshInv, ImportInv, NEW w \in Workers, Serves(w),
           changed' = changed, Progress(w)',
           nextRequest' \in {nextRequest, nextRequest + 1}, reports' = reports
    PROVE  ImportInv'
<1>1. \A q : StoredFor(q)' = StoredFor(q)
  BY DEF StoredFor
<1>2. StoredInv'
  <2>1. ASSUME NEW c \in changed, c.line > 0
        PROVE  /\ requests'[c.request].lines[c.line - 1] = "good"
               /\ Past(c.request, c.line)'
    BY <2>1, Begun, PastKept DEF ImportInv, StoredInv
  <2> QED BY <2>1 DEF ImportInv, StoredInv
<1>3. ProgressInv'
  <2>1. ASSUME NEW v \in Workers, pc'[v] # "idle", tx'[v].line # 0
        PROVE  Progress(v)'
    <3>1. CASE v = w
      BY <2>1, <3>1
    <3>2. CASE v # w
      <4>1. v \in Workers \ {w}
        BY <3>2
      <4>2. StoredFor(tx[v].request)' = StoredFor(tx[v].request)
        BY <4>1 DEF StoredFor, Serves, Only
      <4> QED BY <2>1, <4>1, <4>2, OthersProgress
    <3> QED BY <3>1, <3>2
  <2> QED BY <2>1 DEF ProgressInv
<1>4. ReportInv'
  BY <1>1, ReportKept DEF ReportInv
<1> QED BY <1>2, <1>3, <1>4 DEF ImportInv

\* A line is stored.
LEMMA StoreLineImport ==
    ASSUME Typed, FreshInv, ImportInv, NEW w \in Workers, StoreLine(w)
    PROVE  ImportInv'
<1>0. PICK q, l, c : /\ q = tx[w].request /\ l = tx[w].line
                     /\ c = ChangeBy(w, "create", nextEmployee)
  OBVIOUS
<1>1. /\ MadeBy(w, "create", nextEmployee) /\ Inserted /\ AtLine(w, "good")
      /\ requests' = requests /\ nextRequest' = nextRequest /\ reports' = reports
  BY StoreLineEffect DEF life, Inserted
<1>2. /\ pc[w] = "line" /\ pc[w] # "idle" /\ requests[q].lines[l - 1] = "good"
  BY <1>0, <1>1 DEF AtLine, LinesOf
<1>3. l # 0 /\ tx[w].change = {} /\ q \in Requests
  BY <1>0, <1>2 DEF Typed, InCourse, Courses, Pending, Sole, Serving
<1>4. /\ l \in Nat /\ l >= 2 /\ Past(q, l)
      /\ \A i \in 1 .. l - 2 : \E o \in tx[w].outcomes : o.line = i + 1
      /\ \A d \in StoredFor(q) : d.line < l
      /\ Tells(tx[w].outcomes, StoredFor(q))
  BY <1>0, <1>2, <1>3 DEF ImportInv, ProgressInv, Progress, Typed, TypeOK
<1>5. /\ Serves(w) /\ tx'[w].change = {c} /\ tx'[w].request = q /\ tx'[w].line = l
      /\ tx'[w].outcomes = tx[w].outcomes
  BY <1>0, <1>1, <1>2, MadeLocals
<1>6. changed' = changed \cup {c} /\ c.request = q /\ c.line = l
  BY <1>0, <1>1 DEF MadeBy, ChangeBy
<1>7. \A d \in changed : d.request = q => d.line # l
  BY <1>4 DEF StoredFor
<1>8. StoredInv'
  <2> SUFFICES ASSUME NEW d \in changed', d.line > 0
               PROVE  /\ \A e \in changed' : e.request = d.request /\ e.line = d.line
                                               => e = d
                      /\ requests'[d.request].lines[d.line - 1] = "good"
                      /\ Past(d.request, d.line)'
    BY DEF StoredInv
  <2>1. CASE d = c
    <3>1. Past(q, l)'
      BY <1>1, <1>4, <1>6, PastKept
    <3> QED BY <1>1, <1>2, <1>6, <1>7, <1>4, <2>1, <3>1
  <2>2. CASE d \in changed
    <3>1. /\ \A e \in changed : e.request = d.request /\ e.line = d.line => e = d
          /\ requests[d.request].lines[d.line - 1] = "good"
          /\ Past(d.request, d.line)
      BY <2>2 DEF ImportInv, StoredInv
    <3>2. Past(d.request, d.line)'
      BY <1>1, <1>6, <3>1, PastKept
    <3> QED BY <1>1, <1>6, <1>7, <2>2, <3>1, <3>2
  <2> QED BY <1>6, <2>1, <2>2
<1>9. ProgressInv'
  <2>1. Progress(w)'
    <3>1. Past(q, l)'
      BY <1>1, <1>4, <1>6, PastKept
    <3>2. StoredFor(q)' \ {c} = StoredFor(q)
      BY <1>6, <1>7 DEF StoredFor
    <3> QED BY <1>4, <1>5, <3>1, <3>2 DEF Progress, Tells
  <2>2. ASSUME NEW v \in Workers \ {w}, pc'[v] # "idle", tx'[v].line # 0
        PROVE  Progress(v)'
    <3>1. tx'[v] = tx[v] /\ pc[v] # "idle" /\ tx[v].request # q
      BY <1>0, <1>2, <1>5, <2>2 DEF Serves, Only, Typed, Serving
    <3>2. StoredFor(tx[v].request)' = StoredFor(tx[v].request)
      BY <1>6, <3>1 DEF StoredFor
    <3> QED BY <1>5, <1>6, <2>2, <3>2, OthersProgress
  <2> QED BY <2>1, <2>2 DEF ProgressInv
<1>10. ReportInv'
  <2> SUFFICES ASSUME NEW p \in reports
               PROVE  StoredFor(p.request)' = StoredFor(p.request)
    BY <1>1, <1>5, ReportKept DEF ReportInv
  <2>1. p.request # q
    BY <1>0, <1>2 DEF ImportInv, ReportInv, Unserved
  <2> QED BY <1>6, <2>1, SameStored
<1> QED BY <1>8, <1>9, <1>10 DEF ImportInv

\* A bad line, and the entry of a stored line: both have an outcome, and the
\* worker goes to the next line.
LEMMA OutcomeImport ==
    ASSUME Typed, FreshInv, ImportInv, NEW w \in Workers, Serves(w),
           NEW ok \in BOOLEAN, NEW pk \in 0 .. MaxEmployees,
           pc[w] # "idle", tx[w].line # 0, tx'[w] = Reported(w, ok, pk),
           requests' = requests, nextRequest' = nextRequest,
           changed' = changed, reports' = reports,
           \/ /\ ~ok /\ tx[w].change = {}
              /\ requests[tx[w].request].lines[tx[w].line - 1] = "bad"
           \/ /\ ok /\ \E c \in changed : /\ tx[w].change = {c} /\ c.pk = pk
                                          /\ c.request = tx[w].request
                                          /\ c.line = tx[w].line
    PROVE  ImportInv'
<1>0. PICK q, l, o : /\ q = tx[w].request /\ l = tx[w].line
                     /\ o = [line |-> tx[w].line, ok |-> ok, pk |-> pk]
  OBVIOUS
<1>1. o.line = l /\ o.ok = ok /\ o.pk = pk
  BY <1>0
<1>2. /\ tx'[w].request = q /\ tx'[w].line = l + 1 /\ tx'[w].change = {}
      /\ tx'[w].outcomes = tx[w].outcomes \cup {o}
  BY <1>0, ReportedLocal
<1>3. /\ l \in Nat /\ l >= 2 /\ Past(q, l)
      /\ \A i \in 1 .. l - 2 : \E u \in tx[w].outcomes : u.line = i + 1
      /\ \A d \in StoredFor(q) \ tx[w].change : d.line < l
      /\ Tells(tx[w].outcomes, StoredFor(q) \ tx[w].change)
  BY <1>0 DEF ImportInv, ProgressInv, Progress, Typed, TypeOK
<1>4. StoredFor(q)' = StoredFor(q)
  BY DEF StoredFor
<1>5. /\ requests[q].lines[l - 1] # "fatal"
      /\ requests[q].lines[l - 1] = "good" => \E d \in StoredFor(q) : d.line = l
  <2>1. CASE requests[q].lines[l - 1] = "bad"
    BY <2>1
  <2>2. ASSUME NEW c \in changed, c.request = q, c.line = l
        PROVE  /\ requests[q].lines[l - 1] = "good"
               /\ \E d \in StoredFor(q) : d.line = l
    BY <1>3, <2>2 DEF ImportInv, StoredInv, StoredFor
  <2> QED BY <1>0, <2>1, <2>2
<1>6. ASSUME NEW i \in 1 .. l - 1
      PROVE  /\ requests[q].lines[i] # "fatal"
             /\ requests[q].lines[i] = "good" => \E d \in StoredFor(q) : d.line = i + 1
             /\ \E u \in tx'[w].outcomes : u.line = i + 1
  <2>1. CASE i = l - 1
    BY <1>1, <1>2, <1>3, <1>5, <2>1
  <2>2. CASE i \in 1 .. l - 2
    BY <1>2, <1>3, <2>2 DEF Past
  <2> QED BY <1>3, <2>1, <2>2
<1>7. Past(q, l + 1)'
  <2>1. 1 .. (l + 1) - 2 = 1 .. l - 1
    BY <1>3
  <2> QED BY <1>4, <1>6, <2>1 DEF Past
<1>8. \A d \in StoredFor(q) : d.line < l + 1
  <2>1. \A d \in tx[w].change : d.line = l
    BY <1>0
  <2>2. \A d \in StoredFor(q) : d.line \in Nat
    BY DEF StoredFor, Typed, TypeOK, Change
  <2> QED BY <1>3, <2>1, <2>2
<1>9. Tells(tx'[w].outcomes, StoredFor(q))
  <2>1. CASE ~ok /\ tx[w].change = {}
    BY <1>1, <1>2, <1>3, <2>1 DEF Tells
  <2>2. ASSUME ok, NEW c \in changed, tx[w].change = {c}, c.pk = pk, c.request = q,
               c.line = l
        PROVE  Tells(tx'[w].outcomes, StoredFor(q))
    <3>1. StoredFor(q) = (StoredFor(q) \ tx[w].change) \cup {c}
      BY <1>3, <2>2 DEF StoredFor
    <3>2. \A u \in tx'[w].outcomes : u \in tx[w].outcomes \/ u = o
      BY <1>2
    <3>3. ASSUME NEW u \in tx'[w].outcomes, u.ok
          PROVE  \E d \in StoredFor(q) : d.line = u.line /\ d.pk = u.pk
      <4>1. CASE u = o
        <5>1. c \in StoredFor(q)
          BY <3>1
        <5> QED BY <1>1, <2>2, <4>1, <5>1
      <4>2. CASE u \in tx[w].outcomes
        <5>1. \E d \in StoredFor(q) \ tx[w].change : d.line = u.line /\ d.pk = u.pk
          BY <1>3, <3>3, <4>2 DEF Tells
        <5> QED BY <5>1
      <4> QED BY <3>2, <3>3, <4>1, <4>2
    <3>4. ASSUME NEW d \in StoredFor(q)
          PROVE  \E u \in tx'[w].outcomes : u.ok /\ u.line = d.line /\ u.pk = d.pk
      <4>1. CASE d = c
        BY <1>1, <1>2, <2>2, <4>1
      <4>2. CASE d \in StoredFor(q) \ tx[w].change
        BY <1>2, <1>3, <4>2 DEF Tells
      <4> QED BY <3>1, <4>1, <4>2
    <3> QED BY <3>3, <3>4 DEF Tells
  <2> QED BY <1>0, <2>1, <2>2
<1>10. Progress(w)'
  <2>1. l + 1 >= 2 /\ (l + 1) - 2 = l - 1
    BY <1>3
  <2>2. StoredFor(q)' \ {} = StoredFor(q)
    BY <1>4
  <2> QED BY <1>2, <1>6, <1>7, <1>8, <1>9, <2>1, <2>2 DEF Progress, Tells
<1> QED BY <1>10, InsideImport

\* The first line of data.
LEMMA BeginImportImport ==
    ASSUME Typed, FreshInv, ImportInv, NEW w \in Workers, NEW f \in Files,
           BeginImport(w, f)
    PROVE  ImportInv'
<1>0. PICK q : q = nextRequest
  OBVIOUS
<1>1. /\ Began(w, "import", TRUE, f) /\ tx'[w] = Locals(q, {}, 2)
      /\ changed' = changed /\ reports' = reports
  BY <1>0, BeginImportEffect DEF history
<1>2. /\ tx'[w].request = q /\ tx'[w].line = 2 /\ tx'[w].change = {}
      /\ tx'[w].outcomes = {}
  BY <1>1 DEF Locals
<1>3. Serves(w) /\ nextRequest' = nextRequest + 1
  BY <1>1 DEF Began, Serves
<1>4. StoredFor(q)' = {}
  BY <1>0, <1>1 DEF StoredFor, FreshInv, Typed, TypeOK, Change
<1>5. Past(q, 2)'
  BY DEF Past
<1>6. Progress(w)'
  BY <1>2, <1>4, <1>5 DEF Progress, Tells
<1> QED BY <1>1, <1>3, <1>6, InsideImport

\* A file without a required column is reported and stores nothing.
LEMMA RefuseFileImport ==
    ASSUME Typed, FreshInv, ImportInv, NEW w \in Workers, RefuseFile(w)
    PROVE  ImportInv'
<1>0. PICK q, p : /\ q = nextRequest
                  /\ p = [request |-> nextRequest,
                          outcomes |-> {[line |-> 1, ok |-> FALSE, pk |-> 0]}]
  OBVIOUS
<1>1. /\ q \in Requests /\ nextRequest' = q + 1 /\ pc' = pc /\ tx' = tx
      /\ requests'[q].lines = <<>> /\ reports' = reports \cup {p}
      /\ changed' = changed /\ p.request = q
      /\ \A o \in p.outcomes : ~o.ok
      /\ \A r \in Requests : r < nextRequest => requests'[r] = requests[r]
  BY <1>0, RefuseFileEffect
<1>2. Serves(w)
  BY <1>1 DEF Serves, Only, RefuseFile, Start
<1>3. \A r : StoredFor(r)' = StoredFor(r)
  BY <1>1 DEF StoredFor
<1>4. StoredInv'
  <2>1. ASSUME NEW c \in changed, c.line > 0
        PROVE  /\ requests'[c.request].lines[c.line - 1] = "good"
               /\ Past(c.request, c.line)'
    BY <1>1, <1>2, <2>1, Begun, PastKept DEF ImportInv, StoredInv
  <2> QED BY <1>1, <2>1 DEF ImportInv, StoredInv
<1>5. ProgressInv'
  <2> SUFFICES ASSUME NEW v \in Workers, pc[v] # "idle", tx[v].line # 0
               PROVE  Progress(v)'
    BY <1>1 DEF ProgressInv
  <2>1. Progress(v) /\ requests'[tx[v].request] = requests[tx[v].request]
    BY <1>1 DEF ImportInv, ProgressInv, Typed, Serving
  <2>2. Past(tx[v].request, tx[v].line)'
    BY <1>1, <2>1, PastKept DEF Progress
  <2> QED BY <1>1, <2>1, <2>2 DEF Progress, Tells, StoredFor
<1>6. ReportInv'
  <2>1. StoredFor(q) = {} /\ q < nextRequest'
    BY <1>0, <1>1 DEF StoredFor, FreshInv, Typed, TypeOK, Change, Requests
  <2>2. Tells(p.outcomes, StoredFor(q))
    BY <1>1, <2>1 DEF Tells
  <2>3. Unserved(q)'
    BY <1>0, <1>1 DEF Unserved, Typed, Serving, Requests
  <2>4. Tells(p.outcomes, StoredFor(q))'
    BY <1>3, <2>2 DEF Tells
  <2>5. ASSUME NEW r \in reports
        PROVE  /\ r.request \in Requests /\ r.request < nextRequest'
               /\ Unserved(r.request)' /\ Tells(r.outcomes, StoredFor(r.request))'
               /\ \A i \in DOMAIN requests'[r.request].lines :
                     \E o \in r.outcomes : o.line = i + 1
    BY <1>0, <1>1, <1>2, <1>3, ReportKept
  <2> QED BY <1>1, <2>1, <2>3, <2>4, <2>5 DEF ReportInv
<1> QED BY <1>4, <1>5, <1>6 DEF ImportInv

\* The end of a file.
LEMMA FinishImportImport ==
    ASSUME Typed, FreshInv, ImportInv, NEW w \in Workers, FinishImport(w)
    PROVE  ImportInv'
<1>0. PICK q, l, p : /\ q = tx[w].request /\ l = tx[w].line
                     /\ p = [request |-> tx[w].request, outcomes |-> tx[w].outcomes]
  OBVIOUS
<1>1. /\ Serves(w) /\ pc'[w] = "idle" /\ UNCHANGED <<changed, requests, nextRequest>>
  BY QuitsEffect DEF Serves
<1>2. /\ pc[w] = "line" /\ l > Len(requests[q].lines) + 1
      /\ reports' = reports \cup {p}
      /\ p.request = q /\ p.outcomes = tx[w].outcomes
  BY <1>0 DEF FinishImport, LinesOf
<1>3. tx[w].change = {} /\ l # 0 /\ q \in Requests /\ q < nextRequest /\ l \in Nat
  BY <1>0, <1>2
     DEF Typed, InCourse, Courses, Pending, Sole, Serving, TypeOK
<1>4. /\ \A i \in 1 .. l - 2 : \E o \in tx[w].outcomes : o.line = i + 1
      /\ Tells(tx[w].outcomes, StoredFor(q))
  BY <1>0, <1>2, <1>3 DEF ImportInv, ProgressInv, Progress
<1>5. \A r : StoredFor(r)' = StoredFor(r)
  BY <1>1 DEF StoredFor
<1>6. StoredInv'
  <2>1. ASSUME NEW c \in changed, c.line > 0
        PROVE  Past(c.request, c.line)'
    BY <1>1, <2>1, PastKept DEF ImportInv, StoredInv
  <2> QED BY <1>1, <2>1 DEF ImportInv, StoredInv
<1>7. ProgressInv'
  <2>1. ASSUME NEW v \in Workers, pc'[v] # "idle", tx'[v].line # 0
        PROVE  Progress(v)'
    <3>1. v \in Workers \ {w}
      BY <1>1, <2>1
    <3>2. StoredFor(tx[v].request)' = StoredFor(tx[v].request)
      BY <1>1, <3>1 DEF StoredFor, Serves, Only
    <3> QED BY <1>1, <2>1, <3>1, <3>2, OthersProgress
  <2> QED BY <2>1 DEF ProgressInv
<1>8. ReportInv'
  <2>1. \A i \in DOMAIN requests[q].lines : i \in 1 .. l - 2
    <3>1. requests[q].lines \in Seq(LineKinds)
      <4>1. requests[q].lines \in Files \cup {<<>>}
        BY <1>3 DEF Typed, TypeOK
      <4>2. <<>> \in Seq(LineKinds)
        OBVIOUS
      <4> QED BY <4>1, <4>2, FilesAssumption
    <3>2. /\ DOMAIN requests[q].lines = 1 .. Len(requests[q].lines)
          /\ Len(requests[q].lines) \in Nat
      BY <3>1
    <3> QED BY <1>2, <1>3, <3>2
  <2>2. Unserved(q)'
    BY <1>0, <1>1, <1>2 DEF Unserved, Serves, Only, Typed, Serving
  <2>3. Tells(p.outcomes, StoredFor(q))'
    BY <1>2, <1>4, <1>5 DEF Tells
  <2>4. ASSUME NEW r \in reports
        PROVE  /\ r.request \in Requests /\ r.request < nextRequest'
               /\ Unserved(r.request)' /\ Tells(r.outcomes, StoredFor(r.request))'
               /\ \A i \in DOMAIN requests'[r.request].lines :
                     \E o \in r.outcomes : o.line = i + 1
    BY <1>1, <1>5, ReportKept
  <2> QED BY <1>1, <1>2, <1>3, <1>4, <2>1, <2>2, <2>3, <2>4 DEF ReportInv
<1> QED BY <1>6, <1>7, <1>8 DEF ImportInv

LEMMA BeginImports ==
    ASSUME Typed, FreshInv, ImportInv, NEW w \in Workers, Begin(w)
    PROVE  ImportInv'
<1>1. CASE CreateEmployee(w)
  <2>1. PICK c : /\ Began(w, "create", TRUE, <<>>) /\ Inserted
                 /\ changed' = changed \cup {c} /\ c.line = 0
                 /\ tx'[w] = [Locals(nextRequest, {}, 0) EXCEPT !.change = {c}]
    BY <1>1, CreateEffect
  <2>2. tx'[w].line = 0
    BY <2>1 DEF Locals
  <2>3. Serves(w) /\ nextRequest' = nextRequest + 1 /\ reports' = reports
    BY <2>1 DEF Began, Serves, Inserted
  <2> QED BY <2>1, <2>2, <2>3, OutsideImport
<1>2. ASSUME NEW x \in staff,
             \/ LoadToEdit(w, x) \/ LoadToDelete(w, x) \/ LoadForPortal(w, x)
             \/ \E b \in BOOLEAN : LoadInAdmin(w, x, b)
      PROVE  ImportInv'
  <2>1. /\ Serves(w) /\ tx'[w] = Locals(nextRequest, {x}, 0)
        /\ nextRequest' = nextRequest + 1 /\ UNCHANGED history
    BY <1>2, LoadEffect DEF Began, Serves
  <2>2. tx'[w].line = 0
    BY <2>1 DEF Locals
  <2> QED BY <2>1, <2>2, OutsideImport DEF history
<1>3. ASSUME NEW u \in users, NEW b \in BOOLEAN, AdminDeleteUser(w, u, b)
      PROVE  ImportInv'
  <2>1. /\ pc'[w] = "idle" /\ nextRequest' = nextRequest + 1 /\ reports' = reports
        /\ changed \subseteq changed' /\ \A c \in changed' : c \in changed \/ c.line = 0
    BY <1>3, DeleteUserEffect
  <2>2. Serves(w)
    BY <1>3, DeleteUserEffect DEF Serves, Only
  <2> QED BY <2>1, <2>2, OutsideImport
<1> QED BY <1>1, <1>2, <1>3, BeginImportImport, RefuseFileImport DEF Begin

LEMMA ProceedImports ==
    ASSUME Typed, FreshInv, TrueInv, ImportInv, NEW w \in Workers,
           Proceed(w) \/ Crash(w)
    PROVE  ImportInv'
<1>1. ASSUME NEW action, NEW pk, MadeBy(w, action, pk), UNCHANGED <<life, reports>>,
             pc[w] \in {"save", "reinsert", "link"}
      PROVE  ImportInv'
  <2>1. tx[w].line = 0
    BY <1>1 DEF Typed, InCourse, Courses
  <2>2. /\ Serves(w) /\ tx'[w].line = 0
        /\ \A c \in changed' : c \in changed \/ c.line = 0
        /\ changed \subseteq changed' /\ nextRequest' = nextRequest
    BY <1>1, <2>1, MadeLocals DEF MadeBy, ChangeBy, life
  <2> QED BY <1>1, <2>2, OutsideImport
<1>2. ASSUME Only(w), pc'[w] = "idle", UNCHANGED <<life, reports>>,
             changed \subseteq changed',
             \A c \in changed' : c \in changed \/ c.line = 0
      PROVE  ImportInv'
  <2>1. Serves(w) /\ nextRequest' = nextRequest
    BY <1>2 DEF Serves, life
  <2> QED BY <1>2, <2>1, OutsideImport
<1>3. CASE SaveEdit(w) \/ Reinsert(w)
  <2>1. PICK x \in Edited(w), action \in {"create", "update"} :
           /\ MadeBy(w, action, x.pk) /\ pc[w] \in {"save", "reinsert"}
           /\ UNCHANGED <<life, reports>>
    BY <1>3, SaveEffect
  <2> QED BY <1>1, <2>1
<1>4. CASE LinkUser(w)
  <2>1. PICK x \in Linked(w) : /\ MadeBy(w, "update", x.pk) /\ pc[w] = "link"
                               /\ UNCHANGED <<life, reports>>
    BY <1>4, LinkEffect
  <2> QED BY <1>1, <2>1
<1>5. CASE AdminSave(w)
  <2>1. PICK c \in Change :
           /\ Only(w) /\ pc'[w] = "idle" /\ c.line = 0
           /\ changed' = changed \cup {c} /\ UNCHANGED <<life, reports>>
    BY <1>5, AdminSaveEffect
  <2> QED BY <1>2, <2>1
<1>6. CASE DeleteEmployee(w)
  <2>1. PICK c \in Change, x \in tx[w].row :
           /\ Only(w) /\ pc'[w] = "idle" /\ c.line = 0
           /\ changed' = changed \cup {d \in {c} : Stored(x.pk)}
           /\ UNCHANGED <<life, reports>>
    BY <1>6, DeleteEffect
  <2> QED BY <1>2, <2>1
<1>7. CASE Record(w)
  <2>1. PICK c \in tx[w].change :
           /\ Only(w) /\ pc[w] = "record" /\ c \in Change
           /\ \/ pc'[w] = "idle"
              \/ tx'[w] = Reported(w, TRUE, c.pk) /\ tx[w].line # 0
           /\ UNCHANGED <<life, history>>
    BY <1>7, RecordEffect
  <2>2. CASE pc'[w] = "idle"
    BY <1>2, <2>1, <2>2 DEF history
  <2>3. CASE tx'[w] = Reported(w, TRUE, c.pk) /\ tx[w].line # 0
    <3>1. /\ c \in changed /\ tx[w].change = {c} /\ c.request = tx[w].request
          /\ c.line = tx[w].line
      BY <2>1 DEF TrueInv, Typed, Pending, Sole
    <3>2. c.pk \in 0 .. MaxEmployees /\ TRUE \in BOOLEAN
      BY <2>1 DEF Change
    <3>3. tx'[w].request = tx[w].request
      BY <2>1, <2>3, <3>2, ReportedLocal
    <3>4. Serves(w) /\ requests' = requests /\ nextRequest' = nextRequest
          /\ changed' = changed /\ reports' = reports
      BY <2>1, <3>3 DEF Serves, life, history
    <3> QED BY <2>1, <2>3, <3>1, <3>2, <3>4, OutcomeImport
  <2> QED BY <2>1, <2>2, <2>3
<1>8. CASE RefuseLine(w)
  <2>1. /\ Only(w) /\ tx'[w] = Reported(w, FALSE, 0) /\ tx[w].line # 0
        /\ pc[w] = "line" /\ UNCHANGED <<life, history>>
        /\ requests[tx[w].request].lines[tx[w].line - 1] = "bad"
    BY <1>8, RefuseLineEffect DEF RefuseLine, AtLine, LinesOf
  <2>2. 0 \in 0 .. MaxEmployees /\ FALSE \in BOOLEAN
    BY BoundsAssumption
  <2>3. tx'[w].request = tx[w].request
    BY <2>1, <2>2, ReportedLocal
  <2>4. /\ Serves(w) /\ tx[w].change = {}
        /\ requests' = requests /\ nextRequest' = nextRequest
        /\ changed' = changed /\ reports' = reports
    BY <2>1, <2>3 DEF Serves, life, history, Typed, Pending, Sole
  <2> QED BY <2>1, <2>2, <2>4, OutcomeImport
<1>9. CASE CreateUser(w)
  <2>1. /\ Only(w) /\ tx'[w] = [tx[w] EXCEPT !.user = nextUser] /\ pc[w] = "user"
        /\ UNCHANGED <<life, history>>
    BY <1>9, CreateUserEffect
  <2>2. tx'[w].request = tx[w].request /\ tx'[w].line = tx[w].line
    BY <2>1 DEF Typed, TypeOK, Locals
  <2>3. tx[w].line = 0
    BY <2>1 DEF Typed, InCourse, Courses
  <2>4. Serves(w) /\ nextRequest' = nextRequest
    BY <2>1, <2>2 DEF Serves, life
  <2> QED BY <2>1, <2>2, <2>3, <2>4, OutsideImport DEF history
<1>10. CASE MissRow(w)
  <2>1. /\ Serves(w) /\ tx' = tx /\ pc[w] = "save" /\ nextRequest' = nextRequest
        /\ UNCHANGED history
    BY <1>10, MissRowEffect DEF Serves, life
  <2>2. tx[w].line = 0
    BY <2>1 DEF Typed, InCourse, Courses
  <2> QED BY <2>1, <2>2, OutsideImport DEF history
<1>11. CASE \/ StatementFails(w) \/ Decline(w) \/ UserExists(w) \/ FailLine(w)
            \/ Crash(w)
  <2>1. Only(w) /\ pc'[w] = "idle" /\ changed' = changed
    BY <1>11, QuitsEffect
  <2>2. UNCHANGED <<life, reports>>
    BY <1>11 DEF StatementFails, Decline, UserExists, FailLine, Crash, Break, history
  <2> QED BY <1>2, <2>1, <2>2
<1> QED
  BY <1>3, <1>4, <1>5, <1>6, <1>7, <1>8, <1>9, <1>10, <1>11, StoreLineImport,
     FinishImportImport DEF Proceed

LEMMA NextImports ==
    Typed /\ FreshInv /\ TrueInv /\ ImportInv /\ [Next]_vars => ImportInv'
<1> SUFFICES ASSUME Typed, FreshInv, TrueInv, ImportInv, [Next]_vars PROVE ImportInv'
  OBVIOUS
<1>1. CASE UNCHANGED <<pc, tx, life, history>>
  <2>1. /\ pc' = pc /\ tx' = tx /\ nextRequest' = nextRequest /\ requests' = requests
        /\ changed' = changed /\ reports' = reports
    BY <1>1 DEF life, history
  <2>2. StoredInv' = StoredInv
    BY <2>1 DEF StoredInv, Past, StoredFor
  <2>3. ProgressInv' = ProgressInv
    BY <2>1 DEF ProgressInv, Progress, Past, StoredFor, Tells
  <2>4. ReportInv' = ReportInv
    BY <2>1 DEF ReportInv, Unserved, StoredFor, Tells
  <2> QED BY <2>2, <2>3, <2>4 DEF ImportInv
<1>2. (\E a \in Emails : AdminCreateUser(a)) => UNCHANGED <<pc, tx, life, history>>
  BY DEF AdminCreateUser
<1>3. UNCHANGED vars => UNCHANGED <<pc, tx, life, history>>
  BY DEF vars
<1> QED BY <1>1, <1>2, <1>3, BeginImports, ProceedImports DEF Next

\* What an import stored is the good lines up to where it got, each once, and a
\* report names exactly the employees its file created.
THEOREM SpecImportAccounted == Spec => []ImportAccounted
<1>1. Init => ImportInv
  BY DEF Init, ImportInv, StoredInv, ProgressInv, ReportInv
<1>2. Init => TrueInv
  BY DEF Init, TrueInv, EntriesTrue, Idle, Locals
<1> QED
  BY InitTyped, InitFresh, NextTyped, NextFresh, NextTrue, NextImports,
     ImportInvAccounts, <1>1, <1>2, PTL DEF Spec
=============================================================================
