----------------------- MODULE EmployeeRecords_proofs -----------------------
(***************************************************************************)
(* Theorems about EmployeeRecords, for any number of employees, accounts,  *)
(* workers, requests and files.                                            *)
(***************************************************************************)
EXTENDS EmployeeRecords, FiniteSetTheorems, TLAPS

Local == [request : 0 .. MaxRequests, row : SUBSET Row, user : 0 .. MaxUsers,
          line : Nat, outcomes : SUBSET Outcome, change : SUBSET Change]

\* A worker under way serves a request that has begun, and no other worker
\* serves it.
Serving ==
    /\ \A w \in Workers : pc[w] # "idle" =>
          tx[w].request \in Requests /\ tx[w].request < nextRequest
    /\ \A v, w \in Workers :
          pc[v] # "idle" /\ pc[w] # "idle" /\ tx[v].request = tx[w].request => v = w

\* The steps each kind of request can be at.
Courses == {<<"create", "record">>,
            <<"edit", "save">>, <<"edit", "reinsert">>, <<"edit", "record">>,
            <<"delete", "remove">>,
            <<"portal", "user">>, <<"portal", "link">>, <<"portal", "record">>,
            <<"import", "line">>, <<"import", "record">>,
            <<"admin", "change">>}

\* Only an import is at a line of a file.
InCourse ==
    \A w \in Workers : pc[w] # "idle" =>
       /\ <<requests[tx[w].request].kind, pc[w]>> \in Courses
       /\ tx[w].line # 0 <=> requests[tx[w].request].kind = "import"

\* Only an employee with an address gets a portal account.
Addressed ==
    \A w \in Workers : pc[w] = "user" => \A x \in tx[w].row : x.email \in Emails

\* A change whose entry is not written yet is its request's own, and only one.
Sole(t, step) ==
    \A c \in t.change :
       /\ step = "record" /\ c.request = t.request /\ c.line = t.line
       /\ c.action # "delete"
       /\ \A d \in t.change : d = c
Pending == \A w \in Workers : Sole(tx[w], pc[w])

Typed == TypeOK /\ Serving /\ InCourse /\ Addressed /\ Pending

-----------------------------------------------------------------------------
LEMMA InitTyped == Init => Typed
<1> SUFFICES ASSUME Init PROVE Typed
  OBVIOUS
<1> USE BoundsAssumption, EmailsAssumption DEF Init
<1>1. ASSUME NEW email \in [1 .. nextEmployee - 1 -> NewEmails],
             staff = {[pk |-> k, email |-> email[k], user |-> 0] : k \in DOMAIN email}
      PROVE  staff \subseteq Row
  <2>1. ASSUME NEW k \in DOMAIN email
        PROVE  [pk |-> k, email |-> email[k], user |-> 0] \in Row
    BY <2>1 DEF Row, Addresses
  <2> QED BY <1>1, <2>1
<1>2. tx \in [Workers -> Local]
  <2>1. Idle \in Local
    BY DEF Idle, Locals, Local
  <2> QED BY <2>1
<1>3. TypeOK
  BY <1>1, <1>2 DEF TypeOK, Local, Steps, Kinds, Requests
<1>4. Serving /\ InCourse /\ Addressed /\ Pending
  BY DEF Serving, InCourse, Addressed, Pending, Sole, Idle, Locals
<1> QED BY <1>3, <1>4 DEF Typed

\* Worker w's program counter and locals change, the others' do not.
Only(w) == \A v \in Workers \ {w} : pc'[v] = pc[v] /\ tx'[v] = tx[v]

LEMMA EndEffect ==
    ASSUME TypeOK, NEW w \in Workers, End(w)
    PROVE  /\ Only(w) /\ pc'[w] = "idle" /\ tx'[w] = Idle
           /\ pc' \in [Workers -> Steps] /\ tx' \in [Workers -> Local]
<1>1. Idle \in Local
  BY BoundsAssumption DEF Idle, Locals, Local
<1> QED
  BY <1>1 DEF TypeOK, End, Goto, Only, Local, Steps

\* An end of a request keeps the typing.
LEMMA EndTyped ==
    ASSUME Typed, NEW w \in Workers, End(w), UNCHANGED life,
           staff' \subseteq Row, users' \subseteq User, entries' \subseteq Change,
           changed' \subseteq Change, broken' \subseteq Requests,
           reports' \subseteq [request : Requests, outcomes : SUBSET Outcome],
           UNCHANGED sequences
    PROVE  Typed' /\ Only(w) /\ pc'[w] = "idle" /\ tx'[w] = Idle
<1>1. /\ Only(w) /\ pc'[w] = "idle" /\ tx'[w] = Idle
      /\ pc' \in [Workers -> Steps] /\ tx' \in [Workers -> Local]
  BY EndEffect DEF Typed
<1>2. TypeOK'
  BY <1>1 DEF Typed, TypeOK, Local, life, sequences
<1>3. Serving'
  BY <1>1 DEF Typed, Serving, Only, life
<1>4. InCourse'
  BY <1>1 DEF Typed, InCourse, Only, life
<1>5. Addressed'
  BY <1>1 DEF Typed, Addressed, Only
<1>6. Pending'
  BY <1>1 DEF Typed, Pending, Sole, Only, Idle, Locals
<1> QED BY <1>1, <1>2, <1>3, <1>4, <1>5, <1>6 DEF Typed

\* A request that begins is served by its worker alone.
LEMMA StartTyped ==
    ASSUME Typed, NEW w \in Workers, NEW kind \in Kinds, NEW tenant \in BOOLEAN,
           NEW lines \in Files \cup {<<>>}, Start(w, kind, tenant, lines)
    PROVE  /\ nextRequest \in Requests /\ nextRequest' \in 1 .. MaxRequests + 1
           /\ nextRequest' = nextRequest + 1
           /\ requests' \in [Requests -> [kind : Kinds, tenant : BOOLEAN,
                                          lines : Files \cup {<<>>}]]
           /\ \A r \in Requests : r < nextRequest => requests'[r] = requests[r]
           /\ requests'[nextRequest] = [kind |-> kind, tenant |-> tenant,
                                        lines |-> lines]
           /\ pc[w] = "idle"
  BY BoundsAssumption DEF Typed, TypeOK, Start, Requests

\* A request that begins keeps the typing, whatever its first step.
LEMMA BegunTyped ==
    ASSUME Typed, NEW w \in Workers, NEW kind \in Kinds, NEW tenant \in BOOLEAN,
           NEW lines \in Files \cup {<<>>}, Start(w, kind, tenant, lines),
           NEW t \in Local, NEW step \in Steps,
           t.request = nextRequest, t.line # 0 <=> kind = "import",
           <<kind, step>> \in Courses,
           step = "user" => \A x \in t.row : x.email \in Emails,
           Sole(t, step),
           tx' = [tx EXCEPT ![w] = t], Goto(w, step),
           staff' \subseteq Row, entries' = entries, changed' \subseteq Change,
           nextEmployee' \in 1 .. MaxEmployees + 1,
           UNCHANGED <<users, nextUser, broken, reports>>
    PROVE  Typed' /\ Only(w) /\ pc'[w] = step /\ tx'[w] = t
<1>1. /\ Only(w) /\ pc'[w] = step /\ tx'[w] = t
      /\ pc' \in [Workers -> Steps] /\ tx' \in [Workers -> Local]
  BY DEF Typed, TypeOK, Goto, Only, Local
<1>2. /\ nextRequest \in Requests /\ nextRequest' \in 1 .. MaxRequests + 1
      /\ nextRequest' = nextRequest + 1
      /\ requests' \in [Requests -> [kind : Kinds, tenant : BOOLEAN,
                                     lines : Files \cup {<<>>}]]
      /\ \A r \in Requests : r < nextRequest => requests'[r] = requests[r]
      /\ requests'[nextRequest] = [kind |-> kind, tenant |-> tenant,
                                   lines |-> lines]
  BY StartTyped
<1>3. TypeOK'
  BY <1>1, <1>2 DEF Typed, TypeOK, Local
<1>4. Serving'
  <2>1. ASSUME NEW v \in Workers \ {w}, pc'[v] # "idle"
        PROVE  /\ pc[v] # "idle" /\ tx'[v].request = tx[v].request
               /\ tx[v].request \in Requests /\ tx[v].request < nextRequest
    <3>1. Serving
      BY DEF Typed
    <3>2. pc'[v] = pc[v] /\ tx'[v] = tx[v]
      BY <1>1 DEF Only
    <3> QED BY <2>1, <3>1, <3>2 DEF Serving
  <2>2. tx'[w].request = nextRequest
    BY <1>1
  <2> QED
    BY <1>2, <2>1, <2>2, BoundsAssumption DEF Typed, Serving, Requests
<1>5. InCourse'
  <2>1. ASSUME NEW v \in Workers \ {w}, pc'[v] # "idle"
        PROVE  /\ pc[v] # "idle" /\ pc'[v] = pc[v] /\ tx'[v] = tx[v]
               /\ requests'[tx'[v].request] = requests[tx[v].request]
    <3>1. pc[v] # "idle" /\ pc'[v] = pc[v] /\ tx'[v] = tx[v]
      BY <1>1, <2>1 DEF Only
    <3>2. tx[v].request \in Requests /\ tx[v].request < nextRequest
      BY <3>1 DEF Typed, Serving
    <3>3. \A r \in Requests : r < nextRequest => requests'[r] = requests[r]
      BY <1>2
    <3> QED BY <3>1, <3>2, <3>3
  <2>2. requests'[tx'[w].request].kind = kind
    BY <1>1, <1>2
  <2>3. InCourse
    BY DEF Typed
  <2>4. pc'[w] = step /\ tx'[w] = t
    BY <1>1
  <2> QED BY <2>1, <2>2, <2>3, <2>4 DEF InCourse
<1>6. Addressed'
  BY <1>1 DEF Typed, Addressed, Only
<1>7. Pending'
  BY <1>1 DEF Typed, Pending, Sole, Only
<1> QED BY <1>1, <1>3, <1>4, <1>5, <1>6, <1>7 DEF Typed

\* What a request that begins by loading employee x leaves.
LEMMA LoadTyped ==
    ASSUME Typed, NEW w \in Workers, NEW x \in staff, NEW kind \in Kinds \ {"import"},
           NEW tenant \in BOOLEAN, NEW step \in Steps,
           Load(w, x, kind, tenant, step), <<kind, step>> \in Courses, step = "user" => x.email \in Emails
    PROVE  /\ Typed' /\ Only(w) /\ pc'[w] = step
           /\ tx'[w] = Locals(nextRequest, {x}, 0)
           /\ UNCHANGED <<rows, sequences, history>>
<1>1. nextRequest \in Requests /\ Start(w, kind, tenant, <<>>)
  BY StartTyped DEF Load
<1>2. {x} \in SUBSET Row
  BY DEF Typed, TypeOK
<1> DEFINE t == Locals(nextRequest, {x}, 0)
<1>3. t \in Local /\ t.request = nextRequest /\ t.row = {x} /\ t.line = 0
      /\ Sole(t, step)
  BY <1>1, <1>2, BoundsAssumption DEF Locals, Local, Requests, Sole
<1>4. tx' = [tx EXCEPT ![w] = t] /\ Goto(w, step)
  BY DEF Load
<1>5. /\ staff' = staff /\ users' = users /\ entries' = entries
      /\ nextEmployee' = nextEmployee /\ nextUser' = nextUser
      /\ changed' = changed /\ broken' = broken /\ reports' = reports
  BY DEF Load, rows, sequences, history
<1> HIDE DEF t
<1>6. /\ staff' \subseteq Row /\ changed' \subseteq Change
      /\ nextEmployee' \in 1 .. MaxEmployees + 1
  BY <1>5 DEF Typed, TypeOK
<1>7. Typed' /\ Only(w) /\ pc'[w] = step /\ tx'[w] = t
  BY <1>1, <1>3, <1>4, <1>5, <1>6, BegunTyped
<1> QED BY <1>5, <1>7 DEF t, rows, sequences, history

-----------------------------------------------------------------------------
(* Typing, and what each action does to its worker.                        *)

\* A change of row pk by the request worker w serves, and the state after a
\* statement made it in autocommit.
ChangeBy(w, action, pk) ==
    [request |-> tx[w].request, line |-> tx[w].line, action |-> action, pk |-> pk]
MadeBy(w, action, pk) ==
    /\ Only(w) /\ pc'[w] = "record"
    /\ changed' = changed \cup {ChangeBy(w, action, pk)}
    /\ tx'[w] = [tx[w] EXCEPT !.change = {ChangeBy(w, action, pk)}]

\* A change made by a request under way.
LEMMA MadeTyped ==
    ASSUME Typed, NEW w \in Workers, pc[w] # "idle",
           <<requests[tx[w].request].kind, "record">> \in Courses,
           NEW action \in {"create", "update"}, NEW pk \in 1 .. MaxEmployees,
           Made(w, tx[w], action, pk),
           UNCHANGED life, staff' \subseteq Row,
           nextEmployee' \in 1 .. MaxEmployees + 1,
           UNCHANGED <<users, entries, nextUser, broken, reports>>
    PROVE  Typed' /\ MadeBy(w, action, pk)
<1> DEFINE c == [request |-> tx[w].request, line |-> tx[w].line, action |-> action,
                 pk |-> pk]
           t == [tx[w] EXCEPT !.change = {c}]
<1>1. tx[w] \in Local /\ tx[w].request \in Requests
  BY DEF Typed, TypeOK, Serving, Local
<1>2. c \in Change
  BY <1>1 DEF Local, Change
<1>3. /\ t \in Local /\ t.request = tx[w].request /\ t.line = tx[w].line
      /\ t.change = {c}
  BY <1>1, <1>2 DEF Local
<1>4. c.request = tx[w].request /\ c.line = tx[w].line /\ c.action # "delete"
  OBVIOUS
<1>5. changed' = changed \cup {c} /\ tx' = [tx EXCEPT ![w] = t] /\ Goto(w, "record")
  BY DEF Made
<1> HIDE DEF c, t
<1>6. /\ Only(w) /\ pc'[w] = "record" /\ tx'[w] = t
      /\ pc' \in [Workers -> Steps] /\ tx' \in [Workers -> Local]
  BY <1>3, <1>5 DEF Typed, TypeOK, Goto, Only, Local, Steps
<1>7. TypeOK'
  BY <1>2, <1>5, <1>6 DEF Typed, TypeOK, Local, life
<1>8. Serving'
  BY <1>3, <1>6 DEF Typed, Serving, Only, life
<1>9. InCourse'
  BY <1>3, <1>6 DEF Typed, InCourse, Only, life
<1>10. Addressed'
  BY <1>6 DEF Typed, Addressed, Only
<1>11. Pending'
  BY <1>3, <1>4, <1>6 DEF Typed, Pending, Sole, Only
<1> QED BY <1>5, <1>6, <1>7, <1>8, <1>9, <1>10, <1>11 DEF Typed, MadeBy, ChangeBy, c, t

LEMMA WithTyped ==
    ASSUME Typed, NEW x \in Row
    PROVE  With(x) \subseteq Row /\ x \in With(x)
  BY DEF Typed, TypeOK, With

\* A worker that goes to another step without a change of its locals.
LEMMA GotoTyped ==
    ASSUME Typed, NEW w \in Workers, pc[w] # "idle",
           NEW step \in Steps \ {"idle", "user"}, pc[w] # "record",
           <<requests[tx[w].request].kind, step>> \in Courses,
           Goto(w, step), UNCHANGED <<rows, sequences, tx, life, history>>
    PROVE  Typed' /\ Only(w) /\ pc'[w] = step /\ tx'[w] = tx[w]
<1>1. Only(w) /\ pc'[w] = step /\ tx' = tx /\ pc' \in [Workers -> Steps]
  BY DEF Typed, TypeOK, Goto, Only
<1>2. TypeOK'
  BY <1>1 DEF Typed, TypeOK, rows, sequences, life, history
<1>3. Serving'
  BY <1>1 DEF Typed, Serving, Only, life
<1>4. InCourse'
  BY <1>1 DEF Typed, InCourse, Only, life
<1>5. Addressed'
  BY <1>1 DEF Typed, Addressed, Only
<1>6. Pending'
  BY <1>1 DEF Typed, Pending, Sole, Only
<1> QED BY <1>1, <1>2, <1>3, <1>4, <1>5, <1>6 DEF Typed

\* A request under way goes on, with other locals.
LEMMA ProceedTyped ==
    ASSUME Typed, NEW w \in Workers, pc[w] # "idle", Only(w),
           pc' \in [Workers -> Steps], tx' \in [Workers -> Local],
           pc'[w] \notin {"idle", "user"},
           <<requests[tx[w].request].kind, pc'[w]>> \in Courses,
           tx'[w].request = tx[w].request, tx'[w].change = {},
           tx'[w].line # 0 <=> tx[w].line # 0,
           UNCHANGED <<life, staff, sequences, history>>,
           users' \subseteq User, entries' \subseteq Change
    PROVE  Typed'
<1>1. TypeOK'
  BY DEF Typed, TypeOK, Local, life, sequences, history
<1>2. Serving'
  BY DEF Typed, Serving, Only, life
<1>3. ASSUME NEW v \in Workers, pc'[v] # "idle"
      PROVE  /\ <<requests'[tx'[v].request].kind, pc'[v]>> \in Courses
             /\ tx'[v].line # 0 <=> requests'[tx'[v].request].kind = "import"
  <2>1. requests' = requests
    BY DEF life
  <2>2. CASE v = w
    BY <2>1, <2>2 DEF Typed, InCourse
  <2>3. CASE v # w
    BY <1>3, <2>1, <2>3 DEF Typed, InCourse, Only
  <2> QED BY <2>2, <2>3
<1>4. Addressed'
  BY DEF Typed, Addressed, Only
<1>5. Pending'
  BY DEF Typed, Pending, Sole, Only
<1> QED BY <1>1, <1>2, <1>3, <1>4, <1>5 DEF Typed, InCourse

\* The end of a request that leaves the rows alone.
LEMMA QuitEffect ==
    ASSUME Typed, NEW w \in Workers, pc[w] # "idle",
           Decline(w) \/ UserExists(w) \/ Break(w) \/ FinishImport(w)
    PROVE  /\ Typed' /\ Only(w) /\ pc'[w] = "idle" /\ tx'[w] = Idle
           /\ UNCHANGED <<staff, users, entries, changed, nextEmployee, nextUser,
                          requests, nextRequest>>
<1>1. /\ End(w)
      /\ UNCHANGED <<staff, users, entries, changed, nextEmployee, nextUser,
                     requests, nextRequest>>
  BY DEF Decline, UserExists, Break, FinishImport, rows, sequences, life, history
<1>2. tx[w] \in Local /\ tx[w].request \in Requests
  BY DEF Typed, TypeOK, Serving, Local
<1>3. broken' \subseteq Requests
  BY <1>2 DEF Typed, TypeOK, Decline, UserExists, Break, FinishImport, history
<1>4. reports' \subseteq [request : Requests, outcomes : SUBSET Outcome]
  <2>1. [request |-> tx[w].request, outcomes |-> tx[w].outcomes]
           \in [request : Requests, outcomes : SUBSET Outcome]
    BY <1>2 DEF Local
  <2> QED
    BY <2>1 DEF Typed, TypeOK, Decline, UserExists, Break, FinishImport, history
<1>5. /\ staff' \subseteq Row /\ users' \subseteq User /\ entries' \subseteq Change
      /\ changed' \subseteq Change
  BY <1>1 DEF Typed, TypeOK
<1>6. UNCHANGED life /\ UNCHANGED sequences
  BY <1>1 DEF life, sequences
<1> QED BY <1>1, <1>3, <1>4, <1>5, <1>6, EndTyped

\* The actions that only end a request.
LEMMA QuitsEffect ==
    ASSUME Typed, NEW w \in Workers,
           \/ StatementFails(w) \/ Decline(w) \/ UserExists(w) \/ FailLine(w)
           \/ FinishImport(w) \/ Crash(w)
    PROVE  /\ Typed' /\ Only(w) /\ pc'[w] = "idle" /\ tx'[w] = Idle /\ pc[w] # "idle"
           /\ UNCHANGED <<staff, users, entries, changed, nextEmployee, nextUser,
                          requests, nextRequest>>
<1>1. pc[w] # "idle"
  BY DEF StatementFails, Decline, UserExists, FailLine, FinishImport, Crash, AtLine
<1>2. Decline(w) \/ UserExists(w) \/ Break(w) \/ FinishImport(w)
  BY DEF StatementFails, FailLine, Crash
<1> QED BY <1>1, <1>2, QuitEffect

LEMMA ReportedLocal ==
    ASSUME Typed, NEW w \in Workers, NEW ok \in BOOLEAN, NEW pk \in 0 .. MaxEmployees,
           pc[w] # "idle", tx[w].line # 0
    PROVE  LET t == Reported(w, ok, pk)
           IN /\ t \in Local /\ t.request = tx[w].request /\ t.row = tx[w].row
              /\ t.line = tx[w].line + 1 /\ t.change = {} /\ t.line # 0
              /\ t.outcomes = tx[w].outcomes \cup
                   {[line |-> tx[w].line, ok |-> ok, pk |-> pk]}
<1>1. tx[w] \in Local
  BY DEF Typed, TypeOK, Local
<1>2. [line |-> tx[w].line, ok |-> ok, pk |-> pk] \in Outcome
  BY <1>1 DEF Local, Outcome
<1> DEFINE o == tx[w].outcomes \cup {[line |-> tx[w].line, ok |-> ok, pk |-> pk]}
           n == tx[w].line + 1
           t1 == [tx[w] EXCEPT !.line = n]
           t2 == [t1 EXCEPT !.change = {}]
           t3 == [t2 EXCEPT !.outcomes = o]
<1>3. Reported(w, ok, pk) = t3
  BY DEF Reported
<1>4. o \in SUBSET Outcome /\ n \in Nat /\ n # 0 /\ {} \in SUBSET Change
  BY <1>1, <1>2 DEF Local
<1> HIDE DEF o, n
<1>5. t1 \in Local /\ t1.request = tx[w].request /\ t1.row = tx[w].row /\ t1.line = n
      /\ t1.outcomes = tx[w].outcomes
  BY <1>1, <1>4 DEF Local
<1> HIDE DEF t1
<1>6. t2 \in Local /\ t2.request = tx[w].request /\ t2.row = tx[w].row /\ t2.line = n
      /\ t2.change = {}
  BY <1>4, <1>5 DEF Local
<1> HIDE DEF t2
<1>7. t3 \in Local /\ t3.request = tx[w].request /\ t3.row = tx[w].row /\ t3.line = n
      /\ t3.change = {} /\ t3.outcomes = o
  BY <1>4, <1>6 DEF Local
<1> HIDE DEF t3
<1> QED BY <1>3, <1>4, <1>7 DEF o, n

\* A bad line of a file.
LEMMA RefuseLineEffect ==
    ASSUME Typed, NEW w \in Workers, RefuseLine(w)
    PROVE  /\ Typed' /\ Only(w) /\ pc' = pc
           /\ tx'[w] = Reported(w, FALSE, 0) /\ tx[w].line # 0
<1>1. pc[w] = "line" /\ tx' = [tx EXCEPT ![w] = Reported(w, FALSE, 0)]
  BY DEF RefuseLine, AtLine
<1>2. tx[w].line # 0 /\ <<requests[tx[w].request].kind, "line">> \in Courses
  BY <1>1 DEF Typed, InCourse, Courses
<1>3. Reported(w, FALSE, 0) \in Local
      /\ Reported(w, FALSE, 0).request = tx[w].request
      /\ Reported(w, FALSE, 0).line # 0 /\ Reported(w, FALSE, 0).change = {}
  <2>1. pc[w] # "idle" /\ 0 \in 0 .. MaxEmployees
    BY <1>1, BoundsAssumption
  <2> QED BY <1>2, <2>1, ReportedLocal
<1> DEFINE t == Reported(w, FALSE, 0)
<1> HIDE DEF t
<1>4. /\ Only(w) /\ pc' = pc /\ tx'[w] = t
      /\ pc' \in [Workers -> Steps] /\ tx' \in [Workers -> Local]
  <2>0. TypeOK
    BY DEF Typed
  <2>1. tx \in [Workers -> Local] /\ pc \in [Workers -> Steps]
    BY <2>0 DEF TypeOK, Local
  <2>2. pc' = pc
    BY DEF RefuseLine
  <2>3. t \in Local /\ tx' = [tx EXCEPT ![w] = t]
    BY <1>1, <1>3 DEF t
  <2> QED BY <2>1, <2>2, <2>3 DEF Only
<1>5. /\ UNCHANGED <<life, staff, sequences, history>>
      /\ users' \subseteq User /\ entries' \subseteq Change
  BY DEF RefuseLine, Typed, TypeOK, rows
<1>6. tx'[w].request = tx[w].request /\ tx'[w].change = {} /\ (tx'[w].line # 0 <=> tx[w].line # 0)
  BY <1>2, <1>3, <1>4 DEF t
<1>7. Typed'
  BY <1>1, <1>2, <1>4, <1>5, <1>6, ProceedTyped
<1> QED BY <1>2, <1>4, <1>7 DEF t

\* A request under way made a change of the rows and stored row x: the
\* staff's edit, and the link of a portal account.
LEMMA SaveEffect ==
    ASSUME Typed, NEW w \in Workers, SaveEdit(w) \/ Reinsert(w)
    PROVE  \E x \in Edited(w), action \in {"create", "update"} :
              /\ Typed' /\ MadeBy(w, action, x.pk)
              /\ x \in Row /\ CanStore(x) /\ staff' = With(x)
              /\ action = "create" => ~Stored(x.pk)
              /\ UNCHANGED <<users, entries, sequences, life, broken, reports>>
              /\ pc[w] \in {"save", "reinsert"}
<1>1. PICK x \in Edited(w), action \in {"create", "update"} :
         /\ CanStore(x) /\ staff' = With(x) /\ Made(w, tx[w], action, x.pk)
         /\ action = "create" => ~Stored(x.pk)
         /\ UNCHANGED <<users, entries, sequences, life, broken, reports>>
  BY DEF SaveEdit, Reinsert
<1>2. x \in Row /\ x.pk \in 1 .. MaxEmployees
  <2>1. PICK y \in tx[w].row, a \in EditEmails : x = [y EXCEPT !.email = a]
    BY DEF Edited
  <2>2. y \in Row /\ a \in Addresses
    BY EmailsAssumption DEF Typed, TypeOK
  <2> QED BY <2>1, <2>2 DEF Row
<1>3. staff' \subseteq Row
  BY <1>1, <1>2, WithTyped
<1>4. pc[w] \in {"save", "reinsert"}
      /\ <<requests[tx[w].request].kind, "record">> \in Courses
  BY DEF SaveEdit, Reinsert, Typed, InCourse, Courses
<1>5. /\ UNCHANGED <<life, users, entries, nextUser, broken, reports>>
      /\ nextEmployee' \in 1 .. MaxEmployees + 1
  BY <1>1 DEF sequences, Typed, TypeOK
<1>6. Typed' /\ MadeBy(w, action, x.pk)
  <2>1. pc[w] # "idle" /\ action \in {"create", "update"}
    BY <1>4
  <2> QED BY <1>1, <1>2, <1>3, <1>4, <1>5, <2>1, MadeTyped
<1> QED BY <1>1, <1>2, <1>4, <1>6

LEMMA LinkEffect ==
    ASSUME Typed, NEW w \in Workers, LinkUser(w)
    PROVE  \E x \in Linked(w) :
              /\ Typed' /\ MadeBy(w, "update", x.pk)
              /\ x \in Row /\ CanStore(x) /\ staff' = With(x) /\ Stored(x.pk)
              /\ UNCHANGED <<users, entries, sequences, life, broken, reports>>
              /\ pc[w] = "link"
<1>1. PICK x \in Linked(w) :
         /\ CanStore(x) /\ staff' = With(x) /\ Made(w, tx[w], "update", x.pk)
         /\ UNCHANGED <<users, entries, sequences, life, broken, reports>>
  BY DEF LinkUser
<1>2. x \in Row /\ x.pk \in 1 .. MaxEmployees /\ Stored(x.pk)
  <2>1. PICK y \in staff : x = [y EXCEPT !.user = tx[w].user]
    BY DEF Linked
  <2>2. y \in Row /\ tx[w].user \in 0 .. MaxUsers
    BY DEF Typed, TypeOK
  <2>3. x \in Row /\ x.pk = y.pk
    BY <2>1, <2>2 DEF Row
  <2> QED BY <2>3 DEF Row, Stored
<1>3. staff' \subseteq Row
  BY <1>1, <1>2, WithTyped
<1>4. pc[w] = "link" /\ <<requests[tx[w].request].kind, "record">> \in Courses
  BY DEF LinkUser, Typed, InCourse, Courses
<1>5. /\ UNCHANGED <<life, users, entries, nextUser, broken, reports>>
      /\ nextEmployee' \in 1 .. MaxEmployees + 1
  BY <1>1 DEF sequences, Typed, TypeOK
<1>6. Typed' /\ MadeBy(w, "update", x.pk)
  <2>1. pc[w] # "idle" /\ "update" \in {"create", "update"}
    BY <1>4
  <2> QED BY <1>1, <1>2, <1>3, <1>4, <1>5, <2>1, MadeTyped
<1> QED BY <1>1, <1>2, <1>4, <1>6

\* A row that is inserted under the next key.
Inserted ==
    /\ nextEmployee \in 1 .. MaxEmployees /\ nextEmployee' = nextEmployee + 1
    /\ \E a \in NewEmails :
          staff' = staff \cup {[pk |-> nextEmployee, email |-> a, user |-> 0]}
    /\ UNCHANGED <<users, entries, nextUser, broken, reports>>

LEMMA InsertTyped ==
    ASSUME Typed, NEW w \in Workers, NEW t, Insert(w, t)
    PROVE  /\ Inserted /\ staff' \subseteq Row
           /\ nextEmployee' \in 1 .. MaxEmployees + 1
           /\ Made(w, t, "create", nextEmployee)
<1>1. nextEmployee \in 1 .. MaxEmployees /\ nextEmployee' = nextEmployee + 1
  BY BoundsAssumption DEF Insert, Typed, TypeOK
<1>2. PICK a \in NewEmails :
         staff' = staff \cup {[pk |-> nextEmployee, email |-> a, user |-> 0]}
  BY DEF Insert
<1>3. [pk |-> nextEmployee, email |-> a, user |-> 0] \in Row
  BY <1>1, EmailsAssumption, BoundsAssumption DEF Row
<1> QED BY <1>1, <1>2, <1>3, BoundsAssumption DEF Insert, Inserted, Typed, TypeOK

LEMMA StoreLineEffect ==
    ASSUME Typed, NEW w \in Workers, StoreLine(w)
    PROVE  /\ Typed' /\ MadeBy(w, "create", nextEmployee) /\ Inserted
           /\ AtLine(w, "good") /\ UNCHANGED life
<1>1. AtLine(w, "good") /\ UNCHANGED life
  BY DEF StoreLine
<1>2. /\ Inserted /\ staff' \subseteq Row /\ nextEmployee' \in 1 .. MaxEmployees + 1
      /\ Made(w, tx[w], "create", nextEmployee)
  BY InsertTyped DEF StoreLine
<1>3. pc[w] # "idle" /\ <<requests[tx[w].request].kind, "record">> \in Courses
  BY <1>1 DEF AtLine, Typed, InCourse, Courses
<1>4. /\ nextEmployee \in 1 .. MaxEmployees
      /\ UNCHANGED <<users, entries, nextUser, broken, reports>>
      /\ "create" \in {"create", "update"}
  BY <1>2 DEF Inserted
<1>5. Typed' /\ MadeBy(w, "create", nextEmployee)
  BY <1>1, <1>2, <1>3, <1>4, MadeTyped
<1> QED BY <1>1, <1>2, <1>5

\* Worker w begins request nextRequest.
Began(w, kind, tenant, lines) ==
    /\ pc[w] = "idle" /\ Only(w) /\ tx'[w].request = nextRequest
    /\ nextRequest \in Requests /\ nextRequest' = nextRequest + 1
    /\ \A r \in Requests : r < nextRequest => requests'[r] = requests[r]
    /\ requests'[nextRequest] = [kind |-> kind, tenant |-> tenant, lines |-> lines]

LEMMA CreateEffect ==
    ASSUME Typed, NEW w \in Workers, CreateEmployee(w)
    PROVE  LET c == [request |-> nextRequest, line |-> 0, action |-> "create",
                     pk |-> nextEmployee]
           IN /\ Typed' /\ Began(w, "create", TRUE, <<>>) /\ Inserted
              /\ changed' = changed \cup {c} /\ pc'[w] = "record"
              /\ tx'[w] = [Locals(nextRequest, {}, 0) EXCEPT !.change = {c}]
<1> DEFINE c == [request |-> nextRequest, line |-> 0, action |-> "create",
                 pk |-> nextEmployee]
           t0 == Locals(nextRequest, {}, 0)
           t == [t0 EXCEPT !.change = {c}]
<1>0. /\ Start(w, "create", TRUE, <<>>)
      /\ "create" \in Kinds /\ TRUE \in BOOLEAN /\ <<>> \in Files \cup {<<>>}
  BY DEF CreateEmployee, Kinds
<1>1. /\ pc[w] = "idle"
      /\ nextRequest \in Requests /\ nextRequest' = nextRequest + 1
      /\ \A r \in Requests : r < nextRequest => requests'[r] = requests[r]
      /\ requests'[nextRequest] = [kind |-> "create", tenant |-> TRUE, lines |-> <<>>]
      /\ Start(w, "create", TRUE, <<>>)
  BY <1>0, StartTyped
<1>2. /\ Inserted /\ staff' \subseteq Row /\ nextEmployee' \in 1 .. MaxEmployees + 1
      /\ Made(w, t0, "create", nextEmployee)
  BY InsertTyped DEF CreateEmployee
<1>3. t0 \in Local /\ t0.request = nextRequest /\ t0.line = 0
  BY <1>1, BoundsAssumption DEF Locals, Local, Requests
<1>4. c \in Change
  BY <1>1, <1>2 DEF Inserted, Change
<1>5. changed' = changed \cup {c} /\ tx' = [tx EXCEPT ![w] = t] /\ Goto(w, "record")
  BY <1>2, <1>3 DEF Made
<1> HIDE DEF t0
<1>6. t \in Local /\ t.request = nextRequest /\ t.line = 0 /\ t.change = {c}
      /\ c.request = nextRequest /\ c.line = 0 /\ c.action # "delete"
  BY <1>3, <1>4 DEF Local
<1>7. Sole(t, "record")
  BY <1>6 DEF Sole
<1> HIDE DEF t, c
<1>8. Typed' /\ Only(w) /\ pc'[w] = "record" /\ tx'[w] = t
  <2>1. changed' \subseteq Change
    BY <1>4, <1>5 DEF Typed, TypeOK
  <2>2. /\ "create" \in Kinds /\ TRUE \in BOOLEAN /\ "record" \in Steps
        /\ <<"create", "record">> \in Courses
    BY DEF Kinds, Steps, Courses
  <2>3. UNCHANGED <<users, entries, nextUser, broken, reports>>
    BY <1>2 DEF Inserted
  <2> QED BY <1>1, <1>2, <1>5, <1>6, <1>7, <2>1, <2>2, <2>3, BegunTyped
<1> QED BY <1>1, <1>2, <1>5, <1>6, <1>8 DEF Began, t, t0, c

\* Deletion, and the audit entry with it.
LEMMA DeleteEffect ==
    ASSUME Typed, NEW w \in Workers, DeleteEmployee(w)
    PROVE  \E x \in tx[w].row :
              LET c == [request |-> tx[w].request, line |-> 0, action |-> "delete",
                        pk |-> x.pk]
              IN /\ Typed' /\ Only(w) /\ pc'[w] = "idle" /\ tx'[w] = Idle
                 /\ pc[w] \in {"remove", "change"} /\ c \in Change
                 /\ staff' = {y \in staff : y.pk # x.pk}
                 /\ entries' = entries \cup Recorded(c)
                 /\ changed' = changed \cup {d \in {c} : Stored(x.pk)}
                 /\ UNCHANGED <<users, sequences, life, broken, reports>>
<1>1. PICK x \in tx[w].row :
         LET c == [request |-> tx[w].request, line |-> 0, action |-> "delete",
                   pk |-> x.pk]
         IN /\ staff' = {y \in staff : y.pk # x.pk}
            /\ entries' = entries \cup Recorded(c)
            /\ changed' = changed \cup {d \in {c} : Stored(x.pk)}
  BY DEF DeleteEmployee
<1> DEFINE c == [request |-> tx[w].request, line |-> 0, action |-> "delete",
                 pk |-> x.pk]
<1>2. /\ pc[w] \in {"remove", "change"} /\ End(w)
      /\ UNCHANGED <<users, sequences, life, broken, reports>>
  BY DEF DeleteEmployee
<1>3. c \in Change
  BY <1>2 DEF Typed, TypeOK, Serving, Row, Change
<1> HIDE DEF c
<1>4. /\ staff' \subseteq Row /\ users' \subseteq User /\ entries' \subseteq Change
      /\ changed' \subseteq Change /\ broken' \subseteq Requests
      /\ reports' \subseteq [request : Requests, outcomes : SUBSET Outcome]
  BY <1>1, <1>2, <1>3 DEF Typed, TypeOK, Recorded, c
<1>5. Typed' /\ Only(w) /\ pc'[w] = "idle" /\ tx'[w] = Idle
  BY <1>2, <1>4, EndTyped
<1> QED BY <1>1, <1>2, <1>3, <1>5 DEF c

LEMMA AdminSaveEffect ==
    ASSUME Typed, NEW w \in Workers, AdminSave(w)
    PROVE  \E x \in tx[w].row, y \in Row, action \in {"create", "update"} :
              LET c == [request |-> tx[w].request, line |-> 0, action |-> action,
                        pk |-> x.pk]
              IN /\ Typed' /\ Only(w) /\ pc'[w] = "idle" /\ tx'[w] = Idle
                 /\ pc[w] = "change" /\ c \in Change
                 /\ y.pk = x.pk /\ CanStore(y) /\ staff' = With(y)
                 /\ entries' = entries \cup Recorded(c)
                 /\ changed' = changed \cup {c}
                 /\ UNCHANGED <<users, sequences, life, broken, reports>>
<1>1. PICK x \in tx[w].row, a \in EditEmails, u \in 0 .. MaxUsers :
         LET y == [pk |-> x.pk, email |-> a, user |-> u]
             c == [request |-> tx[w].request, line |-> 0, pk |-> x.pk,
                   action |-> IF Stored(x.pk) THEN "update" ELSE "create"]
         IN /\ CanStore(y) /\ staff' = With(y)
            /\ entries' = entries \cup Recorded(c)
            /\ changed' = changed \cup {c}
  BY DEF AdminSave
<1> DEFINE y == [pk |-> x.pk, email |-> a, user |-> u]
           action == IF Stored(x.pk) THEN "update" ELSE "create"
           c == [request |-> tx[w].request, line |-> 0, action |-> action,
                 pk |-> x.pk]
<1>2. /\ pc[w] = "change" /\ End(w)
      /\ UNCHANGED <<users, sequences, life, broken, reports>>
  BY DEF AdminSave
<1>3. x \in Row /\ x.pk \in 1 .. MaxEmployees
  BY DEF Typed, TypeOK, Row
<1>4. y \in Row /\ y.pk = x.pk
  BY <1>3, EmailsAssumption DEF Row
<1>5. action \in {"create", "update"}
  OBVIOUS
<1>6. /\ CanStore(y) /\ staff' = With(y)
      /\ entries' = entries \cup Recorded(c) /\ changed' = changed \cup {c}
  BY <1>1
<1> HIDE DEF y, action
<1>7. c \in Change
  BY <1>2, <1>3, <1>5 DEF Typed, Serving, Change
<1> HIDE DEF c
<1>8. /\ staff' \subseteq Row /\ users' \subseteq User /\ entries' \subseteq Change
      /\ changed' \subseteq Change /\ broken' \subseteq Requests
      /\ reports' \subseteq [request : Requests, outcomes : SUBSET Outcome]
  BY <1>2, <1>4, <1>6, <1>7, WithTyped DEF Typed, TypeOK, Recorded
<1>9. Typed' /\ Only(w) /\ pc'[w] = "idle" /\ tx'[w] = Idle
  BY <1>2, <1>8, EndTyped
<1> QED BY <1>2, <1>4, <1>5, <1>6, <1>7, <1>9 DEF c

\* The audit entry of a change, after which an import goes on and any other
\* request ends.
LEMMA RecordEffect ==
    ASSUME Typed, NEW w \in Workers, Record(w)
    PROVE  \E c \in tx[w].change :
              /\ Typed' /\ Only(w) /\ pc[w] = "record" /\ c \in Change
              /\ entries' = entries \cup Recorded(c)
              /\ \/ pc'[w] = "idle" /\ tx'[w] = Idle
                 \/ /\ pc'[w] = "line" /\ tx'[w] = Reported(w, TRUE, c.pk)
                    /\ tx[w].line # 0 /\ requests[c.request].kind = "import"
              /\ UNCHANGED <<staff, users, sequences, life, history>>
<1>1. PICK c \in tx[w].change :
         /\ entries' = entries \cup Recorded(c)
         /\ IF requests[c.request].kind = "import"
            THEN /\ tx' = [tx EXCEPT ![w] = Reported(w, TRUE, c.pk)]
                 /\ Goto(w, "line")
            ELSE End(w)
  BY DEF Record
<1>2. pc[w] = "record" /\ UNCHANGED <<staff, users, sequences, life, history>>
  BY DEF Record
<1>3. c \in Change
  BY DEF Typed, TypeOK
<1>4. /\ staff' \subseteq Row /\ users' \subseteq User /\ entries' \subseteq Change
      /\ changed' \subseteq Change /\ broken' \subseteq Requests
      /\ reports' \subseteq [request : Requests, outcomes : SUBSET Outcome]
  BY <1>1, <1>2, <1>3 DEF Typed, TypeOK, Recorded, history
<1>5. CASE requests[c.request].kind # "import"
  <2>1. Typed' /\ Only(w) /\ pc'[w] = "idle" /\ tx'[w] = Idle
    BY <1>1, <1>2, <1>4, <1>5, EndTyped
  <2> QED BY <1>1, <1>2, <1>3, <2>1
<1>6. CASE requests[c.request].kind = "import"
  <2> DEFINE t == Reported(w, TRUE, c.pk)
  <2> HIDE DEF t
  <2>1. tx' = [tx EXCEPT ![w] = t] /\ Goto(w, "line")
    BY <1>1, <1>6 DEF t
  <2>2. /\ pc[w] # "idle" /\ tx[w].line # 0
        /\ requests[tx[w].request].kind = "import"
        /\ c.pk \in 0 .. MaxEmployees
    <3>1. pc[w] # "idle" /\ c.request = tx[w].request
      BY <1>2 DEF Typed, Pending, Sole
    <3>2. c.pk \in 0 .. MaxEmployees
      BY <1>3 DEF Change
    <3>3. requests[tx[w].request].kind = "import"
      BY <1>6, <3>1
    <3> QED BY <3>1, <3>2, <3>3 DEF Typed, InCourse
  <2>3. t \in Local /\ t.request = tx[w].request /\ t.line # 0 /\ t.change = {}
    BY <2>2, ReportedLocal DEF t
  <2>4. /\ Only(w) /\ pc'[w] = "line" /\ tx'[w] = t
        /\ pc' \in [Workers -> Steps] /\ tx' \in [Workers -> Local]
    BY <2>1, <2>3 DEF Typed, TypeOK, Goto, Only, Local, Steps
  <2>5. <<requests[tx[w].request].kind, pc'[w]>> \in Courses
    BY <2>2, <2>4 DEF Courses
  <2>6. /\ pc'[w] \notin {"idle", "user"} /\ tx'[w].request = tx[w].request
        /\ tx'[w].change = {} /\ (tx'[w].line # 0 <=> tx[w].line # 0)
    BY <2>2, <2>3, <2>4
  <2>7. Typed'
    BY <1>2, <1>4, <2>2, <2>4, <2>5, <2>6, ProceedTyped
  <2> QED BY <1>1, <1>2, <1>3, <1>6, <2>2, <2>4, <2>7 DEF t
<1> QED BY <1>5, <1>6

LEMMA CreateUserEffect ==
    ASSUME Typed, NEW w \in Workers, CreateUser(w)
    PROVE  \E x \in tx[w].row :
              /\ Typed' /\ Only(w) /\ pc[w] = "user" /\ pc'[w] = "link"
              /\ tx'[w] = [tx[w] EXCEPT !.user = nextUser]
              /\ nextUser \in 1 .. MaxUsers /\ nextUser' = nextUser + 1
              /\ x.email \in Emails /\ ~Taken(x.email)
              /\ users' = users \cup {[pk |-> nextUser, email |-> Address(x.email)]}
              /\ UNCHANGED <<staff, entries, nextEmployee, life, history>>
<1>1. PICK x \in tx[w].row :
         /\ ~Taken(x.email)
         /\ users' = users \cup {[pk |-> nextUser, email |-> Address(x.email)]}
  BY DEF CreateUser
<1>2. /\ pc[w] = "user" /\ nextUser \in 1 .. MaxUsers /\ nextUser' = nextUser + 1
      /\ UNCHANGED <<staff, entries, nextEmployee, life, history>>
  BY BoundsAssumption DEF CreateUser, Typed, TypeOK
<1>3. x.email \in Emails /\ Address(x.email) \in Emails
  BY <1>2, EmailsAssumption DEF Typed, Addressed, Address
<1>4. users' \subseteq User
  BY <1>1, <1>2, <1>3 DEF Typed, TypeOK, User
<1> DEFINE t == [tx[w] EXCEPT !.user = nextUser]
<1>5. /\ t \in Local /\ t.request = tx[w].request /\ t.line = tx[w].line
      /\ t.change = tx[w].change
  <2>1. tx[w] \in Local /\ nextUser \in 0 .. MaxUsers
    BY <1>2 DEF Typed, TypeOK, Local
  <2> QED BY <2>1 DEF Local
<1>6. tx' = [tx EXCEPT ![w] = t] /\ Goto(w, "link")
  BY DEF CreateUser, Typed, TypeOK
<1> HIDE DEF t
<1>7. /\ Only(w) /\ pc'[w] = "link" /\ tx'[w] = t
      /\ pc' \in [Workers -> Steps] /\ tx' \in [Workers -> Local]
  BY <1>5, <1>6 DEF Typed, TypeOK, Goto, Only, Local, Steps
<1>8. TypeOK'
  <2>1. /\ staff' = staff /\ entries' = entries /\ nextEmployee' = nextEmployee
        /\ nextRequest' = nextRequest /\ requests' = requests
        /\ changed' = changed /\ broken' = broken /\ reports' = reports
        /\ nextUser' \in 1 .. MaxUsers + 1
    BY <1>2, BoundsAssumption DEF life, history
  <2> QED BY <1>4, <1>7, <2>1 DEF Typed, TypeOK, Local
<1>9. Serving'
  BY <1>2, <1>5, <1>7 DEF Typed, Serving, Only, life
<1>10. InCourse'
  BY <1>2, <1>5, <1>7 DEF Typed, InCourse, Only, life, Courses
<1>11. Addressed' /\ Pending'
  BY <1>2, <1>5, <1>7 DEF Typed, Addressed, Pending, Sole, Only
<1> QED BY <1>1, <1>2, <1>3, <1>7, <1>8, <1>9, <1>10, <1>11 DEF Typed, t

LEMMA MissRowEffect ==
    ASSUME Typed, NEW w \in Workers, MissRow(w)
    PROVE  /\ Typed' /\ Only(w) /\ pc[w] = "save" /\ pc'[w] = "reinsert"
           /\ tx'[w] = tx[w] /\ UNCHANGED <<rows, sequences, tx, life, history>>
<1>1. /\ pc[w] = "save" /\ Goto(w, "reinsert")
      /\ UNCHANGED <<rows, sequences, tx, life, history>>
  BY DEF MissRow
<1>2. <<requests[tx[w].request].kind, "reinsert">> \in Courses
      /\ "reinsert" \in Steps \ {"idle", "user"}
  BY <1>1 DEF Typed, InCourse, Courses, Steps
<1> QED BY <1>1, <1>2, GotoTyped

\* The requests that begin by loading an employee.
LEMMA LoadEffect ==
    ASSUME Typed, NEW w \in Workers, NEW x \in staff,
           \/ LoadToEdit(w, x) \/ LoadToDelete(w, x) \/ LoadForPortal(w, x)
           \/ \E b \in BOOLEAN : LoadInAdmin(w, x, b)
    PROVE  \E kind \in Kinds \ {"import"}, tenant \in BOOLEAN,
              step \in {"save", "remove", "user", "change"} :
              /\ Typed' /\ Began(w, kind, tenant, <<>>)
              /\ pc'[w] = step /\ tx'[w] = Locals(nextRequest, {x}, 0)
              /\ step = "user" => x.user = 0
              /\ UNCHANGED <<rows, sequences, history>>
<1>1. PICK kind \in Kinds \ {"import"}, tenant \in BOOLEAN,
           step \in {"save", "remove", "user", "change"} :
         /\ Load(w, x, kind, tenant, step) /\ <<kind, step>> \in Courses
         /\ step = "user" => x.user = 0 /\ x.email # NoEmail
  BY DEF LoadToEdit, LoadToDelete, LoadForPortal, LoadInAdmin, Kinds, Courses
<1>2. step = "user" => x.email \in Emails
  BY <1>1 DEF Typed, TypeOK, Row, Addresses
<1>3. step \in Steps
  BY DEF Steps
<1>4. /\ Typed' /\ Only(w) /\ pc'[w] = step
      /\ tx'[w] = Locals(nextRequest, {x}, 0)
      /\ UNCHANGED <<rows, sequences, history>>
  BY <1>1, <1>2, <1>3, LoadTyped
<1>5. /\ pc[w] = "idle"
      /\ nextRequest \in Requests /\ nextRequest' = nextRequest + 1
      /\ \A r \in Requests : r < nextRequest => requests'[r] = requests[r]
      /\ requests'[nextRequest] = [kind |-> kind, tenant |-> tenant, lines |-> <<>>]
  BY <1>1, StartTyped DEF Load
<1> QED BY <1>1, <1>4, <1>5 DEF Began, Locals

LEMMA BeginImportEffect ==
    ASSUME Typed, NEW w \in Workers, NEW f \in Files, BeginImport(w, f)
    PROVE  /\ Typed' /\ Began(w, "import", TRUE, f)
           /\ pc'[w] = "line" /\ tx'[w] = Locals(nextRequest, {}, 2)
           /\ UNCHANGED <<rows, sequences, history>>
<1>0. /\ Start(w, "import", TRUE, f)
      /\ "import" \in Kinds /\ TRUE \in BOOLEAN /\ f \in Files \cup {<<>>}
  BY DEF BeginImport, Kinds
<1>1. /\ pc[w] = "idle"
      /\ nextRequest \in Requests /\ nextRequest' = nextRequest + 1
      /\ \A r \in Requests : r < nextRequest => requests'[r] = requests[r]
      /\ requests'[nextRequest] = [kind |-> "import", tenant |-> TRUE, lines |-> f]
      /\ Start(w, "import", TRUE, f)
  BY <1>0, StartTyped
<1> DEFINE t == Locals(nextRequest, {}, 2)
<1>2. t \in Local /\ t.request = nextRequest /\ t.row = {} /\ t.line = 2
      /\ Sole(t, "line")
  BY <1>1, BoundsAssumption DEF Locals, Local, Requests, Sole
<1>3. tx' = [tx EXCEPT ![w] = t] /\ Goto(w, "line")
      /\ UNCHANGED <<rows, sequences, history>>
  BY DEF BeginImport
<1> HIDE DEF t
<1>4. /\ staff' \subseteq Row /\ changed' \subseteq Change /\ entries' = entries
      /\ nextEmployee' \in 1 .. MaxEmployees + 1
      /\ UNCHANGED <<users, nextUser, broken, reports>>
  BY <1>3 DEF rows, sequences, history, Typed, TypeOK
<1>5. /\ "import" \in Kinds /\ TRUE \in BOOLEAN /\ "line" \in Steps
      /\ <<"import", "line">> \in Courses /\ f \in Files \cup {<<>>}
  BY DEF Kinds, Steps, Courses
<1>6. Typed' /\ Only(w) /\ pc'[w] = "line" /\ tx'[w] = t
  <2>1. /\ t.line # 0 <=> "import" = "import"
        /\ "line" = "user" => \A x \in t.row : x.email \in Emails
    BY <1>2
  <2> QED BY <1>1, <1>2, <1>3, <1>4, <1>5, <2>1, BegunTyped
<1> QED BY <1>1, <1>2, <1>3, <1>6 DEF Began, t

\* A file without a required column is answered in the same request.
LEMMA RefuseFileEffect ==
    ASSUME Typed, NEW w \in Workers, RefuseFile(w)
    PROVE  /\ Typed'
           /\ nextRequest \in Requests /\ nextRequest' = nextRequest + 1
           /\ \A r \in Requests : r < nextRequest => requests'[r] = requests[r]
           /\ requests'[nextRequest] = [kind |-> "import", tenant |-> TRUE,
                                        lines |-> <<>>]
           /\ reports' = reports \cup
                {[request |-> nextRequest,
                  outcomes |-> {[line |-> 1, ok |-> FALSE, pk |-> 0]}]}
           /\ UNCHANGED <<rows, sequences, pc, tx, changed, broken>>
<1>1. /\ nextRequest \in Requests /\ nextRequest' = nextRequest + 1
      /\ nextRequest' \in 1 .. MaxRequests + 1
      /\ requests' \in [Requests -> [kind : Kinds, tenant : BOOLEAN,
                                     lines : Files \cup {<<>>}]]
      /\ \A r \in Requests : r < nextRequest => requests'[r] = requests[r]
      /\ requests'[nextRequest] = [kind |-> "import", tenant |-> TRUE, lines |-> <<>>]
  <2>1. /\ Start(w, "import", TRUE, <<>>)
        /\ "import" \in Kinds /\ TRUE \in BOOLEAN /\ <<>> \in Files \cup {<<>>}
    BY DEF RefuseFile, Kinds
  <2> QED BY <2>1, StartTyped
<1>2. /\ reports' = reports \cup
           {[request |-> nextRequest,
             outcomes |-> {[line |-> 1, ok |-> FALSE, pk |-> 0]}]}
      /\ UNCHANGED <<rows, sequences, pc, tx, changed, broken>>
  BY DEF RefuseFile
<1>3. [line |-> 1, ok |-> FALSE, pk |-> 0] \in Outcome
  BY BoundsAssumption DEF Outcome
<1>4. TypeOK'
  <2>1. reports' \subseteq [request : Requests, outcomes : SUBSET Outcome]
    <3>1. [request |-> nextRequest,
           outcomes |-> {[line |-> 1, ok |-> FALSE, pk |-> 0]}]
             \in [request : Requests, outcomes : SUBSET Outcome]
      BY <1>1, <1>3
    <3> QED BY <1>2, <3>1 DEF Typed, TypeOK
  <2>2. /\ staff' = staff /\ users' = users /\ entries' = entries
        /\ nextEmployee' = nextEmployee /\ nextUser' = nextUser
        /\ pc' = pc /\ tx' = tx /\ changed' = changed /\ broken' = broken
    BY <1>2 DEF rows, sequences
  <2> QED BY <1>1, <2>1, <2>2 DEF Typed, TypeOK
<1>5. ASSUME NEW v \in Workers, pc[v] # "idle"
      PROVE  /\ tx[v].request \in Requests /\ tx[v].request < nextRequest
             /\ requests'[tx[v].request] = requests[tx[v].request]
  BY <1>1, <1>5 DEF Typed, Serving
<1>6. Serving'
  BY <1>1, <1>2, <1>5 DEF Typed, Serving, Requests
<1>7. InCourse'
  BY <1>2, <1>5 DEF Typed, InCourse
<1>8. Addressed' /\ Pending'
  BY <1>2 DEF Typed, Addressed, Pending
<1> QED BY <1>1, <1>2, <1>4, <1>6, <1>7, <1>8 DEF Typed

\* The deletion of an account, one request and one transaction, changes rows
\* without an entry.
LEMMA DeleteUserEffect ==
    ASSUME Typed, NEW w \in Workers, NEW u \in users, NEW tenant \in BOOLEAN,
           AdminDeleteUser(w, u, tenant)
    PROVE  /\ Typed' /\ pc[w] = "idle"
           /\ nextRequest \in Requests /\ nextRequest' = nextRequest + 1
           /\ \A r \in Requests : r < nextRequest => requests'[r] = requests[r]
           /\ requests'[nextRequest].kind = "account"
           /\ changed \subseteq changed'
           /\ \A c \in changed' \ changed : c.request = nextRequest /\ c.line = 0
           /\ UNCHANGED <<entries, sequences, pc, tx, broken, reports>>
<1>1. /\ nextRequest \in Requests /\ nextRequest' = nextRequest + 1
      /\ nextRequest' \in 1 .. MaxRequests + 1 /\ pc[w] = "idle"
      /\ requests' \in [Requests -> [kind : Kinds, tenant : BOOLEAN,
                                     lines : Files \cup {<<>>}]]
      /\ \A r \in Requests : r < nextRequest => requests'[r] = requests[r]
      /\ requests'[nextRequest] = [kind |-> "account", tenant |-> tenant,
                                   lines |-> <<>>]
  <2>1. /\ Start(w, "account", tenant, <<>>)
        /\ "account" \in Kinds /\ <<>> \in Files \cup {<<>>}
    BY DEF AdminDeleteUser, Kinds
  <2> QED BY <2>1, StartTyped
<1> DEFINE C(x) == [request |-> nextRequest, line |-> 0, action |-> "update",
                    pk |-> x.pk]
           N(x) == IF x.user = u.pk THEN [x EXCEPT !.user = 0] ELSE x
<1>2. ASSUME NEW x \in staff PROVE C(x) \in Change /\ N(x) \in Row
  <2>1. x \in Row /\ 0 \in 0 .. MaxUsers
    BY BoundsAssumption DEF Typed, TypeOK
  <2> QED BY <1>1, <2>1 DEF Change, Row
<1>3. /\ staff' = {N(x) : x \in staff} /\ users' = users \ {u}
      /\ changed' = changed \cup {C(x) : x \in {y \in staff : y.user = u.pk}}
      /\ UNCHANGED <<entries, sequences, pc, tx, broken, reports>>
  BY DEF AdminDeleteUser
<1>4. \A x \in staff : C(x).request = nextRequest /\ C(x).line = 0
  OBVIOUS
<1> HIDE DEF C, N
<1>5. changed' \subseteq Change /\ staff' \subseteq Row
  BY <1>2, <1>3 DEF Typed, TypeOK
<1>6. TypeOK'
  BY <1>1, <1>3, <1>5 DEF Typed, TypeOK, sequences
<1>7. ASSUME NEW v \in Workers, pc[v] # "idle"
      PROVE  /\ tx[v].request \in Requests /\ tx[v].request < nextRequest
             /\ requests'[tx[v].request] = requests[tx[v].request]
  BY <1>1, <1>7 DEF Typed, Serving
<1>8. Serving'
  BY <1>1, <1>3, <1>7 DEF Typed, Serving, Requests
<1>9. InCourse'
  BY <1>3, <1>7 DEF Typed, InCourse
<1>10. Addressed' /\ Pending'
  BY <1>3 DEF Typed, Addressed, Pending
<1>11. changed \subseteq changed'
       /\ \A c \in changed' \ changed : c.request = nextRequest /\ c.line = 0
  BY <1>3, <1>4
<1> QED BY <1>1, <1>3, <1>6, <1>8, <1>9, <1>10, <1>11 DEF Typed

\* The admin site creates an account.
LEMMA AdminUsersTyped ==
    ASSUME Typed, NEW a \in Emails, AdminCreateUser(a)
    PROVE  Typed'
<1>1. UNCHANGED <<staff, entries, nextEmployee, pc, tx, life, history>>
  BY DEF AdminCreateUser
<1>2. users' \subseteq User /\ nextUser' \in 1 .. MaxUsers + 1
  <2>1. [pk |-> nextUser, email |-> Address(a)] \in User
    BY EmailsAssumption, BoundsAssumption
       DEF AdminCreateUser, User, Address, Typed, TypeOK
  <2> QED BY <2>1, BoundsAssumption DEF AdminCreateUser, Typed, TypeOK
<1>3. TypeOK'
  BY <1>1, <1>2 DEF Typed, TypeOK, life, history
<1>4. Serving' /\ InCourse' /\ Addressed' /\ Pending'
  BY <1>1 DEF Typed, Serving, InCourse, Addressed, Pending, life
<1> QED BY <1>3, <1>4 DEF Typed

LEMMA NextTyped == Typed /\ [Next]_vars => Typed'
<1> SUFFICES ASSUME Typed, [Next]_vars PROVE Typed'
  OBVIOUS
<1>1. ASSUME NEW w \in Workers, Begin(w) PROVE Typed'
  <2>1. CASE CreateEmployee(w)
    BY <2>1, CreateEffect
  <2>2. ASSUME NEW x \in staff,
               \/ LoadToEdit(w, x) \/ LoadToDelete(w, x) \/ LoadForPortal(w, x)
               \/ \E b \in BOOLEAN : LoadInAdmin(w, x, b)
        PROVE  Typed'
    BY <2>2, LoadEffect
  <2>3. ASSUME NEW f \in Files, BeginImport(w, f) PROVE Typed'
    BY <2>3, BeginImportEffect
  <2>4. CASE RefuseFile(w)
    BY <2>4, RefuseFileEffect
  <2>5. ASSUME NEW u \in users, NEW b \in BOOLEAN, AdminDeleteUser(w, u, b)
        PROVE  Typed'
    BY <2>5, DeleteUserEffect
  <2> QED BY <1>1, <2>1, <2>2, <2>3, <2>4, <2>5 DEF Begin
<1>2. ASSUME NEW w \in Workers, Proceed(w) \/ Crash(w) PROVE Typed'
  <2>1. CASE SaveEdit(w) \/ Reinsert(w)
    BY <2>1, SaveEffect
  <2>2. CASE MissRow(w)
    BY <2>2, MissRowEffect
  <2>3. CASE DeleteEmployee(w)
    BY <2>3, DeleteEffect
  <2>4. CASE CreateUser(w)
    BY <2>4, CreateUserEffect
  <2>5. CASE LinkUser(w)
    BY <2>5, LinkEffect
  <2>6. CASE StoreLine(w)
    BY <2>6, StoreLineEffect
  <2>7. CASE RefuseLine(w)
    BY <2>7, RefuseLineEffect
  <2>8. CASE Record(w)
    BY <2>8, RecordEffect
  <2>9. CASE AdminSave(w)
    BY <2>9, AdminSaveEffect
  <2>10. CASE \/ StatementFails(w) \/ Decline(w) \/ UserExists(w) \/ FailLine(w)
              \/ FinishImport(w) \/ Crash(w)
    BY <2>10, QuitsEffect
  <2> QED
    BY <1>2, <2>1, <2>2, <2>3, <2>4, <2>5, <2>6, <2>7, <2>8, <2>9, <2>10
       DEF Proceed
<1>3. CASE UNCHANGED vars
  <2>1. /\ staff' = staff /\ users' = users /\ entries' = entries
        /\ nextEmployee' = nextEmployee /\ nextUser' = nextUser /\ pc' = pc /\ tx' = tx
        /\ nextRequest' = nextRequest /\ requests' = requests
        /\ changed' = changed /\ broken' = broken /\ reports' = reports
    BY <1>3 DEF vars, rows, sequences, life, history
  <2>2. TypeOK'
    BY <2>1 DEF Typed, TypeOK
  <2> QED
    BY <2>1, <2>2 DEF Typed, Serving, InCourse, Addressed, Pending
<1> QED BY <1>1, <1>2, <1>3, AdminUsersTyped DEF Next

\* No request, form, file or crash puts the records out of their types.
THEOREM SpecTypeOK == Spec => []TypeOK
<1>1. Spec => []Typed
  BY InitTyped, NextTyped, PTL DEF Spec
<1> QED BY <1>1, PTL DEF Typed
=============================================================================
