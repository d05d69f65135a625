-------------------------- MODULE PayPeriods_proofs --------------------------
(***************************************************************************)
(* Proofs about PayPeriods, for any periods, months, users and workers.    *)
(***************************************************************************)
EXTENDS PayPeriods, TLAPS

\* A request past save()'s check, and not racing with a closing, is about to
\* write the month the closed row has.
ChecksHold ==
    \A w \in Workers, p \in Pks :
       /\ pc[w] \in {"update", "reinsert"}
       /\ p \in key[w]
       /\ row[p].status = "closed"
       /\ w \notin racing[p]
       => \A x \in copy[w] : x.month = row[p].month

\* A request has at most one key and one copy.
Single ==
    \A w \in Workers : /\ \A p, q \in key[w] : p = q
                       /\ \A x, y \in copy[w] : x = y

IInv == TypeOK /\ OnePeriodPerMonth /\ ChecksHold /\ Single

LEMMA InitIInv == Init => IInv
<1> SUFFICES ASSUME Init PROVE IInv
  OBVIOUS
<1>1. [month |-> CHOOSE m \in Months : TRUE,
       status |-> "unborn", closedBy |-> Nobody] \in Row
  BY MonthsAssumption DEF Row
<1>2. TypeOK
  BY <1>1 DEF Init, TypeOK, Steps
<1> QED BY <1>2 DEF Init, IInv, OnePeriodPerMonth, ChecksHold, Single, Stored

\* Taking a request leaves the rows alone.
LEMMA StartEffect ==
  ASSUME IInv, NEW w \in Workers, NEW keys \in SUBSET Pks, NEW x \in Row,
         \A p, q \in keys : p = q,
         NEW step \in {"insert", "check"}, Start(w, keys, x, step)
  PROVE  IInv'
<1>1. TypeOK'
  BY DEF IInv, TypeOK, Start, Steps
<1>2. OnePeriodPerMonth'
  BY DEF IInv, OnePeriodPerMonth, Start, Stored
<1>3. ChecksHold'
  BY DEF IInv, TypeOK, ChecksHold, Start
<1>4. Single'
  BY DEF IInv, TypeOK, Single, Start
<1> QED BY <1>1, <1>2, <1>3, <1>4 DEF IInv

LEMMA FailEffect ==
  ASSUME IInv, NEW w \in Workers, Fail(w)
  PROVE  IInv'
<1>1. TypeOK'
  BY DEF IInv, TypeOK, Fail, Finish, Steps
<1>2. OnePeriodPerMonth'
  BY DEF IInv, OnePeriodPerMonth, Fail, Stored
<1>3. ChecksHold'
  BY DEF IInv, TypeOK, ChecksHold, Fail, Finish
<1>4. Single'
  BY DEF IInv, TypeOK, Single, Fail, Finish
<1> QED BY <1>1, <1>2, <1>3, <1>4 DEF IInv

\* A write keeps the invariant when no other period has its month.
LEMMA WriteEffect ==
  ASSUME IInv, NEW w \in Workers, NEW p \in Pks, NEW x \in Row, Write(w, p, x),
         ~MonthTaken(x.month, {p})
  PROVE  IInv'
<1>1. TypeOK'
  BY DEF IInv, TypeOK, Write, Finish, Steps, PastCheck
<1>2. OnePeriodPerMonth'
  BY DEF IInv, TypeOK, OnePeriodPerMonth, Write, Stored, MonthTaken
<1>3. ChecksHold'
  <2> SUFFICES ASSUME NEW v \in Workers, NEW q \in Pks,
                      pc'[v] \in {"update", "reinsert"}, q \in key'[v],
                      row'[q].status = "closed", v \notin racing'[q],
                      NEW y \in copy'[v]
               PROVE  y.month = row'[q].month
    BY DEF ChecksHold
  <2>1. v # w /\ pc'[v] = pc[v] /\ key'[v] = key[v] /\ copy'[v] = copy[v]
    BY DEF Write, Finish, IInv, TypeOK
  <2>2. CASE q # p
    BY <2>1, <2>2 DEF IInv, TypeOK, ChecksHold, Write
  <2>3. CASE q = p
    <3>1. row'[p] = x
      BY DEF IInv, TypeOK, Write
    <3>2. v \in PastCheck(p)
      BY <2>1, <2>3 DEF PastCheck
    <3>3. row[p].status = "closed" /\ row[p].month = x.month /\ v \notin racing[p]
      BY <2>1, <2>3, <3>1, <3>2 DEF Write
    <3> QED BY <2>1, <2>3, <3>1, <3>3 DEF IInv, ChecksHold
  <2> QED BY <2>2, <2>3
<1>4. Single'
  BY DEF IInv, TypeOK, Single, Write, Finish
<1> QED BY <1>1, <1>2, <1>3, <1>4 DEF IInv

\* A request that goes on to its next statement keeps the invariant when the
\* row is not closed or has the month of its copy.
LEMMA StepEffect ==
  ASSUME IInv, NEW w \in Workers, NEW step \in {"update", "reinsert"},
         pc' = [pc EXCEPT ![w] = step], UNCHANGED <<row, key, copy, racing>>,
         \A p \in key[w], x \in copy[w] :
            row[p].status = "closed" => x.month = row[p].month
  PROVE  IInv'
<1>1. TypeOK'
  BY DEF IInv, TypeOK, Steps
<1>2. OnePeriodPerMonth'
  BY DEF IInv, OnePeriodPerMonth, Stored
<1>3. ChecksHold'
  BY DEF IInv, TypeOK, ChecksHold
<1>4. Single'
  BY DEF IInv, TypeOK, Single
<1> QED BY <1>1, <1>2, <1>3, <1>4 DEF IInv

-----------------------------------------------------------------------------
(* Every action is one of the effects above.                               *)

LEMMA RequestStep ==
  ASSUME IInv, NEW w \in Workers,
         \/ \E m \in Months : CheckCreate(w, m)
         \/ \E p \in Pks, u \in Users : LoadToClose(w, p, u)
         \/ \E p \in Pks, x \in Row : SubmitEdit(w, p, x)
  PROVE  IInv'
<1>1. ASSUME NEW m \in Months, CheckCreate(w, m) PROVE IInv'
  <2>1. [month |-> m, status |-> "open", closedBy |-> Nobody] \in Row
    BY DEF Row
  <2> QED BY <1>1, <2>1, StartEffect DEF CheckCreate
<1>2. ASSUME NEW p \in Pks, NEW u \in Users, LoadToClose(w, p, u) PROVE IInv'
  <2>1. [row[p] EXCEPT !.status = "closed", !.closedBy = u] \in Row
    BY DEF IInv, TypeOK, Row
  <2> QED BY <1>2, <2>1, StartEffect DEF LoadToClose
<1>3. ASSUME NEW p \in Pks, NEW x \in Row, SubmitEdit(w, p, x) PROVE IInv'
  BY <1>3, StartEffect DEF SubmitEdit
<1> QED BY <1>1, <1>2, <1>3

LEMMA InsertStep ==
  ASSUME IInv, NEW w \in Workers, InsertPeriod(w)
  PROVE  IInv'
<1>1. ASSUME NEW x \in copy[w], ~MonthTaken(x.month, {}),
             NEW p \in Pks, Write(w, p, x)
      PROVE  IInv'
  <2>1. x \in Row
    BY DEF IInv, TypeOK
  <2>2. ~MonthTaken(x.month, {p})
    BY <1>1 DEF MonthTaken
  <2> QED BY <1>1, <2>1, <2>2, WriteEffect
<1>2. CASE Fail(w)
  BY <1>2, FailEffect
<1> QED BY <1>1, <1>2 DEF InsertPeriod

LEMMA SaveStep ==
  ASSUME IInv, NEW w \in Workers,
         CheckSave(w) \/ UpdatePeriod(w) \/ ReinsertPeriod(w)
  PROVE  IInv'
<1>1. ASSUME NEW p \in key[w], NEW x \in copy[w], ~MonthTaken(x.month, {p}),
             Write(w, p, x)
      PROVE  IInv'
  BY <1>1, WriteEffect DEF IInv, TypeOK
<1>2. CASE Fail(w)
  BY <1>2, FailEffect
<1>3. CASE CheckSave(w)
  <2>1. ASSUME NEW p \in key[w], NEW x \in copy[w], ~Immutable(p, x),
               pc' = [pc EXCEPT ![w] = "update"],
               UNCHANGED <<row, key, copy, racing>>
        PROVE  IInv'
    <3>1. \A q \in key[w], y \in copy[w] :
             row[q].status = "closed" => y.month = row[q].month
      BY <2>1 DEF IInv, Single, Immutable
    <3> QED BY <2>1, <3>1, StepEffect
  <2> QED BY <1>2, <1>3, <2>1 DEF CheckSave
<1>4. CASE UpdatePeriod(w)
  <2>1. ASSUME NEW p \in key[w], ~Stored(p),
               pc' = [pc EXCEPT ![w] = "reinsert"],
               UNCHANGED <<row, key, copy, racing>>
        PROVE  IInv'
    <3>1. \A q \in key[w] : row[q].status # "closed"
      BY <2>1 DEF IInv, Single, Stored
    <3> QED BY <2>1, <3>1, StepEffect
  <2> QED BY <1>1, <1>2, <1>4, <2>1 DEF UpdatePeriod
<1>5. CASE ReinsertPeriod(w)
  BY <1>1, <1>2, <1>5 DEF ReinsertPeriod
<1> QED BY <1>3, <1>4, <1>5

LEMMA DeleteStep ==
  ASSUME IInv, NEW p \in Pks, DeletePeriod(p)
  PROVE  IInv'
<1>1. TypeOK'
  BY DEF IInv, TypeOK, DeletePeriod, Row
<1>2. \A q \in Pks : row'[q] = row[q] \/ (q = p /\ row'[q].status = "deleted")
  BY DEF IInv, TypeOK, DeletePeriod, Row
<1>3. OnePeriodPerMonth'
  BY <1>2 DEF IInv, OnePeriodPerMonth, Stored
<1>4. ChecksHold'
  BY <1>2 DEF IInv, TypeOK, ChecksHold, DeletePeriod
<1>5. Single'
  BY DEF IInv, Single, DeletePeriod
<1> QED BY <1>1, <1>3, <1>4, <1>5 DEF IInv

LEMMA NextIInv == IInv /\ [Next]_vars => IInv'
<1> SUFFICES ASSUME IInv, [Next]_vars PROVE IInv'
  OBVIOUS
<1>1. CASE UNCHANGED vars
  BY <1>1 DEF vars, IInv, TypeOK, OnePeriodPerMonth, ChecksHold, Single, Stored
<1>2. ASSUME NEW w \in Workers, Crash(w) PROVE IInv'
  BY <1>2, FailEffect DEF Crash
<1> QED BY <1>1, <1>2, RequestStep, InsertStep, SaveStep, DeleteStep DEF Next

\* The invariant above holds of every reachable state.
THEOREM PeriodsInvariant == Spec => []IInv
  BY InitIInv, NextIInv, PTL DEF Spec

\* Every reachable state is well typed.
THEOREM PeriodsTyped == Spec => []TypeOK
<1>1. IInv => TypeOK
  BY DEF IInv
<1> QED BY <1>1, PeriodsInvariant, PTL

\* A month never has two periods.
THEOREM MonthsUnique == Spec => []OnePeriodPerMonth
<1>1. IInv => OnePeriodPerMonth
  BY DEF IInv
<1> QED BY <1>1, PeriodsInvariant, PTL

KeepsMonth(p) == row[p].status = "closed" /\ racing[p] = {} /\ Stored(p)'
                    => row'[p].month = row[p].month

\* A request that writes keeps the month of a closed period it does not race.
LEMMA WriteKeepsMonth ==
  ASSUME IInv, NEW w \in Workers, NEW p \in Pks, NEW q \in Pks,
         NEW x \in copy[w], Write(w, q, x),
         \/ row[q].status = "unborn"
         \/ q \in key[w] /\ pc[w] \in {"update", "reinsert"}
  PROVE  KeepsMonth(p)
<1>1. CASE p # q
  BY <1>1 DEF KeepsMonth, Write, IInv, TypeOK
<1>2. CASE p = q
  BY <1>2 DEF KeepsMonth, Write, IInv, TypeOK, ChecksHold
<1> QED BY <1>1, <1>2

\* The month of a closed period is kept once no stale request is left.
THEOREM ClosingKeepsMonth == Spec => ClosedMonthKept
<1>1. IInv /\ [Next]_vars
        => [\A p \in Pks :
               /\ row[p].status = "closed" /\ racing[p] = {}
               /\ Stored(p)'
               => row'[p].month = row[p].month]_vars
  <2> SUFFICES ASSUME IInv, Next, NEW p \in Pks PROVE KeepsMonth(p)
    BY DEF KeepsMonth
  <2>1. CASE row' = row
    BY <2>1 DEF KeepsMonth
  <2>2. ASSUME NEW w \in Workers, InsertPeriod(w) PROVE KeepsMonth(p)
    BY <2>1, <2>2, WriteKeepsMonth DEF InsertPeriod, Fail
  <2>3. ASSUME NEW w \in Workers, UpdatePeriod(w) PROVE KeepsMonth(p)
    BY <2>1, <2>3, WriteKeepsMonth DEF UpdatePeriod, Fail, IInv, TypeOK
  <2>4. ASSUME NEW w \in Workers, ReinsertPeriod(w) PROVE KeepsMonth(p)
    BY <2>1, <2>4, WriteKeepsMonth DEF ReinsertPeriod, Fail, IInv, TypeOK
  <2>5. ASSUME NEW q \in Pks, DeletePeriod(q) PROVE KeepsMonth(p)
    BY <2>5 DEF DeletePeriod, KeepsMonth, Stored, IInv, TypeOK, Row
  <2> QED BY <2>1, <2>2, <2>3, <2>4, <2>5
          DEF Next, CheckCreate, LoadToClose, SubmitEdit, Start, CheckSave, Crash,
              Fail
<1> QED BY <1>1, PeriodsInvariant, PTL DEF Spec, ClosedMonthKept

-----------------------------------------------------------------------------
(* Saves that do not overlap.                                              *)

\* No two requests are past save()'s check of the same period.
Alone == \A p \in Pks : \A v, w \in PastCheck(p) : v = w

\* No closed period is raced; and a request that creates one opens it.
Unraced == \A p \in Pks : racing[p] = {}
Opens == \A w \in Workers : pc[w] = "insert" => \A x \in copy[w] : x.status = "open"

\* Whoever writes a period while alone past its check leaves nobody behind.
LEMMA WriteAlone ==
  ASSUME Alone, Unraced, NEW w \in Workers, NEW p \in Pks, NEW x \in Row, Write(w, p, x),
         x.status = "open" \/ w \in PastCheck(p)
  PROVE  Unraced'
<1>1. x.status # "closed" \/ PastCheck(p) \ {w} = {}
  BY DEF Alone
<1>2. \A q \in Pks : racing[q] \ {w} = {}
  BY DEF Unraced
<1> QED BY <1>1, <1>2 DEF Write, Unraced

LEMMA OpensStep ==
  ASSUME IInv, Opens, [Next]_vars
  PROVE  Opens'
<1>0. /\ pc \in [Workers -> Steps] /\ copy \in [Workers -> SUBSET Row]
  BY DEF IInv, TypeOK
<1>1. ASSUME NEW w \in Workers, Finish(w) PROVE Opens'
  BY <1>0, <1>1 DEF Finish, Opens
<1>2. ASSUME NEW w \in Workers, NEW m \in Months, CheckCreate(w, m) PROVE Opens'
  BY <1>0, <1>2 DEF CheckCreate, Start, Opens
<1>3. ASSUME NEW w \in Workers, NEW p \in Pks,
             (\E u \in Users : LoadToClose(w, p, u)) \/ (\E x \in Row : SubmitEdit(w, p, x))
      PROVE  Opens'
  <2>1. PICK x : Start(w, {p}, x, "check")
    BY <1>3 DEF LoadToClose, SubmitEdit
  <2> QED BY <1>0, <2>1 DEF Start, Opens
<1>4. ASSUME NEW w \in Workers, NEW step \in {"update", "reinsert"},
             pc' = [pc EXCEPT ![w] = step], copy' = copy
      PROVE  Opens'
  BY <1>0, <1>4 DEF Opens
<1>5. CASE UNCHANGED <<pc, copy>>
  BY <1>5 DEF Opens
<1> QED BY <1>1, <1>2, <1>3, <1>4, <1>5
        DEF Next, vars, InsertPeriod, CheckSave, UpdatePeriod, ReinsertPeriod, Crash,
            Write, Fail, DeletePeriod

LEMMA UnracedStep ==
  ASSUME IInv, Opens, Alone, Unraced, [Next]_vars
  PROVE  Unraced'
<1>1. ASSUME NEW w \in Workers, Fail(w) PROVE Unraced'
  BY <1>1 DEF Fail, Unraced
<1>2. ASSUME NEW w \in Workers, InsertPeriod(w) PROVE Unraced'
  <2>1. ASSUME NEW x \in copy[w], NEW p \in Pks, Write(w, p, x) PROVE Unraced'
    BY <1>2, <2>1, WriteAlone DEF InsertPeriod, Opens, IInv, TypeOK
  <2> QED BY <1>1, <1>2, <2>1 DEF InsertPeriod
<1>3. ASSUME NEW w \in Workers, UpdatePeriod(w) \/ ReinsertPeriod(w) PROVE Unraced'
  <2>1. ASSUME NEW p \in key[w], NEW x \in copy[w], Write(w, p, x) PROVE Unraced'
    <3>1. p \in Pks /\ x \in Row
      BY DEF IInv, TypeOK
    <3>2. w \in PastCheck(p)
      BY <1>3 DEF UpdatePeriod, ReinsertPeriod, PastCheck
    <3> QED BY <2>1, <3>1, <3>2, WriteAlone
  <2>2. CASE UNCHANGED racing
    BY <2>2 DEF Unraced
  <2> QED BY <1>1, <1>3, <2>1, <2>2 DEF UpdatePeriod, ReinsertPeriod
<1>4. ASSUME NEW p \in Pks, DeletePeriod(p) PROVE Unraced'
  BY <1>4 DEF DeletePeriod, Unraced, IInv, TypeOK
<1>5. CASE UNCHANGED racing
  BY <1>5 DEF Unraced
<1> QED BY <1>1, <1>2, <1>3, <1>4, <1>5
        DEF Next, vars, CheckCreate, LoadToClose, SubmitEdit, Start, CheckSave, Crash

\* "Closed pay periods are immutable.": the check of PayPeriod.save() keeps
\* this promise as long as no two requests are past it for one period, but
\* nothing locks the row.
THEOREM SavesAlone == Spec /\ []Alone => ClosedImmutable
<1>1. Init => Opens /\ Unraced
  BY DEF Init, Opens, Unraced
<1>2. IInv /\ Opens /\ [Next]_vars => Opens'
  BY OpensStep
<1>3. IInv /\ Opens /\ Alone /\ Unraced /\ [Next]_vars => Unraced'
  BY UnracedStep
<1>4. Unraced /\ [\A p \in Pks :
                     /\ row[p].status = "closed" /\ racing[p] = {}
                     /\ Stored(p)'
                     => row'[p].month = row[p].month]_vars
        => [\A p \in Pks : row[p].status = "closed" /\ Stored(p)'
                => row'[p].month = row[p].month]_vars
  BY DEF Unraced
<1> QED BY <1>1, <1>2, <1>3, <1>4, PeriodsInvariant, ClosingKeepsMonth, PTL
        DEF Spec, ClosedMonthKept, ClosedImmutable
=============================================================================
