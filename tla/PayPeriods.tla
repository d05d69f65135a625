----------------------------- MODULE PayPeriods -----------------------------
(***************************************************************************)
(* The pay periods of one company: opened, closed, edited and deleted by   *)
(* requests that read a row in one statement and write it in another.      *)
(*                                                                         *)
(* PayPeriod.save() reads the stored row again, refuses to change a closed *)
(* period's month, and then writes every column of its own copy; nothing   *)
(* locks the row between the two.                                          *)
(***************************************************************************)
EXTENDS Naturals

CONSTANTS
    Pks,      \* primary keys
    Months,   \* year and month of a period
    Users,    \* who can close one
    Workers,  \* server processes, one request each
    Nobody    \* closed_by is null

ASSUME MonthsAssumption == Months # {}
ASSUME NobodyAssumption == Nobody \notin Users

Row == [month : Months,
        status : {"unborn", "open", "closed", "deleted"},
        closedBy : Users \cup {Nobody}]

VARIABLES
    row,    \* primary key -> committed row; "unborn" and "deleted" are no row
    pc,     \* worker -> statement it executes next
    key,    \* worker -> primary key of the instance it saves, if it has one
    copy,   \* worker -> the instance it saves
    racing  \* period -> workers past save()'s check when it was closed, or
            \* when such a worker changed its month after that

vars == <<row, pc, key, copy, racing>>

Steps == {"idle", "insert", "check", "update", "reinsert"}
Stored(p) == row[p].status \in {"open", "closed"}

Init ==
    /\ row = [p \in Pks |-> [month |-> CHOOSE m \in Months : TRUE,
                             status |-> "unborn", closedBy |-> Nobody]]
    /\ pc = [w \in Workers |-> "idle"]
    /\ key = [w \in Workers |-> {}]
    /\ copy = [w \in Workers |-> {}]
    /\ racing = [p \in Pks |-> {}]

\* unique_company_period, for a row other than those in own; the variant is a
\* table without the constraint.
MonthTakenVariant(m, own) == FALSE
MonthTaken(m, own) == \E q \in Pks \ own : Stored(q) /\ row[q].month = m

\* Requests whose next statement writes period p whatever it has become.
PastCheck(p) == {w \in Workers : p \in key[w] /\ pc[w] \in {"update", "reinsert"}}

Start(w, keys, x, step) ==
    /\ pc[w] = "idle"
    /\ pc' = [pc EXCEPT ![w] = step]
    /\ key' = [key EXCEPT ![w] = keys]
    /\ copy' = [copy EXCEPT ![w] = {x}]
    /\ UNCHANGED <<row, racing>>

Finish(w) ==
    /\ pc' = [pc EXCEPT ![w] = "idle"]
    /\ key' = [key EXCEPT ![w] = {}]
    /\ copy' = [copy EXCEPT ![w] = {}]

\* The request ends without having written: an error page, or a crash.
Fail(w) ==
    /\ Finish(w)
    /\ racing' = [p \in Pks |-> racing[p] \ {w}]
    /\ UNCHANGED row

\* The request's statement writes the row of p.
Write(w, p, x) ==
    /\ row' = [row EXCEPT ![p] = x]
    /\ racing' = [q \in Pks |->
                    IF q = p /\ x.status # "closed" THEN {}
                    ELSE IF q = p /\ (row[p].status # "closed" \/ row[p].month # x.month)
                         THEN PastCheck(p) \ {w}
                         ELSE racing[q] \ {w}]
    /\ Finish(w)

\* PayPeriodCreateView: no period of this month exists ...
CheckCreate(w, m) ==
    /\ ~MonthTaken(m, {})
    /\ Start(w, {}, [month |-> m, status |-> "open", closedBy |-> Nobody], "insert")

\* ... so insert one, under a fresh key, unless another request did meanwhile.
InsertPeriod(w) ==
    /\ pc[w] = "insert"
    /\ \E x \in copy[w] :
          \/ /\ ~MonthTaken(x.month, {})
             /\ \E p \in Pks : row[p].status = "unborn" /\ Write(w, p, x)
          \/ MonthTaken(x.month, {}) /\ Fail(w)

\* close_period_view loads a period, closed or not, and sets its closing
\* fields; the variant sets the label of the status.
LoadToCloseVariant(w, p, u) ==
    /\ Stored(p)
    /\ Start(w, {p}, [row[p] EXCEPT !.status = "Closed", !.closedBy = u], "check")
LoadToClose(w, p, u) ==
    /\ Stored(p)
    /\ Start(w, {p}, [row[p] EXCEPT !.status = "closed", !.closedBy = u], "check")

\* PayPeriodAdmin's change form gives every field but the company; without the
\* company it cannot tell that another period has the month.
SubmitEdit(w, p, x) ==
    /\ Stored(p)
    /\ x.status \in {"open", "closed"}
    /\ Start(w, {p}, x, "check")

\* The stored row is closed and the copy differs from it in more than its
\* closing fields; the variant forgets that the stored row may be closed.
ImmutableVariant(p, x) == row[p].status = "open" /\ x.month # row[p].month
Immutable(p, x) == row[p].status = "closed" /\ x.month # row[p].month

\* PayPeriod.save() compares its instance with the stored row.
CheckSave(w) ==
    /\ pc[w] = "check"
    /\ \E p \in key[w], x \in copy[w] :
          \/ Immutable(p, x) /\ Fail(w)
          \/ /\ ~Immutable(p, x)
             /\ pc' = [pc EXCEPT ![w] = "update"]
             /\ UNCHANGED <<row, key, copy, racing>>

\* super().save(): UPDATE every column, and INSERT when no row was updated.
UpdatePeriod(w) ==
    /\ pc[w] = "update"
    /\ \E p \in key[w], x \in copy[w] :
          \/ Stored(p) /\ ~MonthTaken(x.month, {p}) /\ Write(w, p, x)
          \/ Stored(p) /\ MonthTaken(x.month, {p}) /\ Fail(w)
          \/ /\ ~Stored(p)
             /\ pc' = [pc EXCEPT ![w] = "reinsert"]
             /\ UNCHANGED <<row, key, copy, racing>>

\* The INSERT fails on its key or on its month if either is there again.
ReinsertPeriod(w) ==
    /\ pc[w] = "reinsert"
    /\ \E p \in key[w], x \in copy[w] :
          \/ ~Stored(p) /\ ~MonthTaken(x.month, {p}) /\ Write(w, p, x)
          \/ (Stored(p) \/ MonthTaken(x.month, {p})) /\ Fail(w)

\* The admin site deletes a period that nothing references.
DeletePeriod(p) ==
    /\ Stored(p)
    /\ row' = [row EXCEPT ![p].status = "deleted"]
    /\ racing' = [racing EXCEPT ![p] = {}]
    /\ UNCHANGED <<pc, key, copy>>

Crash(w) == pc[w] # "idle" /\ Fail(w)

Next ==
    \/ \E w \in Workers :
          \/ \E m \in Months : CheckCreate(w, m)
          \/ \E p \in Pks, u \in Users : LoadToClose(w, p, u)
          \/ \E p \in Pks, x \in Row : SubmitEdit(w, p, x)
          \/ InsertPeriod(w) \/ CheckSave(w) \/ UpdatePeriod(w)
          \/ ReinsertPeriod(w) \/ Crash(w)
    \/ \E p \in Pks : DeletePeriod(p)

Spec == Init /\ [][Next]_vars

-----------------------------------------------------------------------------
(* Properties.                                                             *)

TypeOK ==
    /\ row \in [Pks -> Row]
    /\ pc \in [Workers -> Steps]
    /\ key \in [Workers -> SUBSET Pks]
    /\ copy \in [Workers -> SUBSET Row]
    /\ racing \in [Pks -> SUBSET Workers]

\* However creations, edits and re-insertions of deleted periods race, a month
\* has one period.
OnePeriodPerMonth ==
    \A p, q \in Pks :
       Stored(p) /\ Stored(q) /\ row[p].month = row[q].month => p = q

\* Once a period is closed and the requests that were already past save()'s
\* check, then or when one of them changed it, have ended, its month does not
\* change, whoever saves it: an older copy, an edit form or a request that saw
\* the row missing.
ClosedMonthKept ==
    [][\A p \in Pks :
          /\ row[p].status = "closed" /\ racing[p] = {}
          /\ Stored(p)'
          => row'[p].month = row[p].month]_vars

\* "Closed pay periods are immutable." (the error of PayPeriod.save): the
\* month of a closed period never changes.
ClosedImmutable ==
    [][\A p \in Pks :
          row[p].status = "closed" /\ Stored(p)' => row'[p].month = row[p].month]_vars
=============================================================================
