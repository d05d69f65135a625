------------------------- MODULE PayslipCalc_proofs -------------------------
(***************************************************************************)
(* Proofs about PayslipCalc, for every grain, rate, quantity and amount.   *)
(***************************************************************************)
EXTENDS PayslipCalc, SequenceTheorems, TLAPS

\* What \div does, for a positive divisor.
LEMMA Division ==
  ASSUME NEW n \in Int, NEW d \in Nat, d > 0
  PROVE  /\ n \div d \in Int
         /\ d * (n \div d) <= n
         /\ n < d * (n \div d) + d
  BY SMTT(30)

\* Rounding half up gives a whole number of cents, at most half a cent away.
LEMMA QuantizeError ==
  ASSUME NEW x \in Int
  PROVE  /\ Quantize(x) \in Int
         /\ 2 * (Grain * Quantize(x) - x) \in -Grain .. Grain
<1> DEFINE D == 2 * Grain
<1>1. D \in Nat /\ D > 0
  BY GrainAssumption
<1>2. ASSUME NEW n \in Int, n >= 0
      PROVE  /\ n \div D \in Int
             /\ D * (n \div D) <= n
             /\ n < D * (n \div D) + D
  BY <1>1, <1>2, Division
<1>3. CASE x >= 0
  BY <1>2, <1>3, GrainAssumption DEF Quantize
<1>4. CASE x < 0
  <2> DEFINE q == (Grain - 2 * x) \div D
  <2>1. q \in Int /\ D * q <= Grain - 2 * x /\ Grain - 2 * x < D * q + D
    <3>1. Grain - 2 * x \in Int /\ Grain - 2 * x >= 0
      BY <1>4, GrainAssumption
    <3> QED BY <1>2, <3>1
  <2>2. Quantize(x) = -q
    BY <1>4 DEF Quantize
  <2> HIDE DEF q
  <2>3. 2 * (Grain * (-q) - x) = -(D * q) - 2 * x
    BY <2>1, GrainAssumption
  <2> QED BY <2>1, <2>2, <2>3, GrainAssumption
<1> QED BY <1>3, <1>4

\* A whole number of cents is left alone.
LEMMA QuantizeExact ==
  ASSUME NEW c \in Int
  PROVE  Quantize(Grain * c) = c
<1>1. /\ Grain * c \in Int
      /\ Quantize(Grain * c) \in Int
      /\ 2 * (Grain * Quantize(Grain * c) - Grain * c) \in -Grain .. Grain
  BY QuantizeError, GrainAssumption
<1> DEFINE d == Quantize(Grain * c) - c
<1>2. d \in Int /\ 2 * (Grain * d) \in -Grain .. Grain
  BY <1>1, GrainAssumption
<1>3. d < 1 /\ d > -1
  <2> HIDE DEF d
  <2>1. ASSUME d >= 1 PROVE FALSE
    BY <1>2, <2>1, GrainAssumption
  <2>2. ASSUME d <= -1 PROVE FALSE
    BY <1>2, <2>2, GrainAssumption
  <2> QED BY <1>2, <2>1, <2>2
<1> QED BY <1>1, <1>2, <1>3

\* A higher rate never rounds to a lower pay.
LEMMA QuantizeMonotone ==
  ASSUME NEW x \in Int, NEW y \in Int, x <= y
  PROVE  Quantize(x) <= Quantize(y)
<1> DEFINE u == Quantize(x)
           v == Quantize(y)
<1>1. /\ u \in Int /\ 2 * (Grain * u - x) \in -Grain .. Grain
      /\ v \in Int /\ 2 * (Grain * v - y) \in -Grain .. Grain
  BY QuantizeError
<1>2. CASE x = y
  BY <1>1, <1>2
<1>3. CASE x < y
  <2> HIDE DEF u, v
  <2>1. Grain * (u - v) = Grain * u - Grain * v
    BY <1>1, GrainAssumption
  <2>2. Grain * (u - v) < Grain
    BY <1>1, <1>3, <2>1, GrainAssumption
  <2>3. ASSUME u - v >= 1 PROVE FALSE
    BY <1>1, <2>2, <2>3, GrainAssumption
  <2>4. u <= v
    BY <1>1, <2>3
  <2> QED BY <2>4 DEF u, v
<1> QED BY <1>2, <1>3

-----------------------------------------------------------------------------
(* The inductive invariant: rounding has erred by half a cent at the base    *)
(* pay and nowhere since, because the items are whole cents.                 *)

Started == pc = "base" => exact = 0 /\ total = [k \in Kinds |-> 0]

WithinHalf ==
  pc \in Kinds \cup {"net", "payslip"} =>
     IF SelectedRate.kind = "nan" THEN base = NaN
     ELSE /\ ~base.nan
          /\ 2 * (Grain * NetOf(base.cents) - exact) \in -Grain .. Grain

NetRight ==
  pc = "payslip" =>
     IF SelectedRate.kind = "nan" THEN net = NaN
     ELSE ~net.nan /\ net.cents = NetOf(base.cents)

IInv == TypeOK /\ Started /\ WithinHalf /\ NetRight

LEMMA InputType ==
  ASSUME input \in PayrollInput
  PROVE  /\ SelectedRate.kind \in {"finite", "null", "nan", "inf"}
         /\ SelectedRate.parts \in Int
         /\ Multiplier \subseteq Nat
         /\ input.amounts \in [Kinds -> Seq(Amounts)]
<1>1. SelectedRate \in Rate
  BY DEF SelectedRate, PayrollInput, Bases
<1>2. /\ SelectedRate.kind \in {"finite", "null", "nan", "inf"}
      /\ SelectedRate.parts \in Int
  <2>1. ASSUME NEW r \in Rate
        PROVE  r.kind \in {"finite", "null", "nan", "inf"} /\ r.parts \in Int
    <3>1. CASE r \in [kind : {"finite"}, parts : Parts]
      BY <3>1, NumbersAssumption
    <3>2. CASE r \in [kind : {"null", "nan", "inf"}, parts : {0}]
      BY <3>2
    <3> QED BY <2>1, <3>1, <3>2 DEF Rate
  <2> QED BY <1>1, <2>1
<1>3. Multiplier \subseteq Nat
  BY NumbersAssumption DEF Multiplier, PayrollInput, Bases, Entered
<1>4. ASSUME NEW s \in BoundedSeq(Amounts, MaxItems) PROVE s \in Seq(Amounts)
  <2>1. PICK m \in 0 .. MaxItems : s \in [1 .. m -> Amounts]
    BY <1>4 DEF BoundedSeq, SeqOf
  <2> QED BY <2>1, ItemsAssumption
<1>5. input.amounts \in [Kinds -> Seq(Amounts)]
  BY <1>4 DEF PayrollInput
<1> QED BY <1>2, <1>3, <1>5

LEMMA InitIInv == Init => IInv
<1> SUFFICES ASSUME Init PROVE IInv
  OBVIOUS
<1>1. input.amounts \in [Kinds -> Seq(Amounts)]
  BY InputType DEF Init
<1>2. TypeOK
  BY <1>1 DEF Init, TypeOK, Zero, Cents, Kinds
<1> QED BY <1>2 DEF Init, IInv, Started, WithinHalf, NetRight, Kinds

LEMMA BaseStep == IInv /\ ComputeBase => IInv'
<1> SUFFICES ASSUME IInv, ComputeBase PROVE IInv'
  OBVIOUS
<1>1. PICK q \in Multiplier :
         /\ exact' = SelectedRate.parts * q
         /\ base' = IF SelectedRate.kind = "nan" THEN NaN
                    ELSE [nan |-> FALSE,
                          cents |-> Quantize(SelectedRate.parts * q)]
  BY DEF ComputeBase
<1> DEFINE x == SelectedRate.parts * q
<1>2. q \in Nat /\ SelectedRate.parts \in Int /\ x \in Int
  BY InputType DEF IInv, TypeOK
<1>3. /\ Quantize(x) \in Int
      /\ 2 * (Grain * Quantize(x) - x) \in -Grain .. Grain
  BY <1>2, QuantizeError
<1> HIDE DEF x
<1>4. base' \in Cents /\ exact' = x
  BY <1>1, <1>3 DEF Cents, NaN, x
<1>5. TypeOK'
  BY <1>2, <1>4 DEF IInv, TypeOK, ComputeBase, Kinds, Line
<1>6. WithinHalf'
  <2>1. SelectedRate' = SelectedRate
    BY DEF ComputeBase, SelectedRate
  <2>2. SelectedRate.kind # "nan" => NetOf(base.cents)' = Quantize(x)
    BY <1>1, <1>3 DEF ComputeBase, NetOf, IInv, Started, Kinds, x
  <2>3. SelectedRate.kind # "nan" => ~base'.nan
    BY <1>1
  <2> QED BY <1>1, <1>3, <1>4, <2>1, <2>2, <2>3 DEF WithinHalf
<1> QED BY <1>5, <1>6 DEF IInv, ComputeBase, Started, NetRight, Kinds

LEMMA ItemStep == ASSUME NEW k \in Kinds PROVE IInv /\ AddItem(k) => IInv'
<1> SUFFICES ASSUME IInv, AddItem(k) PROVE IInv'
  OBVIOUS
<1> DEFINE a == Head(todo[k])
           s == Sign(k)
<1>1. a \in Int /\ Tail(todo[k]) \in Seq(Amounts)
  <2>1. todo[k] \in Seq(Amounts) /\ todo[k] # <<>>
    BY DEF IInv, TypeOK, AddItem
  <2>2. Head(todo[k]) \in Amounts /\ Tail(todo[k]) \in Seq(Amounts)
    BY <2>1
  <2> QED BY <2>2, NumbersAssumption
<1>2. Quantize(Grain * a) = a
  BY <1>1, QuantizeExact
<1>3. s \in {-1, 1} /\ (s = -1 <=> k = "deduction")
  BY DEF Sign
<1>4. /\ total' = [total EXCEPT ![k] = @ + a]
      /\ exact' = exact + s * Grain * a
      /\ lines' = Append(lines, [type |-> k,
                                 amount |-> [nan |-> FALSE, cents |-> a]])
  BY <1>2 DEF AddItem
<1> HIDE DEF a, s
<1>5. s * Grain * a \in Int
  BY <1>1, <1>3, GrainAssumption
<1>6. TypeOK'
  <2>1. todo' \in [Kinds -> Seq(Amounts)]
    BY <1>1 DEF IInv, TypeOK, AddItem, a
  <2>2. total' \in [Kinds -> Int] /\ exact' \in Int
    BY <1>1, <1>4, <1>5 DEF IInv, TypeOK
  <2>3. [type |-> k, amount |-> [nan |-> FALSE, cents |-> a]] \in Line
    BY <1>1 DEF Line, Cents
  <2>4. lines' \in Seq(Line)
    BY <1>4, <2>3 DEF IInv, TypeOK
  <2> QED BY <2>1, <2>2, <2>4 DEF IInv, TypeOK, AddItem
<1>7. WithinHalf'
  <2> DEFINE n == NetOf(base.cents)
  <2>1. n \in Int /\ exact \in Int
    BY DEF IInv, TypeOK, NetOf, Cents, Kinds
  <2>2. NetOf(base.cents)' = n + s * a
    <3>1. total \in [Kinds -> Int] /\ base' = base /\ base.cents \in Int
      BY DEF IInv, TypeOK, Cents, AddItem
    <3>2. \A j \in Kinds : total'[j] = IF j = k THEN total[j] + a ELSE total[j]
      BY <1>4, <3>1
    <3>3. \A j \in Kinds : total[j] \in Int
      BY <3>1
    <3>4. CASE k = "deduction"
      BY <1>1, <1>3, <3>1, <3>2, <3>3, <3>4 DEF NetOf, Kinds
    <3>5. CASE k \in {"bonus", "reimbursement"}
      BY <1>1, <1>3, <3>1, <3>2, <3>3, <3>5 DEF NetOf, Kinds
    <3> QED BY <3>4, <3>5 DEF Kinds
  <2> HIDE DEF n
  <2>3. Grain * (n + s * a) - exact' = Grain * n - exact
    BY <1>1, <1>3, <1>4, <2>1, GrainAssumption
  <2>4. SelectedRate' = SelectedRate /\ base' = base /\ pc' = pc
    BY DEF AddItem, SelectedRate
  <2>5. pc \in Kinds
    BY DEF AddItem
  <2>6. SelectedRate.kind # "nan" =>
           ~base.nan /\ 2 * (Grain * n - exact) \in -Grain .. Grain
    BY <2>5 DEF IInv, WithinHalf, n
  <2> QED BY <2>2, <2>3, <2>4, <2>5, <2>6 DEF IInv, WithinHalf
<1> QED BY <1>6, <1>7 DEF IInv, AddItem, Started, NetRight, Kinds

LEMMA NetStep == IInv /\ ComputeNet => IInv'
<1> SUFFICES ASSUME IInv, ComputeNet PROVE IInv'
  OBVIOUS
<1>1. NetOf(base.cents) \in Int
  BY DEF IInv, TypeOK, NetOf, Cents, Kinds
<1>2. Quantize(Grain * NetOf(base.cents)) = NetOf(base.cents)
  BY <1>1, QuantizeExact
<1>3. net' = IF base.nan THEN NaN
             ELSE [nan |-> FALSE, cents |-> NetOf(base.cents)]
  BY <1>2 DEF ComputeNet
<1>4. TypeOK'
  BY <1>1, <1>3 DEF IInv, TypeOK, ComputeNet, Cents, NaN, Outcomes
<1>5. /\ SelectedRate' = SelectedRate
      /\ NetOf(base.cents)' = NetOf(base.cents)
      /\ base' = base /\ exact' = exact /\ pc = "net" /\ pc' = "payslip"
  BY DEF ComputeNet, SelectedRate, NetOf
<1>6. WithinHalf
  BY DEF IInv
<1>7. WithinHalf'
  BY <1>5, <1>6 DEF WithinHalf
<1>8. NetRight'
  BY <1>3, <1>5, <1>6 DEF WithinHalf, NetRight, NaN
<1> QED BY <1>4, <1>5, <1>7, <1>8 DEF IInv, Started

LEMMA NextIInv == IInv /\ [Next]_vars => IInv'
<1> SUFFICES ASSUME IInv, [Next]_vars PROVE IInv'
  OBVIOUS
<1>1. CASE BaseMissing
  BY <1>1 DEF IInv, BaseMissing, TypeOK, Outcomes, Started, WithinHalf, NetRight,
              Kinds
<1>2. CASE BaseUnquantizable
  BY <1>2 DEF IInv, BaseUnquantizable, TypeOK, Outcomes, Started, WithinHalf,
              NetRight, Kinds
<1>3. CASE ComputeBase
  BY <1>3, BaseStep
<1>4. CASE \E k \in Kinds : AddItem(k)
  BY <1>4, ItemStep
<1>5. ASSUME NEW k \in Kinds, NEW next \in Kinds \cup {"net"}, ItemsDone(k, next)
      PROVE  IInv'
  BY <1>5 DEF IInv, ItemsDone, TypeOK, Started, WithinHalf, NetRight, Kinds,
              SelectedRate, NetOf
<1>6. CASE ComputeNet
  BY <1>6, NetStep
<1>7. CASE UNCHANGED vars
  BY <1>7 DEF vars, IInv, TypeOK, Started, WithinHalf, NetRight, SelectedRate,
              NetOf
<1> QED BY <1>1, <1>2, <1>3, <1>4, <1>5, <1>6, <1>7 DEF Next, Kinds

\* The invariant above holds of every state of every computation.
THEOREM SlipInvariant == Spec => []IInv
  BY InitIInv, NextIInv, PTL DEF Spec

\* Every state of the computation of a payslip is well typed.
THEOREM SlipTyped == Spec => []TypeOK
<1>1. IInv => TypeOK
  BY DEF IInv
<1> QED BY <1>1, SlipInvariant, PTL

\* The net pay is within half a cent of the exact pay, whatever the grain of
\* the rates and however many lines the slip has.
THEOREM RoundsOnce == Spec => []NetWithinHalfCent
<1>1. IInv => NetWithinHalfCent
  BY DEF IInv, WithinHalf, NetRight, NetWithinHalfCent
<1> QED BY <1>1, SlipInvariant, PTL

-----------------------------------------------------------------------------
(* What the lines add up to.  Itemised is defined by recursion on the number *)
(* of lines; that its value is v is stated here without induction: some      *)
(* function sums the lines, and whichever does ends at v.  A new line        *)
(* preserves that.                                                           *)

Counts(k, l) == IF l.type = k THEN l.amount.cents ELSE 0

\* f sums the lines of kind k among the first n, for every n.
Sums(f, s, k) ==
    f = [n \in 0 .. Len(s) |-> IF n = 0 THEN 0 ELSE f[n - 1] + Counts(k, s[n])]

AddUpTo(s, k, v) ==
    /\ \E f : Sums(f, s, k)
    /\ \A f : Sums(f, s, k) => f[Len(s)] = v

LEMMA ItemisedValue ==
    ASSUME NEW k, NEW v, AddUpTo(lines, k, v)
    PROVE  Itemised(k) = v
<1>1. Sums(CHOOSE f : Sums(f, lines, k), lines, k)
  BY DEF AddUpTo
<1>2. Itemised(k) = (CHOOSE f : Sums(f, lines, k))[Len(lines)]
  BY DEF Itemised, Sums, Counts
<1> QED BY <1>1, <1>2 DEF AddUpTo

LEMMA NothingAddsUp ==
    ASSUME NEW k
    PROVE  AddUpTo(<<>>, k, 0)
<1>1. Len(<<>>) = 0
  OBVIOUS
<1>2. Sums([n \in 0 .. 0 |-> 0], <<>>, k)
  BY <1>1 DEF Sums
<1>3. ASSUME NEW f, Sums(f, <<>>, k) PROVE f[Len(<<>>)] = 0
  BY <1>1, <1>3 DEF Sums
<1> QED BY <1>2, <1>3 DEF AddUpTo

\* One more line adds its amount to the sum of its kind.
LEMMA LineAddsUp ==
    ASSUME NEW s \in Seq(Line), NEW l \in Line, NEW k, NEW v \in Int, AddUpTo(s, k, v)
    PROVE  AddUpTo(Append(s, l), k, v + Counts(k, l))
<1> DEFINE t == Append(s, l)
           m == Len(s)
<1>1. /\ m \in Nat /\ Len(t) = m + 1
      /\ \A i \in 1 .. m : t[i] = s[i]
      /\ t[m + 1] = l
  OBVIOUS
<1> HIDE DEF t, m
<1>2. \A f : Sums(f, s, k) <=>
                f = [n \in 0 .. m |-> IF n = 0 THEN 0 ELSE f[n - 1] + Counts(k, s[n])]
  BY DEF Sums, m
<1>3. \A f : Sums(f, t, k) <=>
                f = [n \in 0 .. m + 1 |-> IF n = 0 THEN 0 ELSE f[n - 1] + Counts(k, t[n])]
  BY <1>1 DEF Sums
<1>4. \A i \in 1 .. m : Counts(k, t[i]) = Counts(k, s[i])
  BY <1>1
<1>5. \E f : Sums(f, t, k)
  <2>1. PICK f : Sums(f, s, k)
    BY DEF AddUpTo
  <2> DEFINE g == [n \in 0 .. m + 1 |-> IF n = m + 1 THEN f[m] + Counts(k, l) ELSE f[n]]
  <2>2. \A n \in 0 .. m : f[n] = IF n = 0 THEN 0 ELSE f[n - 1] + Counts(k, s[n])
    BY <1>2, <2>1
  <2>3. \A n \in 0 .. m + 1 :
           g[n] = IF n = 0 THEN 0 ELSE g[n - 1] + Counts(k, t[n])
    <3> TAKE n \in 0 .. m + 1
    <3>1. CASE n = 0
      BY <1>1, <2>2, <3>1
    <3>2. CASE n \in 1 .. m
      <4>1. g[n] = f[n] /\ g[n - 1] = f[n - 1]
        BY <1>1, <3>2
      <4> QED BY <1>1, <1>4, <2>2, <3>2, <4>1
    <3>3. CASE n = m + 1
      <4>1. g[n] = f[m] + Counts(k, l) /\ g[n - 1] = f[m]
        BY <1>1, <3>3
      <4> QED BY <1>1, <3>3, <4>1
    <3> QED BY <1>1, <3>1, <3>2, <3>3
  <2>4. g = [n \in 0 .. m + 1 |-> IF n = 0 THEN 0 ELSE g[n - 1] + Counts(k, t[n])]
    BY <2>3
  <2> QED BY <1>3, <2>4
<1>6. ASSUME NEW g, Sums(g, t, k) PROVE g[m + 1] = v + Counts(k, l)
  <2>1. \A n \in 0 .. m + 1 : g[n] = IF n = 0 THEN 0 ELSE g[n - 1] + Counts(k, t[n])
    BY <1>3, <1>6
  <2> DEFINE f == [n \in 0 .. m |-> g[n]]
  <2>2. f = [n \in 0 .. m |-> IF n = 0 THEN 0 ELSE f[n - 1] + Counts(k, s[n])]
    <3>1. \A n \in 0 .. m : f[n] = IF n = 0 THEN 0 ELSE f[n - 1] + Counts(k, s[n])
      BY <1>1, <1>4, <2>1
    <3> QED BY <3>1
  <2>3. f[m] = v
    BY <1>2, <2>2 DEF AddUpTo, m
  <2>4. g[m + 1] = g[m] + Counts(k, t[m + 1])
    BY <1>1, <2>1
  <2> QED BY <1>1, <2>3, <2>4
<1> QED BY <1>1, <1>5, <1>6 DEF AddUpTo, t

-----------------------------------------------------------------------------
(* What the slip itemises.                                                   *)

\* The amounts of the lines after the base pay.
Slip == [i \in 1 .. Len(lines) - 1 |-> lines[i + 1].amount.cents]

\* The rows not reached yet, and all of them.
Left == todo["bonus"] \o (todo["deduction"] \o todo["reimbursement"])
Given ==
    input.amounts["bonus"] \o input.amounts["deduction"]
       \o input.amounts["reimbursement"]

\* The slip so far, continued with the rows not reached, is what was given; it
\* begins with the base pay, and the totals are the sums of its lines.
Itemising ==
    /\ lines # <<>> /\ lines[1].amount = base
    /\ Slip \o Left = Given
    /\ pc # "bonus" => todo["bonus"] = <<>>
    /\ pc \notin {"bonus", "deduction"} => todo["deduction"] = <<>>
    /\ pc \in {"net", "payslip"} => todo["reimbursement"] = <<>>
    /\ AddUpTo(lines, "base", base.cents)
    /\ \A k \in Kinds : AddUpTo(lines, k, total[k])

SlipIInv ==
    /\ pc = "base" => lines = <<>> /\ todo = input.amounts
    /\ pc \in Kinds \cup {"net", "payslip"} => Itemising

LEMMA IntConcat ==
    ASSUME NEW s \in Seq(Int), NEW t \in Seq(Int)
    PROVE  /\ s \o t \in Seq(Int)
           /\ s \o <<>> = s /\ <<>> \o s = s
<1>1. s \o t \in Seq(Int)
  BY ConcatProperties, Zenon
<1>2. s \o <<>> = s /\ <<>> \o s = s
  BY ConcatEmptySeq, Zenon
<1> QED BY <1>1, <1>2

LEMMA IntAssociative ==
    ASSUME NEW s \in Seq(Int), NEW t \in Seq(Int), NEW u \in Seq(Int)
    PROVE  (s \o t) \o u = s \o (t \o u)
BY ConcatAssociative, SMTT(40)

\* Moving the head of a sequence to the end of the one before it.
LEMMA MoveHead ==
    ASSUME NEW p \in Seq(Int), NEW t \in Seq(Int), t # <<>>
    PROVE  Append(p, Head(t)) \o Tail(t) = p \o t
<1>1. Head(t) \in Int /\ Tail(t) \in Seq(Int)
  BY HeadTailProperties
<1>2. Append(p, Head(t)) = p \o <<Head(t)>>
  BY <1>1
<1>3. <<Head(t)>> \o Tail(t) = t
  BY <1>1
<1>4. (p \o <<Head(t)>>) \o Tail(t) = p \o (<<Head(t)>> \o Tail(t))
  <2>1. <<Head(t)>> \in Seq(Int)
    BY <1>1
  <2> QED BY <1>1, <2>1, IntAssociative, Zenon
<1> QED BY <1>2, <1>3, <1>4

LEMMA MoveHeadBefore ==
    ASSUME NEW p \in Seq(Int), NEW t \in Seq(Int), NEW rest \in Seq(Int), t # <<>>
    PROVE  Append(p, Head(t)) \o (Tail(t) \o rest) = p \o (t \o rest)
<1>1. PICK h \in Seq(Int) : h = Append(p, Head(t))
  <2>1. Append(p, Head(t)) \in Seq(Int)
    BY HeadTailProperties
  <2> QED BY <2>1
<1>2. PICK u \in Seq(Int) : u = Tail(t)
  BY HeadTailProperties
<1>3. (h \o u) \o rest = h \o (u \o rest)
  BY IntAssociative, ZenonT(60)
<1>4. (p \o t) \o rest = p \o (t \o rest)
  BY IntAssociative, ZenonT(60)
<1>5. h \o u = p \o t
  BY <1>1, <1>2, MoveHead, Zenon
<1> QED BY <1>1, <1>2, <1>3, <1>4, <1>5, Zenon

LEMMA AppendFunction ==
    ASSUME NEW n \in Nat, NEW p \in [1 .. n -> Int], NEW c \in Int, NEW q,
           q = [i \in 1 .. n + 1 |-> IF i = n + 1 THEN c ELSE p[i]]
    PROVE  q = Append(p, c)
<1>1. p \in Seq(Int) /\ Len(p) = n
  OBVIOUS
<1>2. /\ Append(p, c) \in Seq(Int) /\ Len(Append(p, c)) = n + 1
      /\ Append(p, c)[n + 1] = c
      /\ \A i \in 1 .. n : Append(p, c)[i] = p[i]
  BY <1>1
<1>3. q \in [1 .. n + 1 -> Int]
  OBVIOUS
<1>4. q \in Seq(Int) /\ Len(q) = n + 1
  BY <1>3
<1>5. \A i \in 1 .. n + 1 : q[i] = Append(p, c)[i]
  BY <1>2
<1> QED BY <1>2, <1>4, <1>5, SeqEqual

\* A new line is the slip's last.
LEMMA SlipGrows ==
    ASSUME NEW s \in Seq(Line), s # <<>>, NEW l \in Line
    PROVE  [i \in 1 .. Len(Append(s, l)) - 1 |-> Append(s, l)[i + 1].amount.cents]
              = Append([i \in 1 .. Len(s) - 1 |-> s[i + 1].amount.cents], l.amount.cents)
<1>1. PICK n \in Nat : Len(s) = n + 1
  <2>1. Len(s) \in Nat \ {0}
    BY EmptySeq
  <2>2. Len(s) - 1 \in Nat /\ Len(s) = (Len(s) - 1) + 1
    BY <2>1
  <2> QED BY <2>2
<1>2. PICK t : t = Append(s, l)
  OBVIOUS
<1>3. /\ Len(t) = n + 2 /\ t[n + 2] = l
      /\ \A i \in 1 .. n + 1 : t[i] = s[i]
  BY <1>1, <1>2
<1>4. \A i \in 1 .. n : s[i + 1] \in Line /\ t[i + 1] = s[i + 1]
  BY <1>1, <1>3
<1>5. \A j \in Line : j.amount.cents \in Int
  BY DEF Line, Cents
<1>6. PICK p : p = [i \in 1 .. n |-> s[i + 1].amount.cents]
  OBVIOUS
<1>7. PICK q : q = [i \in 1 .. n + 1 |-> t[i + 1].amount.cents]
  OBVIOUS
<1>8. p \in [1 .. n -> Int]
  BY <1>4, <1>5, <1>6
<1>9. \A i \in 1 .. n + 1 : q[i] = IF i = n + 1 THEN l.amount.cents ELSE p[i]
  <2>1. q[n + 1] = l.amount.cents
    BY <1>3, <1>7
  <2>2. \A i \in 1 .. n : q[i] = p[i]
    BY <1>4, <1>6, <1>7
  <2> QED BY <2>1, <2>2
<1>10. q = [i \in 1 .. n + 1 |-> IF i = n + 1 THEN l.amount.cents ELSE p[i]]
  BY <1>7, <1>9
<1>11. q = Append(p, l.amount.cents)
  BY <1>5, <1>8, <1>10, AppendFunction
<1>12. Len(s) - 1 = n /\ Len(t) - 1 = n + 1
  BY <1>1, <1>3
<1> QED BY <1>2, <1>6, <1>7, <1>11, <1>12

LEMMA SlipType ==
    ASSUME IInv
    PROVE  /\ Slip \in Seq(Int)
           /\ \A k \in Kinds : todo[k] \in Seq(Int) /\ input.amounts[k] \in Seq(Int)
<1>1. \A i \in 1 .. Len(lines) - 1 : lines[i + 1] \in Line
  BY DEF IInv, TypeOK
<1>2. Len(lines) \in Nat
  BY DEF IInv, TypeOK
<1>3. Slip \in Seq(Int)
  <2> DEFINE n == Len(lines) - 1
  <2>1. \A j \in Line : j.amount.cents \in Int
    BY DEF Line, Cents
  <2>2. Slip \in [1 .. n -> Int]
    BY <1>1, <2>1 DEF Slip
  <2>3. CASE n \in Nat
    BY <2>2, <2>3
  <2>4. CASE n = -1
    <3>1. Slip = <<>>
      BY <2>4 DEF Slip
    <3> QED BY <3>1
  <2> QED BY <1>2, <2>3, <2>4
<1>4. \A t \in Seq(Amounts) : t \in Seq(Int)
  BY NumbersAssumption, SeqMonotonic
<1>5. todo \in [Kinds -> Seq(Amounts)] /\ input.amounts \in [Kinds -> Seq(Amounts)]
  BY InputType DEF IInv, TypeOK
<1> QED BY <1>3, <1>4, <1>5

LEMMA BaseItemises == ASSUME IInv, SlipIInv, ComputeBase PROVE Itemising'
<1> DEFINE l == [type |-> "base", amount |-> base']
<1>1. /\ pc = "base" /\ pc' = "bonus" /\ lines = <<>> /\ lines' = <<l>>
      /\ todo = input.amounts /\ UNCHANGED <<input, todo, total>>
      /\ \A k \in Kinds : total[k] = 0
  BY DEF ComputeBase, SlipIInv, IInv, Started
<1>2. base' \in Cents /\ l \in Line
  <2>1. IInv'
    BY BaseStep
  <2> QED BY <2>1 DEF IInv, TypeOK, Line
<1>3. l.type = "base" /\ l.amount = base' /\ base'.cents \in Int
  BY <1>2 DEF Cents
<1> HIDE DEF l
<1>4. lines' = Append(<<>>, l)
  BY <1>1
<1>5. ASSUME NEW k PROVE AddUpTo(lines', k, 0 + Counts(k, l))
  <2>1. PICK s \in Seq(Line) : s = <<>>
    BY EmptySeq
  <2>2. AddUpTo(s, k, 0)
    BY <2>1, NothingAddsUp
  <2>3. AddUpTo(Append(s, l), k, 0 + Counts(k, l))
    BY <1>2, <2>2, LineAddsUp
  <2> QED BY <1>4, <2>1, <2>3
<1>6. AddUpTo(lines', "base", base'.cents)
  <2>1. 0 + Counts("base", l) = base'.cents
    BY <1>3 DEF Counts
  <2> QED BY <1>5, <2>1
<1>7. \A k \in Kinds : AddUpTo(lines', k, total'[k])
  <2>1. \A k \in Kinds : 0 + Counts(k, l) = total'[k]
    BY <1>1, <1>3 DEF Counts, Kinds
  <2> QED BY <1>5, <2>1
<1>8. Slip' = <<>>
  <2>1. Len(lines') = 1
    BY <1>1
  <2> QED BY <2>1 DEF Slip
<1>9. Slip' \o Left' = Given'
  <2>1. \A k \in Kinds : todo'[k] = input.amounts[k] /\ input.amounts[k] \in Seq(Int)
    BY <1>1, SlipType
  <2> DEFINE b == input.amounts["bonus"]
             d == input.amounts["deduction"]
             r == input.amounts["reimbursement"]
  <2>2. b \in Seq(Int) /\ d \in Seq(Int) /\ r \in Seq(Int)
    BY <2>1 DEF Kinds
  <2>3. Left' = b \o (d \o r) /\ Given' = (b \o d) \o r
    BY <1>1 DEF Left, Given
  <2> HIDE DEF b, d, r
  <2>4. d \o r \in Seq(Int) /\ (b \o d) \o r = b \o (d \o r)
    BY <2>2, IntConcat, IntAssociative, SMTT(40)
  <2>5. PICK m \in Seq(Int) : m = b \o (d \o r)
    BY <2>2, <2>4, IntConcat, Zenon
  <2>6. <<>> \o m = m
    BY ConcatEmptySeq, Zenon
  <2> QED BY <1>8, <2>3, <2>4, <2>5, <2>6, Zenon
<1> QED BY <1>1, <1>3, <1>6, <1>7, <1>9 DEF Itemising

LEMMA ItemItemises ==
    ASSUME NEW k \in Kinds, IInv, Itemising, AddItem(k)
    PROVE  Itemising'
<1> DEFINE a == Head(todo[k])
           l == [type |-> k, amount |-> [nan |-> FALSE, cents |-> a]]
<1>1. todo[k] \in Seq(Int) /\ todo[k] # <<>> /\ a \in Int /\ Tail(todo[k]) \in Seq(Int)
  BY SlipType, HeadTailProperties DEF AddItem
<1>2. Quantize(Grain * a) = a
  BY <1>1, QuantizeExact
<1>3. /\ total' = [total EXCEPT ![k] = @ + a]
      /\ lines' = Append(lines, l)
      /\ todo' = [todo EXCEPT ![k] = Tail(@)]
      /\ pc = k /\ UNCHANGED <<input, pc, base>>
  BY <1>2 DEF AddItem
<1>4. l \in Line /\ l.type = k /\ l.amount.cents = a
  BY <1>1 DEF Line, Cents
<1> HIDE DEF a, l
<1>5. /\ lines \in Seq(Line) /\ lines # <<>> /\ total \in [Kinds -> Int]
      /\ base.cents \in Int /\ todo \in [Kinds -> Seq(Amounts)]
  BY DEF IInv, TypeOK, Cents, Itemising
<1>6. lines' # <<>> /\ lines'[1].amount = base'
  <2>1. Len(lines) \in Nat \ {0}
    BY <1>5, EmptySeq
  <2>2. lines'[1] = lines[1] /\ Len(lines') = Len(lines) + 1
    BY <1>3, <1>4, <1>5, <2>1
  <2> QED BY <1>3, <2>1, <2>2 DEF Itemising
<1>7. AddUpTo(lines', "base", base'.cents)
  <2>1. Counts("base", l) = 0
    BY <1>4 DEF Counts, Kinds
  <2>2. AddUpTo(lines', "base", base.cents + Counts("base", l))
    BY <1>3, <1>4, <1>5, LineAddsUp DEF Itemising
  <2>3. base.cents + Counts("base", l) = base'.cents
    BY <1>3, <1>5, <2>1
  <2> QED BY <2>2, <2>3
<1>8. ASSUME NEW j \in Kinds PROVE AddUpTo(lines', j, total'[j])
  <2>1. AddUpTo(lines', j, total[j] + Counts(j, l))
    BY <1>3, <1>4, <1>5, LineAddsUp DEF Itemising
  <2>2. total'[j] = total[j] + Counts(j, l)
    BY <1>1, <1>3, <1>4, <1>5 DEF Counts
  <2> QED BY <2>1, <2>2
<1>9. Slip' = Append(Slip, a)
  BY <1>3, <1>4, <1>5, SlipGrows DEF Slip
<1>10. Slip' \o Left' = Slip \o Left
  <2> DEFINE p == Slip
             b == todo["bonus"]
             d == todo["deduction"]
             r == todo["reimbursement"]
  <2>1. /\ p \in Seq(Int) /\ b \in Seq(Int) /\ d \in Seq(Int) /\ r \in Seq(Int)
    BY SlipType DEF Kinds
  <2>2. /\ todo'["bonus"] = IF k = "bonus" THEN Tail(b) ELSE b
        /\ todo'["deduction"] = IF k = "deduction" THEN Tail(d) ELSE d
        /\ todo'["reimbursement"] = IF k = "reimbursement" THEN Tail(r) ELSE r
    BY <1>3, <1>5 DEF Kinds
  <2>3. Left = b \o (d \o r) /\ Slip = p
    BY DEF Left
  <2>4. /\ k = "bonus" => b = todo[k]
        /\ k = "deduction" => b = <<>> /\ d = todo[k]
        /\ k = "reimbursement" => b = <<>> /\ d = <<>> /\ r = todo[k]
    BY <1>3 DEF Itemising
  <2> HIDE DEF p, b, d, r
  <2>5. PICK u \in Seq(Int) : u = todo[k]
    BY <1>1
  <2>6. /\ Append(p, a) \o Tail(u) = p \o u
        /\ \A rest \in Seq(Int) : Append(p, a) \o (Tail(u) \o rest) = p \o (u \o rest)
        /\ Tail(u) \in Seq(Int)
    <3>1. u # <<>> /\ a = Head(u) /\ Tail(u) \in Seq(Int)
      BY <1>1, <2>5 DEF a
    <3>2. p \in Seq(Int)
      BY <2>1
    <3>3. Append(p, Head(u)) \o Tail(u) = p \o u
      BY <3>1, <3>2, MoveHead, Zenon
    <3>4. \A rest \in Seq(Int) :
             Append(p, Head(u)) \o (Tail(u) \o rest) = p \o (u \o rest)
      BY <3>1, <3>2, MoveHeadBefore, Zenon
    <3> QED BY <3>1, <3>3, <3>4, Zenon
  <2>7. CASE k = "bonus"
    <3>1. Left' = Tail(u) \o (d \o r)
      BY <2>2, <2>4, <2>5, <2>7 DEF Left
    <3>2. d \o r \in Seq(Int)
      BY <2>1, IntConcat
    <3> QED BY <1>9, <2>3, <2>4, <2>5, <2>6, <2>7, <3>1, <3>2
  <2>8. CASE k = "deduction"
    <3>1. Left = d \o r
      BY <2>1, <2>3, <2>4, <2>8, IntConcat
    <3>2. Left' = Tail(u) \o r
      <4>1. Tail(u) \o r \in Seq(Int)
        BY <2>1, <2>6, IntConcat
      <4>2. Left' = b \o (Tail(u) \o r)
        BY <2>2, <2>4, <2>5, <2>8 DEF Left
      <4> QED BY <2>4, <2>8, <4>1, <4>2, IntConcat
    <3>3. Append(p, a) \o (Tail(u) \o r) = p \o (u \o r)
      BY <2>1, <2>6
    <3>4. d = u
      BY <2>4, <2>5, <2>8
    <3> QED BY <1>9, <2>3, <3>1, <3>2, <3>3, <3>4
  <2>9. CASE k = "reimbursement"
    <3>1. Left = r
      BY <2>1, <2>3, <2>4, <2>9, IntConcat
    <3>2. Left' = Tail(u)
      <4>1. Left' = b \o (d \o Tail(u))
        BY <2>2, <2>4, <2>5, <2>9 DEF Left
      <4> QED BY <2>4, <2>6, <2>9, <4>1, IntConcat
    <3> QED BY <1>9, <2>3, <2>4, <2>5, <2>6, <2>9, <3>1, <3>2
  <2> QED BY <2>7, <2>8, <2>9 DEF Kinds
<1>11. Given' = Given
  BY <1>3 DEF Given
<1>12. /\ pc' # "bonus" => todo'["bonus"] = <<>>
       /\ pc' \notin {"bonus", "deduction"} => todo'["deduction"] = <<>>
       /\ pc' \in {"net", "payslip"} => todo'["reimbursement"] = <<>>
  BY <1>3, <1>5 DEF Itemising, Kinds
<1>13. Slip \o Left = Given
  BY DEF Itemising
<1> QED BY <1>6, <1>7, <1>8, <1>10, <1>11, <1>12, <1>13 DEF Itemising

LEMMA SlipStep == ASSUME IInv, SlipIInv, [Next]_vars PROVE SlipIInv'
<1> USE DEF Kinds
<1>1. CASE BaseMissing \/ BaseUnquantizable
  BY <1>1 DEF BaseMissing, BaseUnquantizable, SlipIInv
<1>2. CASE ComputeBase
  BY <1>2, BaseItemises DEF SlipIInv, ComputeBase
<1>3. ASSUME NEW k \in Kinds, AddItem(k) PROVE SlipIInv'
  <2>1. pc = k /\ pc' = pc
    BY <1>3 DEF AddItem
  <2> QED BY <1>3, <2>1, ItemItemises DEF SlipIInv
<1>4. CASE \/ ItemsDone("bonus", "deduction") \/ ItemsDone("deduction", "reimbursement")
           \/ ItemsDone("reimbursement", "net") \/ ComputeNet
  <2>1. /\ UNCHANGED <<input, todo, base, total, lines>>
        /\ Itemising
        /\ pc' \in {"deduction", "reimbursement", "net", "payslip"}
    BY <1>4 DEF ItemsDone, ComputeNet, SlipIInv
  <2>2. Slip' = Slip /\ Left' = Left /\ Given' = Given
    BY <2>1 DEF Slip, Left, Given
  <2>3. /\ todo'["bonus"] = <<>>
        /\ pc' \notin {"bonus", "deduction"} => todo'["deduction"] = <<>>
        /\ pc' \in {"net", "payslip"} => todo'["reimbursement"] = <<>>
    BY <1>4, <2>1 DEF ItemsDone, ComputeNet, Itemising
  <2>4. Itemising'
    BY <2>1, <2>2, <2>3 DEF Itemising
  <2> QED BY <2>1, <2>4 DEF SlipIInv
<1>5. CASE UNCHANGED vars
  <2>1. Slip' = Slip /\ Left' = Left /\ Given' = Given
    BY <1>5 DEF vars, Slip, Left, Given
  <2>2. Itemising => Itemising'
    BY <1>5, <2>1 DEF vars, Itemising
  <2> QED BY <1>5, <2>2 DEF vars, SlipIInv
<1> QED BY <1>1, <1>2, <1>3, <1>4, <1>5 DEF Next

LEMMA SlipResult == ASSUME IInv, SlipIInv PROVE SlipAddsUp
<1> SUFFICES ASSUME pc = "payslip" PROVE SlipAddsUp
  BY DEF SlipAddsUp
<1>1. Itemising
  BY DEF SlipIInv
<1>2. /\ todo["bonus"] = <<>> /\ todo["deduction"] = <<>>
      /\ todo["reimbursement"] = <<>>
  BY <1>1 DEF Itemising
<1>3. Left = <<>>
  BY <1>2, ConcatEmptySeq DEF Left
<1>4. Slip = Given
  <2>1. Slip \in Seq(Int)
    BY SlipType
  <2>2. Slip \o <<>> = Slip
    BY <2>1, ConcatEmptySeq
  <2> QED BY <1>1, <1>3, <2>2 DEF Itemising
<1>5. /\ \A k \in Kinds : Itemised(k) = total[k]
      /\ Itemised("base") = base.cents
  BY <1>1, ItemisedValue DEF Itemising
<1>6. ~net.nan => net.cents = NetOf(base.cents)
  BY DEF IInv, NetRight, NaN
<1>7. NetOf(base.cents) = Itemised("base") + Itemised("bonus")
                            + Itemised("reimbursement") - Itemised("deduction")
  BY <1>5 DEF NetOf, Kinds
<1> QED BY <1>1, <1>4, <1>5, <1>6, <1>7 DEF SlipAddsUp, Slip, Given, Itemising

\* A payslip itemises the base pay and then each row it was given, once and in
\* order; the totals on it are the sums of its lines, and its net pay is what
\* the lines add up to.
THEOREM SlipSums == Spec => []SlipAddsUp
<1>1. Init => SlipIInv
  BY DEF Init, SlipIInv, Kinds
<1>2. IInv /\ SlipIInv /\ [Next]_vars => SlipIInv'
  BY SlipStep
<1>3. IInv /\ SlipIInv => SlipAddsUp
  BY SlipResult
<1> QED BY <1>1, <1>2, <1>3, SlipInvariant, PTL DEF Spec
=============================================================================
