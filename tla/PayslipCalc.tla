---------------------------- MODULE PayslipCalc ----------------------------
(***************************************************************************)
(* calculate_payslip: one employee's pay, one line at a time.              *)
(*                                                                         *)
(* Decimals are integers.  A part is one Grain-th of a cent, fine enough   *)
(* for every rate and every rate times quantity of the instance; an amount *)
(* of compensation is in cents, the two decimal places its form field      *)
(* allows.  A rate may also be absent, and, as the CSV import takes any    *)
(* text that Decimal() parses, it may be a NaN or an infinity.             *)
(***************************************************************************)
EXTENDS Integers, SequencesExt

CONSTANTS
    Grain,       \* parts in a cent
    Parts,       \* finite rates: parts per hundredth of an hour or unit, or
                 \* parts, for a salary
    Quantities,  \* hours or units, in hundredths
    Amounts,     \* compensation amounts, in cents
    MaxItems     \* bound: compensation rows of one kind

ASSUME GrainAssumption == Grain \in Nat \ {0}
ASSUME NumbersAssumption ==
    Parts \subseteq Int /\ Quantities \subseteq Nat /\ Amounts \subseteq Int
ASSUME ItemsAssumption == MaxItems \in Nat

Bases == {"fixed", "hourly", "unit"}
Kinds == {"bonus", "deduction", "reimbursement"}

Rate == [kind : {"finite"}, parts : Parts]
          \cup [kind : {"null", "nan", "inf"}, parts : {0}]

\* hours_worked and units_processed; {} when none was entered.
Entered == {{}} \cup {{q} : q \in Quantities}

PayrollInput == [basis : Bases,
                 rate : [Bases -> Rate],   \* base_salary, hourly_rate, unit_rate
                 quantity : [{"hourly", "unit"} -> Entered],
                 amounts : [Kinds -> BoundedSeq(Amounts, MaxItems)]]

Cents == [nan : BOOLEAN, cents : Int]     \* a two-place Decimal, or NaN

\* Decimal("NaN").
NaN == [nan |-> TRUE, cents |-> 0]

Line == [type : Kinds \cup {"base"}, amount : Cents]

VARIABLES
    input,  \* the PayrollInput
    pc,     \* the part of the slip computed next, or the outcome
    todo,   \* kind -> amounts its loop has not reached
    base,   \* base_pay
    total,  \* kind -> bonuses_total, deductions_total, reimbursements_total
    lines,  \* the itemised lines
    net,    \* net_pay
    exact   \* the unrounded pay so far, in parts

vars == <<input, pc, todo, base, total, lines, net, exact>>

Outcomes == {"payslip", "ValueError", "InvalidOperation"}

Zero == [nan |-> FALSE, cents |-> 0]

Init ==
    /\ input \in PayrollInput
    /\ pc = "base"
    /\ todo = input.amounts
    /\ base = Zero
    /\ total = [k \in Kinds |-> 0]
    /\ lines = <<>>
    /\ net = Zero
    /\ exact = 0

\* quantize(0.01, ROUND_HALF_UP): parts to cents, a half away from zero; the
\* variant rounds down, as int() does.
QuantizeVariant(x) == IF x >= 0 THEN x \div Grain ELSE -((-x) \div Grain)
Quantize(x) == IF x >= 0 THEN (2 * x + Grain) \div (2 * Grain)
                         ELSE -((Grain - 2 * x) \div (2 * Grain))

\* The rate pay_basis selects; the others may be left over from another basis.
SelectedRate == input.rate[input.basis]

\* What the rate is multiplied with: nothing for a salary.
Multiplier ==
    IF input.basis = "fixed" THEN {1} ELSE input.quantity[input.basis]

\* _compute_base raises ValueError: a rate or a quantity is missing.  The
\* variant does not test for None, and multiplies it.
BaseMissingVariant ==
    /\ pc = "base"
    /\ SelectedRate.kind = "null" \/ Multiplier = {}
    /\ pc' = "TypeError"
    /\ UNCHANGED <<input, todo, base, total, lines, net, exact>>
BaseMissing ==
    /\ pc = "base"
    /\ SelectedRate.kind = "null" \/ Multiplier = {}
    /\ pc' = "ValueError"
    /\ UNCHANGED <<input, todo, base, total, lines, net, exact>>

\* An infinity cannot be quantized, nor multiplied with zero.
BaseUnquantizable ==
    /\ pc = "base"
    /\ SelectedRate.kind = "inf" /\ Multiplier # {}
    /\ pc' = "InvalidOperation"
    /\ UNCHANGED <<input, todo, base, total, lines, net, exact>>

\* A quiet NaN goes through every operation.
ComputeBase ==
    /\ pc = "base"
    /\ SelectedRate.kind \in {"finite", "nan"}
    /\ \E q \in Multiplier :
          /\ exact' = SelectedRate.parts * q
          /\ base' = IF SelectedRate.kind = "nan" THEN NaN
                     ELSE [nan |-> FALSE,
                           cents |-> Quantize(SelectedRate.parts * q)]
    /\ lines' = <<[type |-> "base", amount |-> base']>>
    /\ pc' = "bonus"
    /\ UNCHANGED <<input, todo, total, net>>

\* Whether a line of this kind adds to the net pay or is taken off it.
Sign(k) == IF k = "deduction" THEN -1 ELSE 1

\* One turn of the loop over the rows of kind k.
AddItem(k) ==
    /\ pc = k
    /\ todo[k] # <<>>
    /\ LET a == Head(todo[k])
           amount == Quantize(Grain * a)
       IN /\ total' = [total EXCEPT ![k] = @ + amount]
          /\ lines' = Append(lines, [type |-> k,
                                     amount |-> [nan |-> FALSE, cents |-> amount]])
          /\ exact' = exact + Sign(k) * Grain * a
    /\ todo' = [todo EXCEPT ![k] = Tail(@)]
    /\ UNCHANGED <<input, pc, base, net>>

ItemsDone(k, next) ==
    /\ pc = k
    /\ todo[k] = <<>>
    /\ pc' = next
    /\ UNCHANGED <<input, todo, base, total, lines, net, exact>>

\* base + bonuses + reimbursements - deductions; the variant pays deductions
\* out and takes reimbursements off.
NetOfVariant(b) ==
    b + total["bonus"] + total["deduction"] - total["reimbursement"]
NetOf(b) == b + total["bonus"] + total["reimbursement"] - total["deduction"]

ComputeNet ==
    /\ pc = "net"
    /\ net' = IF base.nan THEN NaN
              ELSE [nan |-> FALSE, cents |-> Quantize(Grain * NetOf(base.cents))]
    /\ pc' = "payslip"
    /\ UNCHANGED <<input, todo, base, total, lines, exact>>

Next ==
    \/ BaseMissing \/ BaseUnquantizable \/ ComputeBase
    \/ \E k \in Kinds : AddItem(k)
    \/ ItemsDone("bonus", "deduction")
    \/ ItemsDone("deduction", "reimbursement")
    \/ ItemsDone("reimbursement", "net")
    \/ ComputeNet

Spec == Init /\ [][Next]_vars

-----------------------------------------------------------------------------
(* Properties.                                                             *)

TypeOK ==
    /\ input \in PayrollInput
    /\ pc \in {"base", "net"} \cup Kinds \cup Outcomes
    /\ todo \in [Kinds -> Seq(Amounts)]
    /\ base \in Cents
    /\ total \in [Kinds -> Int]
    /\ lines \in Seq(Line)
    /\ net \in Cents
    /\ exact \in Int

\* However many lines a slip has, rounding moves the net pay by at most half a
\* cent, and only a NaN rate makes it a NaN.
NetWithinHalfCent ==
    pc = "payslip" =>
       IF SelectedRate.kind = "nan" THEN net = NaN
       ELSE /\ ~net.nan
            /\ 2 * (Grain * net.cents - exact) \in -Grain .. Grain

\* What the lines of kind k amount to: the sum of their first n, for n the
\* number of lines.
Itemised(k) ==
    LET sum[n \in 0 .. Len(lines)] ==
          IF n = 0 THEN 0
          ELSE sum[n - 1] + (IF lines[n].type = k THEN lines[n].amount.cents ELSE 0)
    IN sum[Len(lines)]

\* A slip itemises the base pay and then each row it was given, once and in
\* order; the totals are the sums of their lines, and the net pay is what the
\* lines add up to.
SlipAddsUp ==
    pc = "payslip" =>
       /\ [i \in 1 .. Len(lines) - 1 |-> lines[i + 1].amount.cents]
             = input.amounts["bonus"] \o input.amounts["deduction"]
                  \o input.amounts["reimbursement"]
       /\ \A k \in Kinds : total[k] = Itemised(k)
       /\ lines[1].amount = base
       /\ ~net.nan =>
             net.cents = Itemised("base") + Itemised("bonus")
                           + Itemised("reimbursement") - Itemised("deduction")
=============================================================================
