---------------------------- MODULE MCPayslipCalc ----------------------------
(* Small instances of PayslipCalc: four parts to the cent.                 *)
EXTENDS PayslipCalc

\* Rates whose multiples fall on, below and above a half cent, either sign.
SmallParts == {-2, 3}
\* A deduction can be entered with a minus sign: the form has no minimum.
SmallAmounts == {-1, 2}
=============================================================================
