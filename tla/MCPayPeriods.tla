---------------------------- MODULE MCPayPeriods ----------------------------
(* Small instances of PayPeriods.                                          *)
EXTENDS PayPeriods, TLC

Symmetry == Permutations(Workers) \cup Permutations(Users)
=============================================================================
