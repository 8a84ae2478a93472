--------------------------- MODULE MCChurnFeatures ---------------------------
(* ChurnFeatures for TLC: two customers, days of two ticks, a "week" of one  *)
(* day and a "quarter" of two.                                               *)
EXTENDS ChurnFeatures, TLC

CustomerSymmetry == Permutations(Customers)
=============================================================================
