----------------------------- MODULE MCCostGate -----------------------------
(* Small instances of CostGate: calls that overlap, an estimate and limits  *)
(* that one call fits in and two do not, an estimate of negative token      *)
(* counts, and one midnight.                                                *)
EXTENDS CostGate, TLC

SomeEstimates == {-1, 2}

CallSymmetry == Permutations(Calls)
=============================================================================
