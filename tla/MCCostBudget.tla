---------------------------- MODULE MCCostBudget ----------------------------
(* Small instances of CostBudget for TLC. *)
EXTENDS CostBudget, TLC

TwoTiers == {1, 2}
OddCosts == {1, 3}

Alike == Permutations(Session)
=============================================================================
