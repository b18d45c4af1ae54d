----------------------------- MODULE MCPurchases ------------------------------
(* Instances of Purchases for TLC: the rate published changes with the date. *)
EXTENDS Purchases, TLC

MCRateOn == [d \in Dates |-> d]

Symmetry ==
  Permutations(Coins) \union Permutations(Expenses) \union Permutations(Requests)
=============================================================================
