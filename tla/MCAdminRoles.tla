----------------------------- MODULE MCAdminRoles -----------------------------
(* Instances of AdminRoles for TLC: users are small numbers, because the      *)
(* order of their ids is the order in which rows are locked.                  *)
EXTENDS AdminRoles, TLC

RequestSymmetry == Permutations(Requests)
=============================================================================
