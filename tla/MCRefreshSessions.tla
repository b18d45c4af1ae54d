-------------------------- MODULE MCRefreshSessions --------------------------
(* Instances of RefreshSessions for TLC: one account, rows in id order. *)
EXTENDS RefreshSessions, TLC

CONSTANTS f1, f2, u1, u2

OneUser == f1 :> u1 @@ f2 :> u1
TwoUsers == f1 :> u1 @@ f2 :> u2
OneFamily == f1 :> u1

\* The rows of f1 before those of f2, each family's in the order it grew.
InIdOrder ==
  [t \in TokenIds |-> t[2] + (IF t[1] = f1 THEN 0 ELSE MaxRotations + 1)]

\* Two accounts never share a scan: only the order within a family tells.
InFamilyOrder == [t \in TokenIds |-> t[2]]

\* Either request, and either account with its sign-in, may stand for the other.
Swapped == f1 :> f2 @@ f2 :> f1 @@ u1 :> u2 @@ u2 :> u1
Symmetry == Permutations(Requests)
UserSymmetry == Symmetry \union {Swapped}
=============================================================================
