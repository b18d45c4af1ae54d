---------------------------- MODULE MCCredentials ----------------------------
(* Instances of Credentials for TLC. *)
EXTENDS Credentials, TLC

CONSTANTS v1, l1, l2

\* One confirmation link and two reset links.
OneOfVerify ==
  v1 :> "email_verify" @@ l1 :> "password_reset" @@ l2 :> "password_reset"
TwoResets == l1 :> "password_reset" @@ l2 :> "password_reset"

Symmetry == Permutations(Requests) \union Permutations(SignIns)
              \union Permutations(Passwords)
=============================================================================
