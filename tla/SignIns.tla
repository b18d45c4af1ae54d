------------------------------- MODULE SignIns -------------------------------
(***************************************************************************)
(* What the backend promises about sign-ins, with no tokens in sight.      *)
(*                                                                         *)
(* A sign-in (a refresh-token family) is opened once, stays open without   *)
(* interruption however often its token rotates, and once ended is never   *)
(* open again.  One database transaction touches the sign-ins of one user. *)
(* `RefreshSessions` implements this with rotating tokens, row locks and   *)
(* a grace window.                                                         *)
(***************************************************************************)
EXTENDS Naturals, FiniteSets

CONSTANTS
  Users,     \* accounts
  Families,  \* sign-ins that may ever happen
  Owner      \* the account each sign-in belongs to, of [Families -> Users]

VARIABLE status  \* status[f]: "never" | "open" | "ended"

TypeOK == status \in [Families -> {"never", "open", "ended"}]

Init == status = [f \in Families |-> "never"]

\* A transaction of user u opens at most one new sign-in and ends some of the
\* open ones.
Transact(u, opened, closed) ==
  /\ opened \subseteq {f \in Families : Owner[f] = u /\ status[f] = "never"}
  /\ closed \subseteq {f \in Families : Owner[f] = u /\ status[f] = "open"}
  /\ \A f, g \in opened : f = g
  /\ status' = [f \in Families |->
                  IF f \in opened THEN "open"
                  ELSE IF f \in closed THEN "ended"
                  ELSE status[f]]

Next == \E u \in Users, opened, closed \in SUBSET Families :
          Transact(u, opened, closed)

Spec == Init /\ [][Next]_status
=============================================================================
