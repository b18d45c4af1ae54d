------------------------------ MODULE AdminRoles ------------------------------
(***************************************************************************)
(* Who administers the system (services/admin_users.py and the script      *)
(* promote_admin.py), at the granularity of row locks on `users`.          *)
(*                                                                         *)
(* To demote, a request locks every administrator in the order of ids      *)
(* before it counts them; to promote, the one row.  The script locks       *)
(* nothing.  Every change leaves an audit row naming the role before it.   *)
(***************************************************************************)
EXTENDS Naturals, FiniteSets

CONSTANTS
  Users,    \* ids of registered users
  NoUser,   \* nobody, in a request at rest
  Requests  \* requests and runs of the script in flight at once

ASSUME UsersAssumption == Users \subseteq Nat /\ IsFiniteSet(Users)
ASSUME NoUserAssumption == NoUser \notin Users

Roles == {"user", "admin"}

VARIABLES
  role,      \* users.role
  verified,  \* users whose email_verified is set; is_active goes with it
  req        \* the transactions in flight

vars == <<role, verified, req>>

(***************************************************************************)
(* `loaded` is the role read of the target, `admins` the rows lock_admins  *)
(* returns, `todo` the rows its scan has still to visit.                   *)
(***************************************************************************)
Request ==
  [phase : {"idle", "scan", "locking", "target", "judge", "script"},
   actor : Users \union {NoUser}, user : Users \union {NoUser},
   to : Roles, loaded : Roles, admins : SUBSET Users,
   todo : SUBSET Users, held : SUBSET Users]

Idle == [phase |-> "idle", actor |-> NoUser, user |-> NoUser, to |-> "user",
         loaded |-> "user", admins |-> {}, todo |-> {}, held |-> {}]

TypeOK ==
  /\ role \in [Users -> Roles]
  /\ verified \subseteq Users
  /\ req \in [Requests -> Request]

Admins == {u \in Users : role[u] = "admin"}

Init ==
  /\ role = [u \in Users |-> "user"]
  /\ verified = {}
  /\ req = [r \in Requests |-> Idle]

\* Mutant of LockFree: a row the transaction has locked already is waited for.
LockFreeNotReentrant(r, u) == \A q \in Requests : u \notin req[q].held

LockFree(r, u) == \A q \in Requests \ {r} : u \notin req[q].held

First(rows) == {u \in rows : \A v \in rows : u <= v}

Finish(r) == req' = [req EXCEPT ![r] = Idle]

\* verify_email
Verify(u) ==
  /\ verified' = verified \union {u}
  /\ UNCHANGED <<role, req>>

-----------------------------------------------------------------------------
(***************************************************************************)
(* PATCH /admin/users/{id}/role                                            *)
(***************************************************************************)

\* require_admin reads the actor without a lock, and so it stays in the session.
StartSetRole(r, a, u, to) ==
  /\ req[r] = Idle
  /\ a \in Admins \intersect verified
  /\ req' = [req EXCEPT ![r] = [Idle EXCEPT
               !.phase = IF to = "user" THEN "scan" ELSE "target",
               !.actor = a, !.user = u, !.to = to]]
  /\ UNCHANGED <<role, verified>>

\* lock_admins: SELECT ... WHERE role = 'admin' ORDER BY id FOR UPDATE
ScanAdmins(r) ==
  /\ req[r].phase = "scan"
  /\ req' = [req EXCEPT ![r] = [req[r] EXCEPT !.phase = "locking", !.todo = Admins]]
  /\ UNCHANGED <<role, verified>>

\* Mutant of LockAdmin: without ORDER BY the rows come in any order.
LockAdminUnordered(r) ==
  /\ req[r].phase = "locking"
  /\ \E u \in req[r].todo :
       /\ LockFree(r, u)
       /\ req' = [req EXCEPT ![r] = [req[r] EXCEPT
                    !.todo = req[r].todo \ {u},
                    !.held = req[r].held \union {u},
                    !.admins = req[r].admins \union {u}]]
  /\ UNCHANGED <<role, verified>>

\* A row that is no administrator's any more when its lock is granted is kept
\* locked and left out of the answer.
LockAdmin(r) ==
  /\ req[r].phase = "locking"
  /\ \E u \in First(req[r].todo) :
       /\ LockFree(r, u)
       /\ req' = [req EXCEPT ![r] = [req[r] EXCEPT
                    !.todo = req[r].todo \ {u},
                    !.held = req[r].held \union {u},
                    !.admins = req[r].admins \union ({u} \intersect Admins)]]
  /\ UNCHANGED <<role, verified>>

\* The target is one of the rows returned, or has to be locked on its own.
FindTarget(r) ==
  /\ req[r].phase = "locking"
  /\ req[r].todo = {}
  /\ req' = [req EXCEPT ![r] =
               IF req[r].user \in req[r].admins
               THEN [req[r] EXCEPT !.phase = "judge", !.loaded = "admin"]
               ELSE [req[r] EXCEPT !.phase = "target"]]
  /\ UNCHANGED <<role, verified>>

\* Mutant of LockTarget: the target is read without FOR UPDATE.
LockTargetUnlocked(r) ==
  /\ req[r].phase = "target"
  /\ req' = [req EXCEPT ![r] = [req[r] EXCEPT
               !.phase = "judge", !.loaded = role[req[r].user]]]
  /\ UNCHANGED <<role, verified>>

\* lock_user.  The actor is in the session already: its row is locked, and its
\* role stays as it was read first.
LockTarget(r) ==
  LET u == req[r].user IN
  /\ req[r].phase = "target"
  /\ LockFree(r, u)
  /\ req' = [req EXCEPT ![r] = [req[r] EXCEPT
               !.phase = "judge",
               !.loaded = IF u = req[r].actor THEN "admin" ELSE role[u],
               !.held = req[r].held \union {u}]]
  /\ UNCHANGED <<role, verified>>

\* Mutant of Allowed: the last administrator is not counted.
AllowedLastAdmin(r) ==
  /\ ~ (req[r].user = req[r].actor /\ req[r].to = "user")
  /\ req[r].loaded # req[r].to
  /\ req[r].to = "admin" => req[r].user \in verified

\* No one demotes himself, no one unverified is promoted, and of the
\* administrators one is left.
Allowed(r) ==
  /\ ~ (req[r].user = req[r].actor /\ req[r].to = "user")
  /\ req[r].loaded # req[r].to
  /\ req[r].to = "admin" => req[r].user \in verified
  /\ req[r].to = "user" => Cardinality(req[r].admins) > 1

Refuse(r) ==
  /\ req[r].phase = "judge"
  /\ ~ Allowed(r)
  /\ Finish(r)
  /\ UNCHANGED <<role, verified>>

\* The audit row refers to the actor, whose row nobody else may hold locked.
CommitRole(r) ==
  /\ req[r].phase = "judge"
  /\ Allowed(r)
  /\ LockFree(r, req[r].actor)
  /\ role' = [role EXCEPT ![req[r].user] = req[r].to]
  /\ Finish(r)
  /\ UNCHANGED verified

-----------------------------------------------------------------------------
(***************************************************************************)
(* promote_admin.py: a plain read, a plain write.                          *)
(***************************************************************************)
StartScript(r, u, to) ==
  /\ req[r] = Idle
  /\ to = "admin" => u \in verified
  /\ role[u] # to
  /\ req' = [req EXCEPT ![r] = [Idle EXCEPT
               !.phase = "script", !.user = u, !.to = to, !.loaded = role[u]]]
  /\ UNCHANGED <<role, verified>>

CommitScript(r) ==
  /\ req[r].phase = "script"
  /\ LockFree(r, req[r].user)
  /\ role' = [role EXCEPT ![req[r].user] = req[r].to]
  /\ Finish(r)
  /\ UNCHANGED verified

-----------------------------------------------------------------------------
\* The connection or the worker is lost before COMMIT.
Abort(r) ==
  /\ req[r] # Idle
  /\ Finish(r)
  /\ UNCHANGED <<role, verified>>

\* The row the transaction needs next.
Wanted(r) ==
  CASE req[r].phase = "locking" -> First(req[r].todo)
    [] req[r].phase \in {"target", "script"} -> {req[r].user}
    [] req[r].phase = "judge" /\ Allowed(r) -> {req[r].actor}
    [] OTHER -> {}

\* PostgreSQL fails one of the transactions that wait for each other in a circle.
BreakDeadlock(r) ==
  /\ \E S \in SUBSET Requests :
       /\ r \in S
       /\ \A p \in S : \E q \in S \ {p} : Wanted(p) \intersect req[q].held # {}
  /\ Finish(r)
  /\ UNCHANGED <<role, verified>>

Step(r) ==
  \/ ScanAdmins(r)
  \/ LockAdmin(r)
  \/ FindTarget(r)
  \/ LockTarget(r)
  \/ Refuse(r)
  \/ CommitRole(r)
  \/ CommitScript(r)

Next ==
  \/ \E u \in Users : Verify(u)
  \/ \E r \in Requests :
       \/ \E a, u \in Users, to \in Roles : StartSetRole(r, a, u, to)
       \/ \E u \in Users, to \in Roles : StartScript(r, u, to)
       \/ Step(r)
       \/ Abort(r)
       \/ BreakDeadlock(r)

Spec == Init /\ [][Next]_vars

\* A request that can run runs on, and a row's waiters are queued.
Fairness == \A r \in Requests : SF_vars(Step(r)) /\ WF_vars(BreakDeadlock(r))
FairSpec == Spec /\ Fairness

-----------------------------------------------------------------------------
(***************************************************************************)
(* Properties                                                              *)
(***************************************************************************)

\* Administrators who demote one another at once, in any number, never leave
\* the system without one: whoever is demoted in the admin section, somebody
\* else still holds the role when the change commits (set_role locks and counts
\* the administrators first).
KeepsAnAdmin ==
  [][\A r \in Requests :
       CommitRole(r) => \E u \in Users : role'[u] = "admin"]_vars

\* The audit row tells the truth: the role a change names as the one before is
\* the one the user had when the change committed, so of two equal changes at
\* once one is refused as done (lock_user).
AuditTellsTruth ==
  [][\A r \in Requests : CommitRole(r) => role[req[r].user] = req[r].loaded]_vars

\* Every role request is answered: locks on administrators, on a target and on
\* the actor an audit row refers to do not leave requests waiting for ever.
EventuallyAnswered == \A r \in Requests : req[r] # Idle ~> req[r] = Idle

(***************************************************************************)
(* The inductive invariant behind the first two.                           *)
(***************************************************************************)

\* A row has at most one transaction holding it.
Exclusive ==
  \A p, q \in Requests : p # q => req[p].held \intersect req[q].held = {}

\* Administrators are people whose address is confirmed.
AdminsVerified == Admins \subseteq verified

\* What a request has established by the phase it is in.
Knows(r) ==
  /\ req[r].phase # "idle" => req[r].user \in Users
  /\ req[r].phase = "script" /\ req[r].to = "admin" => req[r].user \in verified
  /\ req[r].admins \subseteq req[r].held \intersect Admins
  /\ req[r].phase \in {"scan", "locking", "target", "judge"} =>
       req[r].actor \in Users
  /\ req[r].phase = "judge" =>
       /\ req[r].user \in req[r].held
       /\ req[r].user # req[r].actor => role[req[r].user] = req[r].loaded
       /\ req[r].user = req[r].actor => req[r].loaded = "admin"

IInv ==
  /\ TypeOK
  /\ Exclusive
  /\ AdminsVerified
  /\ \A r \in Requests : Knows(r)
=============================================================================
