-------------------------- MODULE AdminRoles_proofs --------------------------
(***************************************************************************)
(* Proofs about AdminRoles, for any finite set of users and any number of  *)
(* concurrent requests.                                                    *)
(***************************************************************************)
EXTENDS AdminRoles, FiniteSetTheorems, TLAPS

USE UsersAssumption, NoUserAssumption

-----------------------------------------------------------------------------
(* Type correctness. *)

LEMMA IdleTyped == Idle \in Request
  BY DEF Idle, Request, Roles

\* Each of the records the steps write is well formed.
LEMMA StartTyped ==
  ASSUME NEW u \in Users, NEW to \in Roles
  PROVE  /\ \A a \in Users :
              [Idle EXCEPT !.phase = IF to = "user" THEN "scan" ELSE "target",
                           !.actor = a, !.user = u, !.to = to] \in Request
         /\ \A l \in Roles :
              [Idle EXCEPT !.phase = "script", !.user = u, !.to = to,
                           !.loaded = l] \in Request
  BY DEF Idle, Request, Roles

LEMMA FieldsTyped ==
  ASSUME NEW x \in Request
  PROVE  /\ \A rows \in SUBSET Users :
              [x EXCEPT !.phase = "locking", !.todo = rows] \in Request
         /\ \A t, h, a \in SUBSET Users :
              [x EXCEPT !.todo = t, !.held = h, !.admins = a] \in Request
         /\ [x EXCEPT !.phase = "judge", !.loaded = "admin"] \in Request
         /\ [x EXCEPT !.phase = "target"] \in Request
         /\ \A l \in Roles, h \in SUBSET Users :
              [x EXCEPT !.phase = "judge", !.loaded = l, !.held = h] \in Request
  BY DEF Request, Roles

-----------------------------------------------------------------------------
(* The invariant. *)

\* What a request's record says of the roles and of the rows it has locked.
Sound(x) ==
  /\ x.phase # "idle" => x.user \in Users
  /\ x.phase = "script" /\ x.to = "admin" => x.user \in verified
  /\ x.admins \subseteq x.held \intersect Admins
  /\ x.phase \in {"scan", "locking", "target", "judge"} => x.actor \in Users
  /\ x.phase = "judge" =>
       /\ x.user \in x.held
       /\ x.user # x.actor => role[x.user] = x.loaded
       /\ x.user = x.actor => x.loaded = "admin"

LEMMA KnowsIsSound == \A r \in Requests : Knows(r) <=> Sound(req[r])
  BY DEF Knows, Sound

LEMMA IdleSound == Sound(Idle)
  BY DEF Sound, Idle

\* A step that writes one request only, locking rows nobody else has locked.
LEMMA OneRequest ==
  ASSUME IInv, NEW r \in Requests, NEW x \in Request, Sound(x),
         req' = [req EXCEPT ![r] = x], UNCHANGED <<role, verified>>,
         \A u \in x.held \ req[r].held : LockFree(r, u)
  PROVE  IInv'
<1>1. TypeOK'
  BY DEF IInv, TypeOK
<1>2. Exclusive'
  <2> SUFFICES ASSUME NEW p \in Requests, NEW q \in Requests, p # q,
                      NEW u, u \in req'[p].held, u \in req'[q].held
               PROVE  FALSE
    BY DEF Exclusive
  <2>1. \A z \in Requests \ {r} : req'[z] = req[z]
    BY DEF IInv, TypeOK
  <2>2. req'[r] = x
    BY DEF IInv, TypeOK
  <2>3. \A z \in Requests \ {r} : u \in req[z].held => u \notin x.held
    BY DEF IInv, Exclusive, LockFree
  <2>4. QED
    BY <2>1, <2>2, <2>3 DEF IInv, Exclusive
<1>3. AdminsVerified'
  BY DEF IInv, AdminsVerified, Admins
<1>4. \A q \in Requests : Knows(q)'
  <2> SUFFICES ASSUME NEW q \in Requests
               PROVE  Knows(q)'
    OBVIOUS
  <2>1. CASE q = r
    BY <2>1 DEF IInv, TypeOK, Sound, Knows, Admins
  <2>2. CASE q # r
    <3>1. req'[q] = req[q]
      BY <2>2 DEF IInv, TypeOK
    <3>2. QED
      BY <3>1 DEF IInv, Knows, Admins
  <2>3. QED
    BY <2>1, <2>2
<1>5. QED
  BY <1>1, <1>2, <1>3, <1>4 DEF IInv

LEMMA FinishKeeps ==
  ASSUME IInv, NEW r \in Requests, Finish(r), UNCHANGED <<role, verified>>
  PROVE  IInv'
<1>1. Idle.held = {}
  BY DEF Idle
<1>2. QED
  BY <1>1, IdleTyped, IdleSound, OneRequest DEF Finish

\* A role changes under a lock: nobody else has established anything about it.
LEMMA RoleChange ==
  ASSUME IInv, NEW r \in Requests, NEW u \in Users, NEW to \in Roles,
         role' = [role EXCEPT ![u] = to], Finish(r), UNCHANGED verified,
         LockFree(r, u), to = "admin" => u \in verified
  PROVE  IInv'
<1>1. TypeOK'
  BY IdleTyped DEF IInv, TypeOK, Finish
<1>2. /\ req'[r] = Idle
      /\ \A q \in Requests \ {r} : req'[q] = req[q]
  BY DEF IInv, TypeOK, Finish
<1>3. Exclusive'
  <2>1. Idle.held = {}
    BY DEF Idle
  <2>2. QED
    BY <1>2, <2>1 DEF IInv, Exclusive
<1>4. /\ role'[u] = to
      /\ \A v \in Users \ {u} : role'[v] = role[v]
  BY DEF IInv, TypeOK
<1>5. AdminsVerified'
  BY <1>4 DEF IInv, AdminsVerified, Admins
<1>6. ASSUME NEW q \in Requests
      PROVE  Knows(q)'
  <2>1. CASE q = r
    BY <1>2, <2>1 DEF Knows, Idle
  <2>2. CASE q # r
    <3>1. req'[q] = req[q] /\ u \notin req[q].held
      BY <1>2, <2>2 DEF LockFree
    <3>2. Knows(q)
      BY DEF IInv
    <3>3. req[q].admins \subseteq req[q].held \intersect Admins'
      BY <1>4, <3>1, <3>2 DEF Knows, Admins
    <3>4. req[q].phase = "judge" => role'[req[q].user] = role[req[q].user]
      BY <1>4, <3>1, <3>2 DEF Knows
    <3>5. QED
      BY <3>1, <3>2, <3>3, <3>4 DEF Knows
  <2>3. QED
    BY <2>1, <2>2
<1>7. QED
  BY <1>1, <1>3, <1>5, <1>6 DEF IInv

LEMMA LockAdminKeeps ==
  ASSUME IInv, NEW r \in Requests, LockAdmin(r)
  PROVE  IInv'
<1>1. PICK u \in First(req[r].todo) :
        /\ LockFree(r, u)
        /\ req' = [req EXCEPT ![r] = [req[r] EXCEPT
                     !.todo = req[r].todo \ {u},
                     !.held = req[r].held \union {u},
                     !.admins = req[r].admins \union ({u} \intersect Admins)]]
  BY DEF LockAdmin
<1> DEFINE x == [req[r] EXCEPT
                   !.todo = req[r].todo \ {u},
                   !.held = req[r].held \union {u},
                   !.admins = req[r].admins \union ({u} \intersect Admins)]
<1>2. req[r] \in Request /\ Sound(req[r]) /\ req[r].phase = "locking"
  BY KnowsIsSound DEF IInv, TypeOK, LockAdmin
<1>3. x \in Request
  <2>1. /\ req[r].todo \ {u} \in SUBSET Users
        /\ req[r].held \union {u} \in SUBSET Users
        /\ req[r].admins \union ({u} \intersect Admins) \in SUBSET Users
    BY <1>1, <1>2 DEF First, Request, Admins
  <2>2. QED
    BY <1>2, <2>1, FieldsTyped
<1>4. /\ x.phase = "locking" /\ x.actor = req[r].actor /\ x.user = req[r].user
      /\ x.held = req[r].held \union {u}
      /\ x.admins = req[r].admins \union ({u} \intersect Admins)
  BY <1>2 DEF Request
<1>5. Sound(x)
  BY <1>2, <1>4 DEF Sound
<1>6. \A v \in x.held \ req[r].held : LockFree(r, v)
  BY <1>1, <1>4
<1>7. UNCHANGED <<role, verified>>
  BY DEF LockAdmin
<1> HIDE DEF x
<1>8. QED
  BY <1>1, <1>3, <1>5, <1>6, <1>7, OneRequest DEF x

LEMMA LockTargetKeeps ==
  ASSUME IInv, NEW r \in Requests, LockTarget(r)
  PROVE  IInv'
<1> DEFINE u == req[r].user
           l == IF u = req[r].actor THEN "admin" ELSE role[u]
           x == [req[r] EXCEPT !.phase = "judge", !.loaded = l,
                               !.held = req[r].held \union {u}]
<1>1. req[r] \in Request /\ Sound(req[r]) /\ req[r].phase = "target"
  BY KnowsIsSound DEF IInv, TypeOK, LockTarget
<1>2. u \in Users /\ l \in Roles
  BY <1>1 DEF Sound, IInv, TypeOK, Roles
<1> HIDE DEF l
<1>3. x \in Request
  <2>1. req[r].held \union {u} \in SUBSET Users
    BY <1>1, <1>2 DEF Request
  <2>2. QED
    BY <1>1, <1>2, <2>1, FieldsTyped
<1>4. /\ x.phase = "judge" /\ x.actor = req[r].actor /\ x.user = u
      /\ x.held = req[r].held \union {u} /\ x.admins = req[r].admins
      /\ x.loaded = l
  BY <1>1 DEF Request
<1>5. Sound(x)
  BY <1>1, <1>2, <1>4 DEF Sound, l
<1>6. /\ req' = [req EXCEPT ![r] = x]
      /\ LockFree(r, u)
      /\ UNCHANGED <<role, verified>>
  BY DEF LockTarget, l
<1> HIDE DEF x
<1>7. QED
  BY <1>3, <1>4, <1>5, <1>6, OneRequest

LEMMA FindTargetKeeps ==
  ASSUME IInv, NEW r \in Requests, FindTarget(r)
  PROVE  IInv'
<1> DEFINE x == IF req[r].user \in req[r].admins
                THEN [req[r] EXCEPT !.phase = "judge", !.loaded = "admin"]
                ELSE [req[r] EXCEPT !.phase = "target"]
<1>1. req[r] \in Request /\ Sound(req[r]) /\ req[r].phase = "locking"
  BY KnowsIsSound DEF IInv, TypeOK, FindTarget
<1>2. x \in Request
  BY <1>1, FieldsTyped
<1>3. /\ x.actor = req[r].actor /\ x.user = req[r].user
      /\ x.held = req[r].held /\ x.admins = req[r].admins
      /\ IF req[r].user \in req[r].admins
         THEN x.phase = "judge" /\ x.loaded = "admin"
         ELSE x.phase = "target"
  BY <1>1 DEF Request
<1>4. Sound(x)
  BY <1>1, <1>3 DEF Sound, Admins
<1>5. req' = [req EXCEPT ![r] = x] /\ UNCHANGED <<role, verified>>
  BY DEF FindTarget
<1> HIDE DEF x
<1>6. QED
  BY <1>2, <1>3, <1>4, <1>5, OneRequest

\* A request that starts, or takes its snapshot of the administrators.
LEMMA StartKeeps ==
  ASSUME IInv, NEW r \in Requests
  PROVE  /\ \A a, u \in Users, to \in Roles : StartSetRole(r, a, u, to) => IInv'
         /\ \A u \in Users, to \in Roles : StartScript(r, u, to) => IInv'
         /\ ScanAdmins(r) => IInv'
<1>1. ASSUME NEW a \in Users, NEW u \in Users, NEW to \in Roles,
             StartSetRole(r, a, u, to)
      PROVE  IInv'
  <2> DEFINE x == [Idle EXCEPT
                     !.phase = IF to = "user" THEN "scan" ELSE "target",
                     !.actor = a, !.user = u, !.to = to]
  <2>1. x \in Request
    BY StartTyped
  <2>2. Sound(x) /\ x.held = {}
    BY DEF Sound, Idle
  <2>3. req' = [req EXCEPT ![r] = x] /\ UNCHANGED <<role, verified>>
    BY <1>1 DEF StartSetRole
  <2> HIDE DEF x
  <2>4. QED
    BY <2>1, <2>2, <2>3, OneRequest
<1>2. ASSUME NEW u \in Users, NEW to \in Roles, StartScript(r, u, to)
      PROVE  IInv'
  <2> DEFINE x == [Idle EXCEPT !.phase = "script", !.user = u, !.to = to,
                               !.loaded = role[u]]
  <2>1. role[u] \in Roles
    BY DEF IInv, TypeOK
  <2>2. x \in Request
    BY <2>1, StartTyped
  <2>3. Sound(x) /\ x.held = {}
    BY <1>2 DEF Sound, Idle, StartScript
  <2>4. req' = [req EXCEPT ![r] = x] /\ UNCHANGED <<role, verified>>
    BY <1>2 DEF StartScript
  <2> HIDE DEF x
  <2>5. QED
    BY <2>2, <2>3, <2>4, OneRequest
<1>3. ASSUME ScanAdmins(r)
      PROVE  IInv'
  <2> DEFINE x == [req[r] EXCEPT !.phase = "locking", !.todo = Admins]
  <2>1. req[r] \in Request /\ Sound(req[r]) /\ req[r].phase = "scan"
    BY <1>3, KnowsIsSound DEF IInv, TypeOK, ScanAdmins
  <2>2. Admins \in SUBSET Users
    BY DEF Admins
  <2>3. x \in Request
    BY <2>1, <2>2, FieldsTyped
  <2>4. /\ x.phase = "locking" /\ x.actor = req[r].actor
        /\ x.user = req[r].user /\ x.held = req[r].held
        /\ x.admins = req[r].admins
    BY <2>1 DEF Request
  <2>5. Sound(x)
    BY <2>1, <2>4 DEF Sound
  <2>6. req' = [req EXCEPT ![r] = x] /\ UNCHANGED <<role, verified>>
    BY <1>3 DEF ScanAdmins
  <2> HIDE DEF x
  <2>7. QED
    BY <2>3, <2>4, <2>5, <2>6, OneRequest
<1>4. QED
  BY <1>1, <1>2, <1>3

LEMMA CommitKeeps ==
  ASSUME IInv, NEW r \in Requests, CommitRole(r) \/ CommitScript(r)
  PROVE  IInv'
<1>0. req[r] \in Request /\ Knows(r)
  BY DEF IInv, TypeOK
<1>1. req[r].to \in Roles /\ req[r].user \in Users
  BY <1>0 DEF Request, Knows, CommitRole, CommitScript
<1>2. CASE CommitRole(r)
  <2>1. LockFree(r, req[r].user)
    BY <1>0, <1>2 DEF CommitRole, Knows, IInv, Exclusive, LockFree
  <2>2. req[r].to = "admin" => req[r].user \in verified
    BY <1>2 DEF CommitRole, Allowed
  <2>3. QED
    BY <1>1, <1>2, <2>1, <2>2, RoleChange DEF CommitRole
<1>3. CASE CommitScript(r)
  <2>1. req[r].to = "admin" => req[r].user \in verified
    BY <1>0, <1>3 DEF CommitScript, Knows
  <2>2. QED
    BY <1>1, <1>3, <2>1, RoleChange DEF CommitScript
<1>4. QED
  BY <1>2, <1>3

LEMMA VerifyKeeps ==
  ASSUME IInv, NEW u \in Users, Verify(u)
  PROVE  IInv'
<1>1. TypeOK' /\ Exclusive' /\ AdminsVerified'
  BY DEF IInv, Verify, TypeOK, Exclusive, AdminsVerified, Admins
<1>2. \A q \in Requests : Knows(q)'
  BY DEF IInv, Verify, Knows, Admins
<1>3. QED
  BY <1>1, <1>2 DEF IInv

LEMMA InitIInv == Init => IInv
<1> SUFFICES ASSUME Init
             PROVE  IInv
  OBVIOUS
<1>1. TypeOK
  BY IdleTyped DEF Init, TypeOK, Roles
<1>2. Exclusive /\ AdminsVerified
  BY DEF Init, Exclusive, AdminsVerified, Admins, Idle
<1>3. \A r \in Requests : Knows(r)
  BY DEF Init, Knows, Idle
<1>4. QED
  BY <1>1, <1>2, <1>3 DEF IInv

LEMMA NextIInv == IInv /\ [Next]_vars => IInv'
<1> SUFFICES ASSUME IInv, [Next]_vars
             PROVE  IInv'
  OBVIOUS
<1>1. ASSUME NEW u \in Users, Verify(u)
      PROVE  IInv'
  BY <1>1, VerifyKeeps
<1>2. ASSUME NEW r \in Requests,
             \/ \E a, u \in Users, to \in Roles : StartSetRole(r, a, u, to)
             \/ \E u \in Users, to \in Roles : StartScript(r, u, to)
             \/ ScanAdmins(r)
      PROVE  IInv'
  BY <1>2, StartKeeps
<1>3. ASSUME NEW r \in Requests, Refuse(r) \/ Abort(r) \/ BreakDeadlock(r)
      PROVE  IInv'
  BY <1>3, FinishKeeps DEF Refuse, Abort, BreakDeadlock
<1>4. ASSUME NEW r \in Requests,
             \/ LockAdmin(r) \/ FindTarget(r) \/ LockTarget(r)
             \/ CommitRole(r) \/ CommitScript(r)
      PROVE  IInv'
  BY <1>4, LockAdminKeeps, FindTargetKeeps, LockTargetKeeps, CommitKeeps
<1>5. CASE UNCHANGED vars
  BY <1>5 DEF vars, IInv, TypeOK, Exclusive, AdminsVerified, Admins, Knows
<1>6. QED
  BY <1>1, <1>2, <1>3, <1>4, <1>5 DEF Next, Step

\* In every reachable state a row has one holder, administrators are verified,
\* and what a request has read of the rows it holds is still so.
THEOREM Invariance == Spec => []IInv
  BY InitIInv, NextIInv, PTL DEF Spec

-----------------------------------------------------------------------------
(* What a committed role change guarantees. *)

LEMMA TwoOfMany ==
  ASSUME NEW S \in SUBSET Users, Cardinality(S) > 1, NEW u
  PROVE  \E v \in S : v # u
<1> SUFFICES ASSUME \A v \in S : v = u
             PROVE  FALSE
  OBVIOUS
<1>1. CASE S = {}
  BY <1>1, FS_EmptySet
<1>2. CASE S # {}
  <2>1. S = {u}
    BY <1>2
  <2>2. Cardinality({u}) = 1
    BY FS_Singleton
  <2>3. QED
    BY <2>1, <2>2
<1>3. QED
  BY <1>1, <1>2

\* However many demotions are under way, the one that commits leaves somebody
\* else an administrator (AdminUserService.set_role).
THEOREM AnAdminIsKept == Spec => KeepsAnAdmin
<1>1. ASSUME IInv, NEW r \in Requests, CommitRole(r)
      PROVE  \E u \in Users : role'[u] = "admin"
  <2> DEFINE u == req[r].user
  <2>1. u \in Users /\ req[r].to \in Roles
    BY <1>1 DEF IInv, TypeOK, Knows, CommitRole, Request
  <2>2. /\ role'[u] = req[r].to
        /\ \A v \in Users \ {u} : role'[v] = role[v]
    BY <1>1, <2>1 DEF CommitRole, IInv, TypeOK
  <2>3. CASE req[r].to = "admin"
    BY <2>1, <2>2, <2>3
  <2>4. CASE req[r].to = "user"
    <3>1. req[r].admins \subseteq Admins /\ Cardinality(req[r].admins) > 1
      BY <1>1, <2>4 DEF IInv, Knows, CommitRole, Allowed
    <3>2. PICK v \in req[r].admins : v # u
      BY <3>1, TwoOfMany DEF Admins
    <3>3. v \in Users /\ role[v] = "admin"
      BY <3>1, <3>2 DEF Admins
    <3>4. QED
      BY <2>2, <3>2, <3>3
  <2>5. QED
    BY <2>1, <2>3, <2>4 DEF Roles
<1>2. IInv /\ [Next]_vars =>
        [\A r \in Requests :
           CommitRole(r) => \E u \in Users : role'[u] = "admin"]_vars
  BY <1>1
<1>3. QED
  BY <1>2, Invariance, PTL DEF Spec, KeepsAnAdmin

\* A change replaces the role its audit row names (lock_user, set_role).
THEOREM AuditIsTrue == Spec => AuditTellsTruth
<1>1. ASSUME IInv, NEW r \in Requests, CommitRole(r)
      PROVE  role[req[r].user] = req[r].loaded
  <2>1. Knows(r) /\ req[r].phase = "judge" /\ Allowed(r) /\ req[r].to \in Roles
    BY <1>1 DEF IInv, CommitRole, TypeOK, Request
  <2>2. req[r].user # req[r].actor
    BY <2>1 DEF Knows, Allowed, Roles
  <2>3. QED
    BY <2>1, <2>2 DEF Knows
<1>2. IInv /\ [Next]_vars =>
        [\A r \in Requests :
           CommitRole(r) => role[req[r].user] = req[r].loaded]_vars
  BY <1>1
<1>3. QED
  BY <1>2, Invariance, PTL DEF Spec, AuditTellsTruth
=============================================================================
