------------------------ MODULE RefreshSessions_proofs ------------------------
(***************************************************************************)
(* Proofs about RefreshSessions, for any number of accounts, sign-ins,     *)
(* concurrent requests and rotations, and any grace window and lifetime.   *)
(***************************************************************************)
EXTENDS RefreshSessions, TLAPS

USE OwnerAssumption, BoundsAssumption, NoTokenAssumption

-----------------------------------------------------------------------------
(* Tokens and their successors. *)

\* A token that may still rotate has a successor among the tokens, which is not
\* a first token, and which no other token has (derive_successor_token).
LEMMA SuccessorFacts ==
  /\ \A t \in TokenIds : t[2] < MaxRotations => Successor(t) \in TokenIds
  /\ \A t \in TokenIds : Successor(t)[2] > 0 /\ Successor(t) # t
  /\ \A t, u \in TokenIds : Successor(t) = Successor(u) => t = u
  /\ \A t \in TokenIds : t[2] > 0 =>
       /\ <<t[1], t[2] - 1>> \in TokenIds
       /\ Successor(<<t[1], t[2] - 1>>) = t
  /\ \A f \in Families : <<f, 0>> \in TokenIds /\ <<f, 0>>[2] = 0
  BY DEF TokenIds, Successor

\* Every token belongs to a family, and so does its successor.
LEMMA FamilyFacts ==
  /\ \A t \in TokenIds : Family(t) \in Families
  /\ \A t \in TokenIds : Family(Successor(t)) = Family(t)
  /\ \A f \in Families : Family(<<f, 0>>) = f
  BY DEF TokenIds, Successor, Family

-----------------------------------------------------------------------------
(* Type correctness. *)

LEMMA IdleTyped == Idle \in Request
  BY DEF Idle, Request, Phases

\* A transaction that begins to revoke is well formed.
LEMMA RevocationTyped ==
  ASSUME NEW scope \in SUBSET Families, NEW reason \in EndReasons,
         NEW token \in TokenIds \union {NoToken}, NEW held \in SUBSET TokenIds
  PROVE  [phase |-> "scan", token |-> token, began |-> 0, scope |-> scope,
          reason |-> reason, todo |-> {}, held |-> held, seen |-> {}] \in Request
  BY DEF Request, Phases

\* A refresh that moves on and takes rows stays well formed, and so does a scan
\* that has visited a row.
LEMMA UpdateTyped ==
  ASSUME NEW x \in Request, NEW held \in SUBSET TokenIds
  PROVE  /\ \A n \in Phases : [x EXCEPT !.phase = n, !.held = held] \in Request
         /\ \A rows \in SUBSET TokenIds :
              [x EXCEPT !.todo = rows, !.held = held] \in Request
  BY DEF Request

\* Replacing one transaction by a well-formed one keeps the type of `req`.
LEMMA ReplaceTyped ==
  ASSUME TypeOK, NEW r \in Requests, NEW x \in Request,
         req' = [req EXCEPT ![r] = x]
  PROVE  req' \in [Requests -> Request]
  BY DEF TypeOK

\* Every step keeps every variable in its type.
LEMMA TypeStep ==
  ASSUME IInv, [Next]_vars PROVE TypeOK'
<1> USE SuccessorFacts, FamilyFacts, IdleTyped
<1>0. /\ TypeOK
      /\ \A r \in Requests : RefreshKnows(r) /\ RevocationKnows(r)
  BY DEF IInv
<1>1. CASE Tick
  BY <1>0, <1>1 DEF Tick, TypeOK, table
<1>2. ASSUME NEW f \in Families, SignIn(f) PROVE TypeOK'
  BY <1>0, <1>2 DEF SignIn, TypeOK, table, States
<1>3. ASSUME NEW r \in Requests, NEW t \in given, StartRefresh(r, t)
      PROVE  TypeOK'
  BY <1>0, <1>3 DEF StartRefresh, TypeOK, table, Request, Phases, Idle
<1>4. ASSUME NEW r \in Requests, NEW t \in given, StartLogout(r, t)
      PROVE  TypeOK'
  <2>1. t \in TokenIds /\ {Family(t)} \in SUBSET Families
    BY <1>0, <1>4 DEF TypeOK
  <2>2. req' \in [Requests -> Request]
    BY <1>0, <1>4, <2>1, RevocationTyped, ReplaceTyped
    DEF StartLogout, BeginRevocation, EndReasons
  <2>3. QED
    BY <1>0, <1>4, <2>2 DEF StartLogout, TypeOK, table
<1>5. ASSUME NEW r \in Requests, NEW u \in Users, StartPasswordReset(r, u)
      PROVE  TypeOK'
  BY <1>0, <1>5 DEF StartPasswordReset, BeginRevocation, TypeOK, table,
                    Request, Phases, Idle, EndReasons, UserFamilies
<1>6. ASSUME NEW r \in Requests, NEW f \in Families, StartPasswordChange(r, f)
      PROVE  TypeOK'
  BY <1>0, <1>6 DEF StartPasswordChange, BeginRevocation, TypeOK, table,
                    Request, Phases, Idle, EndReasons, UserFamilies
<1>7. ASSUME NEW r \in Requests, Step(r) PROVE TypeOK'
  <2>0. req[r] \in Request /\ RefreshKnows(r) /\ RevocationKnows(r)
    BY <1>0 DEF TypeOK
  <2>1. CASE LockPresented(r)
    <3> DEFINE t == req[r].token
               n == Branch(t, req[r].began)
    <3>1. t \in TokenIds /\ {t} \in SUBSET TokenIds
      BY <1>0, <2>0, <2>1 DEF LockPresented, RefreshKnows, TypeOK
    <3>2. n \in Phases
      BY DEF Branch, Phases
    <3>3. [req[r] EXCEPT !.phase = n, !.held = {t}] \in Request
      BY <2>0, <3>1, <3>2, UpdateTyped
    <3>4. req' \in [Requests -> Request]
      BY <1>0, <2>1, <3>3, ReplaceTyped DEF LockPresented, Finish
    <3>5. QED
      BY <1>0, <2>1, <3>4 DEF LockPresented, TypeOK, table
  <2>2. CASE CommitRotation(r)
    <3> DEFINE t == req[r].token
    <3>1. t \in TokenIds /\ Successor(t) \in TokenIds
      BY <1>0, <2>0, <2>2 DEF CommitRotation, RefreshKnows, TypeOK
    <3>2. state' \in [TokenIds -> States]
      BY <1>0, <2>2, <3>1 DEF CommitRotation, TypeOK, States
    <3>3. /\ revokedAt' \in [TokenIds -> Nat]
          /\ expires' \in [TokenIds -> Nat]
      BY <1>0, <2>2, <3>1, BoundsAssumption DEF CommitRotation, TypeOK
    <3>4. given' \subseteq TokenIds
      BY <1>0, <2>2, <3>1 DEF CommitRotation, Answer, TypeOK
    <3>5. req' \in [Requests -> Request]
      BY <1>0, <2>2, IdleTyped, ReplaceTyped DEF CommitRotation, Finish
    <3>6. QED
      BY <1>0, <2>2, <3>2, <3>3, <3>4, <3>5 DEF CommitRotation, TypeOK
  <2>3. CASE LockSuccessor(r)
    <3> DEFINE u == Successor(req[r].token)
               n == IF Live(u) /\ expires[u] > req[r].began
                    THEN "handback" ELSE "check"
    <3>1. req[r].held \union {u} \in SUBSET TokenIds
      BY <1>0, <2>0, <2>3 DEF LockSuccessor, RefreshKnows, TypeOK, Request
    <3>2. n \in Phases
      BY DEF Phases
    <3> DEFINE h == req[r].held \union {u}
               x == [req[r] EXCEPT !.phase = n, !.held = h]
    <3>3. x \in Request
      <4> HIDE DEF n, h
      <4> QED BY <2>0, <3>1, <3>2, UpdateTyped DEF h
    <3>4. req' = [req EXCEPT ![r] = x]
      BY <2>3 DEF LockSuccessor
    <3> HIDE DEF x
    <3>5. req' \in [Requests -> Request]
      BY <1>0, <3>3, <3>4, ReplaceTyped
    <3>6. QED
      BY <1>0, <2>3, <3>5 DEF LockSuccessor, TypeOK, table
  <2>4. CASE CommitHandBack(r)
    BY <1>0, <2>0, <2>4
    DEF CommitHandBack, Finish, Answer, TypeOK, table, RefreshKnows
  <2>5. CASE CheckFamily(r)
    <3>1. {Family(req[r].token)} \in SUBSET Families
      BY <1>0, <2>0, <2>5 DEF CheckFamily, RefreshKnows, TypeOK
    <3>2. req[r].held \in SUBSET TokenIds /\ "reuse" \in EndReasons
      BY <2>0 DEF Request, EndReasons
    <3>3. req' \in [Requests -> Request]
      BY <1>0, <2>5, <3>1, <3>2, RevocationTyped, ReplaceTyped
      DEF CheckFamily, BeginRevocation, Finish
    <3>4. QED
      BY <1>0, <2>5, <3>3 DEF CheckFamily, TypeOK, table
  <2>6. CASE LockScan(r)
    BY <1>0, <2>0, <2>6 DEF LockScan, TypeOK, table, Request, Phases, LiveIn
  <2>7. CASE UpdateScan(r)
    BY <1>0, <2>0, <2>7 DEF UpdateScan, TypeOK, table, Request, Phases, LiveIn
  <2>8. CASE VisitRow(r)
    <3>1. PICK t \in First(req[r].todo) :
            req' = [req EXCEPT ![r] = [req[r] EXCEPT
                      !.todo = req[r].todo \ {t},
                      !.held = IF Live(t) THEN req[r].held \union {t}
                               ELSE req[r].held]]
      BY <2>8 DEF VisitRow
    <3> DEFINE h == IF Live(t) THEN req[r].held \union {t} ELSE req[r].held
    <3>2. req[r].todo \ {t} \in SUBSET TokenIds /\ h \in SUBSET TokenIds
      BY <2>0 DEF Request, First
    <3>3. req' = [req EXCEPT ![r] = [req[r] EXCEPT !.todo = req[r].todo \ {t},
                                                   !.held = h]]
      BY <3>1
    <3> HIDE DEF h
    <3>4. [req[r] EXCEPT !.todo = req[r].todo \ {t}, !.held = h] \in Request
      BY <2>0, <3>2, UpdateTyped
    <3>5. req' \in [Requests -> Request]
      BY <1>0, <3>3, <3>4, ReplaceTyped
    <3>6. QED
      BY <1>0, <2>8, <3>5 DEF VisitRow, TypeOK, table
  <2>9. CASE CommitRevocation(r)
    BY <1>0, <2>0, <2>9
    DEF CommitRevocation, Finish, TypeOK, Request, States, RevocationKnows
  <2>10. QED
    BY <1>7, <2>1, <2>2, <2>3, <2>4, <2>5, <2>6, <2>7, <2>8, <2>9 DEF Step
<1>8. ASSUME NEW r \in Requests, Abort(r) \/ BreakDeadlock(r) PROVE TypeOK'
  BY <1>0, <1>8 DEF Abort, BreakDeadlock, Finish, TypeOK, table
<1>9. CASE UNCHANGED vars
  BY <1>0, <1>9 DEF vars, TypeOK
<1>10. QED
  BY <1>1, <1>2, <1>3, <1>4, <1>5, <1>6, <1>7, <1>8, <1>9 DEF Next

-----------------------------------------------------------------------------
(* What a step may do to the table. *)

\* Only a sign-in, a rotation and a revocation write rows.
LEMMA Writers ==
  ASSUME IInv, [Next]_vars
  PROVE  \/ state' = state
         \/ \E f \in Families : SignIn(f)
         \/ \E r \in Requests : CommitRotation(r) \/ CommitRevocation(r)
  BY DEF Next, vars, table, Step, Tick, StartRefresh, StartLogout,
         StartPasswordReset, StartPasswordChange, LockPresented, LockSuccessor,
         CommitHandBack, CheckFamily, LockScan, UpdateScan, VisitRow, Abort,
         BreakDeadlock

\* A rotation holds the live row it rotates, and its successor is new.
LEMMA RotationReady ==
  ASSUME IInv, NEW r \in Requests, req[r].phase = "rotate"
  PROVE  /\ req[r].token \in TokenIds
         /\ req[r].held = {req[r].token}
         /\ state[req[r].token] = "live"
         /\ Successor(req[r].token) \in TokenIds
         /\ state[Successor(req[r].token)] = "absent"
  <1>1. /\ req[r].token \in TokenIds /\ req[r].token[2] < MaxRotations
        /\ req[r].held = {req[r].token} /\ state[req[r].token] = "live"
    BY DEF IInv, TypeOK, RefreshKnows, Live
  <1>2. Successor(req[r].token) \in TokenIds
    BY <1>1, SuccessorFacts
  <1>3. QED
    BY <1>1, <1>2 DEF IInv, Chain

\* A rotation, row by row.
LEMMA RotationRows ==
  ASSUME IInv, NEW r \in Requests, CommitRotation(r), NEW t \in TokenIds
  PROVE  state'[t] = IF t = req[r].token THEN "rotated"
                     ELSE IF t = Successor(req[r].token) THEN "live"
                     ELSE state[t]
  BY RotationReady, SuccessorFacts DEF CommitRotation, IInv, TypeOK

\* A revocation, row by row.
LEMMA RevocationRows ==
  ASSUME IInv, NEW r \in Requests, CommitRevocation(r), NEW t \in TokenIds
  PROVE  \/ state'[t] = state[t]
         \/ /\ t \in req[r].held /\ state[t] = "live"
            /\ state'[t] \in EndReasons
         \/ /\ state[t] = "absent" /\ state'[t] = "live" /\ t[2] = 0
            /\ t = req[r].token /\ req[r].reason = "password_change"
  <1>1. req[r].reason \in EndReasons
    BY DEF IInv, RevocationKnows, CommitRevocation
  <1>2. CASE t \in Revoked(r)
    BY <1>1, <1>2 DEF CommitRevocation, Revoked, LiveIn, Live
  <1>3. CASE t \notin Revoked(r) /\ req[r].reason = "password_change"
             /\ t = req[r].token
    BY <1>3 DEF CommitRevocation, IInv, RevocationKnows
  <1>4. QED
    BY <1>2, <1>3 DEF CommitRevocation

\* A row, once written, stays written; only a live row is ever rewritten, by
\* the transaction that holds it; and a row appears as the successor of a row
\* rotated in the same step, or as the first of its family.
LEMMA RowChanges ==
  ASSUME IInv, [Next]_vars, NEW t \in TokenIds
  PROVE  \/ state'[t] = state[t]
         \/ /\ state[t] = "live" /\ state'[t] \in EndReasons \union {"rotated"}
            /\ \E r \in Requests : t \in req[r].held /\ req'[r] = Idle
         \/ /\ state[t] = "absent" /\ state'[t] = "live"
            /\ \/ t[2] = 0
               \/ \E r \in Requests, u \in TokenIds :
                    /\ t = Successor(u) /\ state[u] = "live"
                    /\ u \in req[r].held /\ req'[r] = Idle
  <1>0. TypeOK
    BY DEF IInv
  <1>1. ASSUME NEW f \in Families, SignIn(f)
        PROVE  \/ state'[t] = state[t]
               \/ state[t] = "absent" /\ state'[t] = "live" /\ t[2] = 0
    BY <1>0, <1>1 DEF SignIn, Fresh, TypeOK
  <1>2. ASSUME NEW r \in Requests, CommitRotation(r)
        PROVE  \/ state'[t] = state[t]
               \/ /\ state[t] = "live" /\ state'[t] = "rotated"
                  /\ t \in req[r].held /\ req'[r] = Idle
               \/ /\ state[t] = "absent" /\ state'[t] = "live"
                  /\ \E u \in TokenIds :
                       /\ t = Successor(u) /\ state[u] = "live"
                       /\ u \in req[r].held /\ req'[r] = Idle
    <2>1. req'[r] = Idle /\ req[r].phase = "rotate"
      BY <1>0, <1>2 DEF CommitRotation, Finish, TypeOK
    <2>2. QED
      BY <1>2, <2>1, RotationReady, RotationRows
  <1>3. ASSUME NEW r \in Requests, CommitRevocation(r)
        PROVE  \/ state'[t] = state[t]
               \/ /\ state[t] = "live" /\ state'[t] \in EndReasons
                  /\ t \in req[r].held /\ req'[r] = Idle
               \/ state[t] = "absent" /\ state'[t] = "live" /\ t[2] = 0
    <2>1. req'[r] = Idle
      BY <1>0, <1>3 DEF CommitRevocation, Finish, TypeOK
    <2>2. QED
      BY <1>3, <2>1, RevocationRows
  <1>4. QED
    BY <1>1, <1>2, <1>3, Writers

\* A row a transaction goes on holding does not change under it.
LEMMA HeldRows ==
  ASSUME IInv, [Next]_vars, NEW r \in Requests, NEW t \in req[r].held,
         req'[r] # Idle
  PROVE  state'[t] = state[t] \/ state[t] = "absent"
  <1>1. t \in TokenIds
    BY DEF IInv, TypeOK, Request
  <1>2. \A q \in Requests : t \in req[q].held => q = r
    BY DEF IInv, Exclusive
  <1>3. QED
    BY <1>1, <1>2, RowChanges

\* The chain of a family stays a chain.
LEMMA ChainStep ==
  ASSUME IInv, [Next]_vars PROVE Chain'
<1> SUFFICES ASSUME NEW t \in TokenIds
             PROVE  /\ Successor(t) \in TokenIds =>
                         (state'[Successor(t)] # "absent" <=> state'[t] = "rotated")
                    /\ state'[t] = "rotated" => Successor(t) \in TokenIds
  BY DEF Chain
<1>0. /\ Successor(t) \in TokenIds =>
           (state[Successor(t)] # "absent" <=> state[t] = "rotated")
      /\ state[t] = "rotated" => Successor(t) \in TokenIds
  BY DEF IInv, Chain
<1> USE SuccessorFacts
<1>1. ASSUME NEW f \in Families, SignIn(f)
      PROVE  \A u \in TokenIds : state'[u] = IF u = <<f, 0>> THEN "live" ELSE state[u]
  BY <1>1 DEF SignIn, IInv, TypeOK
<1>2. CASE \E f \in Families : SignIn(f)
  BY <1>0, <1>1, <1>2 DEF SignIn, Fresh
<1>3. CASE \E r \in Requests : CommitRotation(r)
  <2>1. PICK r \in Requests : CommitRotation(r)
    BY <1>3
  <2>2. req[r].phase = "rotate"
    BY <2>1 DEF CommitRotation
  <2>3. QED
    BY <1>0, <2>1, <2>2, RotationReady, RotationRows
<1>4. CASE \E r \in Requests : CommitRevocation(r)
  <2>1. PICK r \in Requests : CommitRevocation(r)
    BY <1>4
  <2>2. \A u \in TokenIds : state'[u] = "rotated" <=> state[u] = "rotated"
    BY <2>1, RevocationRows DEF EndReasons
  <2>3. ASSUME Successor(t) \in TokenIds
        PROVE  state'[Successor(t)] = "absent" <=> state[Successor(t)] = "absent"
    BY <2>1, <2>3, RevocationRows DEF EndReasons
  <2>4. QED
    BY <1>0, <2>2, <2>3
<1>5. QED
  BY <1>0, <1>2, <1>3, <1>4, Writers

-----------------------------------------------------------------------------
(* What a step may do to the transactions in flight. *)

\* A token in the table stays there.
LEMMA RowsRemain ==
  ASSUME IInv, [Next]_vars, NEW t \in TokenIds, state[t] # "absent"
  PROVE  state'[t] # "absent"
  BY RowChanges DEF EndReasons

\* Every token that has reached a browser is in the table.
LEMMA GivenStep ==
  ASSUME IInv, [Next]_vars PROVE GivenExist'
<1> SUFFICES ASSUME NEW t \in given' PROVE state'[t] # "absent"
  BY DEF GivenExist
<1>0. TypeOK /\ GivenExist
  BY DEF IInv
<1>1. CASE t \in given
  BY <1>0, <1>1, RowsRemain DEF TypeOK, GivenExist
<1>2. CASE t \notin given
  <2>1. CASE \E f \in Families : SignIn(f)
    BY <1>0, <1>2, <2>1, SuccessorFacts DEF SignIn, TypeOK
  <2>2. CASE \E r \in Requests : CommitRotation(r)
    <3>1. PICK r \in Requests : CommitRotation(r)
      BY <2>2
    <3>2. t = Successor(req[r].token) /\ req[r].phase = "rotate"
      BY <1>2, <3>1 DEF CommitRotation, Answer
    <3>3. QED
      BY <3>1, <3>2, RotationReady, RotationRows, SuccessorFacts
  <2>3. CASE \E r \in Requests : CommitHandBack(r)
    <3>1. PICK r \in Requests : CommitHandBack(r)
      BY <2>3
    <3>2. t = Successor(req[r].token) /\ state' = state
      BY <1>2, <3>1 DEF CommitHandBack, Answer, table
    <3>3. state[t] = "live"
      BY <3>1, <3>2 DEF CommitHandBack, IInv, RefreshKnows, Live
    <3>4. QED
      BY <3>2, <3>3
  <2>4. CASE \E r \in Requests : CommitRevocation(r)
    <3>1. PICK r \in Requests : CommitRevocation(r)
      BY <2>4
    <3>2. t = req[r].token /\ req[r].reason = "password_change"
      BY <1>2, <3>1 DEF CommitRevocation
    <3>3. t \in TokenIds /\ state[t] = "absent"
      BY <3>2 DEF IInv, RevocationKnows
    <3>4. state'[t] = "live"
      BY <3>1, <3>2, <3>3 DEF CommitRevocation, Revoked, LiveIn, Live
    <3>5. QED
      BY <3>4
  <2>5. QED
    BY <1>2, <2>1, <2>2, <2>3, <2>4
    DEF Next, vars, Step, Tick, StartRefresh, StartLogout,
        StartPasswordReset, StartPasswordChange, LockPresented, LockSuccessor,
        CheckFamily, LockScan, UpdateScan, VisitRow, Abort, BreakDeadlock
<1>3. QED
  BY <1>1, <1>2

\* A transaction takes a row only when no other holds it.
LEMMA Grabs ==
  ASSUME IInv, [Next]_vars, NEW r \in Requests, NEW t \in req'[r].held
  PROVE  \/ t \in req[r].held
         \/ LockFree(r, t) /\ \A q \in Requests \ {r} : req'[q] = req[q]
<1>0. TypeOK
  BY DEF IInv
<1>1. CASE UNCHANGED req
  BY <1>1
<1>2. ASSUME NEW q \in Requests, req' = [req EXCEPT ![q] = Idle]
      PROVE  t \in req[r].held
  BY <1>0, <1>2 DEF TypeOK, Idle
<1>3. ASSUME NEW q \in Requests, NEW u \in given, StartRefresh(q, u)
      PROVE  t \in req[r].held
  BY <1>0, <1>3 DEF TypeOK, StartRefresh, Idle
<1>4. ASSUME NEW q \in Requests, NEW scope, NEW reason, NEW token, NEW held,
             BeginRevocation(q, scope, reason, token, held),
             held \subseteq req[q].held
      PROVE  t \in req[r].held
  BY <1>0, <1>4 DEF TypeOK, BeginRevocation
<1>5. ASSUME NEW q \in Requests, Step(q)
      PROVE  \/ t \in req[r].held
             \/ LockFree(r, t) /\ \A p \in Requests \ {r} : req'[p] = req[p]
  <2>0. req[q] \in Request
    BY <1>0 DEF TypeOK
  <2>1. CASE LockPresented(q)
    <3>1. CASE Finish(q)
      BY <1>2, <3>1 DEF Finish
    <3>2. CASE ~Finish(q)
      <4> DEFINE u == req[q].token
                 n == Branch(u, req[q].began)
      <4>1. LockFree(q, u) /\ req' = [req EXCEPT ![q] =
                                [req[q] EXCEPT !.phase = n, !.held = {u}]]
        BY <2>1, <3>2 DEF LockPresented
      <4> HIDE DEF n, u
      <4>2. QED
        BY <1>0, <2>0, <4>1 DEF TypeOK, Request
    <3>3. QED
      BY <3>1, <3>2
  <2>2. CASE LockSuccessor(q)
    BY <1>0, <2>0, <2>2 DEF LockSuccessor, TypeOK, Request
  <2>3. CASE CheckFamily(q)
    <3>1. CASE Finish(q)
      BY <1>2, <3>1 DEF Finish
    <3>2. CASE BeginRevocation(q, {Family(req[q].token)}, "reuse", NoToken,
                               req[q].held)
      BY <1>4, <3>2
    <3>3. QED
      BY <2>3, <3>1, <3>2 DEF CheckFamily
  <2>4. CASE LockScan(q) \/ UpdateScan(q)
    <3>1. req'[q].held = req[q].held
      <4>1. CASE LockScan(q)
        BY <1>0, <2>0, <4>1 DEF LockScan, TypeOK, Request
      <4>2. CASE UpdateScan(q)
        BY <1>0, <2>0, <4>2 DEF UpdateScan, TypeOK, Request
      <4>3. QED
        BY <2>4, <4>1, <4>2
    <3>2. \A p \in Requests \ {q} : req'[p] = req[p]
      BY <1>0, <2>4 DEF LockScan, UpdateScan, TypeOK
    <3>3. QED
      BY <3>1, <3>2
  <2>5. CASE VisitRow(q)
    <3>1. PICK u \in First(req[q].todo) :
            /\ LockFree(q, u)
            /\ req' = [req EXCEPT ![q] = [req[q] EXCEPT
                        !.todo = req[q].todo \ {u},
                        !.held = IF Live(u) THEN req[q].held \union {u}
                                 ELSE req[q].held]]
      BY <2>5 DEF VisitRow
    <3>2. req'[r].held \subseteq req[r].held \union (IF r = q THEN {u} ELSE {})
      BY <1>0, <2>0, <3>1 DEF TypeOK, Request
    <3>3. \A p \in Requests \ {q} : req'[p] = req[p]
      BY <1>0, <3>1 DEF TypeOK
    <3>4. QED
      BY <3>1, <3>2, <3>3
  <2>6. QED
    BY <1>2, <1>5, <2>1, <2>2, <2>3, <2>4, <2>5
    DEF Step, CommitRotation, CommitHandBack, CommitRevocation, Finish
<1>6. QED
  BY <1>1, <1>2, <1>3, <1>4, <1>5
  DEF Next, vars, Tick, SignIn, StartLogout, StartPasswordReset,
      StartPasswordChange, Abort, BreakDeadlock, Finish

\* Rows stay with one transaction each.
LEMMA ExclusiveStep ==
  ASSUME IInv, [Next]_vars PROVE Exclusive'
<1> SUFFICES ASSUME NEW p \in Requests, NEW q \in Requests, p # q,
                    NEW t \in req'[p].held, t \in req'[q].held
             PROVE  FALSE
  BY DEF Exclusive
<1>1. CASE t \in req[p].held /\ t \in req[q].held
  BY <1>1 DEF IInv, Exclusive
<1>2. QED
  BY <1>1, Grabs DEF LockFree

-----------------------------------------------------------------------------
(* What a transaction knows stays true, whoever moves. *)

\* What has reached a browser is not taken back.
LEMMA GivenGrows ==
  ASSUME [Next]_vars PROVE given \subseteq given'
  BY DEF Next, vars, table, Step, Tick, SignIn, StartRefresh, StartLogout,
         StartPasswordReset, StartPasswordChange, LockPresented, LockSuccessor,
         CommitRotation, CommitHandBack, CommitRevocation, Answer, CheckFamily,
         LockScan, UpdateScan, VisitRow, Abort, BreakDeadlock

\* The token a password change will issue stays out of the table until then.
LEMMA IssueKept ==
  ASSUME IInv, [Next]_vars, NEW r \in Requests,
         req[r].reason = "password_change", ~CommitRevocation(r)
  PROVE  state'[req[r].token] = "absent"
<1> DEFINE t == req[r].token
<1>0. TypeOK /\ t \in TokenIds /\ t[2] = 0 /\ state[t] = "absent"
  BY DEF IInv, RevocationKnows
<1>1. CASE \E f \in Families : SignIn(f)
  BY <1>0, <1>1 DEF SignIn, Fresh, TypeOK
<1>2. ASSUME NEW q \in Requests, CommitRotation(q) PROVE state'[t] = "absent"
  <2>1. req[q].phase = "rotate"
    BY <1>2 DEF CommitRotation
  <2>2. t # req[q].token /\ t # Successor(req[q].token)
    BY <1>0, <2>1, RotationReady, SuccessorFacts
  <2>3. QED
    BY <1>0, <1>2, <2>2, RotationRows
<1>3. ASSUME NEW q \in Requests, CommitRevocation(q) PROVE state'[t] = "absent"
  <2>1. q # r
    BY <1>3
  <2>2. req[q].reason = "password_change" => req[q].token # t
    BY <2>1 DEF IInv, IssuesAlone
  <2>3. QED
    BY <1>0, <1>3, <2>2, RevocationRows
<1>4. QED
  BY <1>0, <1>1, <1>2, <1>3, Writers

\* The step of another transaction disturbs nothing a transaction relies on.
LEMMA OthersKnow ==
  ASSUME IInv, [Next]_vars, NEW r \in Requests, req'[r] = req[r]
  PROVE  RefreshKnows(r)' /\ RevocationKnows(r)'
<1>0. TypeOK /\ RefreshKnows(r) /\ RevocationKnows(r) /\ req[r] \in Request
  BY DEF IInv, TypeOK
<1>1. RefreshKnows(r)'
  <2>1. req[r].phase # "idle" => req'[r] # Idle
    BY DEF Idle
  <2>2. req[r].phase = "rotate" => state'[req[r].token] = "live"
    BY <1>0, <2>1, HeldRows DEF RefreshKnows, Live
  <2>3. req[r].phase \in {"grace", "handback"} =>
          state'[req[r].token] = "rotated"
    <3> HAVE req[r].phase \in {"grace", "handback"}
    <3>1. req[r].token \in TokenIds /\ state[req[r].token] = "rotated"
      BY <1>0 DEF RefreshKnows, TypeOK
    <3>2. QED
      BY <3>1, RowChanges
  <2>4. req[r].phase = "handback" => state'[Successor(req[r].token)] = "live"
    <3> HAVE req[r].phase = "handback"
    <3>1. /\ Successor(req[r].token) \in req[r].held
          /\ state[Successor(req[r].token)] = "live"
      BY <1>0 DEF RefreshKnows, Live
    <3>2. QED
      BY <2>1, <3>1, HeldRows
  <2>5. QED
    BY <1>0, <2>2, <2>3, <2>4, GivenGrows DEF RefreshKnows, Live
<1>2. RevocationKnows(r)'
  <2>1. req[r].reason = "password_change" => state'[req[r].token] = "absent"
    <3>1. CommitRevocation(r) => req'[r] = Idle /\ req[r].phase = "updating"
      BY <1>0 DEF CommitRevocation, Finish, TypeOK
    <3>2. ~CommitRevocation(r)
      BY <3>1 DEF Idle
    <3>3. QED
      BY <3>2, IssueKept
  <2>2. ASSUME NEW t \in TokenIds, state[t] # "absent"
        PROVE  state'[t] # "absent" /\ (state'[t] = "live" => state[t] = "live")
    BY <2>2, RowChanges DEF EndReasons
  <2>3. ASSUME req[r].phase = "updating", NEW t \in req[r].seen,
               Successor(t) \in TokenIds, state'[Successor(t)] = "live"
        PROVE  Successor(t) \in req[r].held \/ Successor(t) \in req[r].todo
    <3>1. t \in TokenIds
      BY <1>0 DEF Request
    <3>2. CASE state[Successor(t)] = "live"
      BY <1>0, <2>3, <3>2 DEF RevocationKnows, Live
    <3>3. CASE state[Successor(t)] # "live"
      <4>1. PICK q \in Requests, u \in TokenIds :
              /\ Successor(t) = Successor(u) /\ state[u] = "live"
              /\ u \in req[q].held /\ req'[q] = Idle
        BY <2>3, <3>1, <3>3, RowChanges, SuccessorFacts DEF EndReasons
      <4>2. t \in req[q].held /\ state[t] = "live"
        BY <3>1, <4>1, SuccessorFacts
      <4>3. t \in req[r].held
        BY <1>0, <2>3, <4>2 DEF RevocationKnows, Live
      <4>4. q = r
        BY <4>2, <4>3 DEF IInv, Exclusive
      <4>5. QED
        BY <2>3, <4>1, <4>4 DEF Idle
    <3>4. QED
      BY <3>2, <3>3
  <2>4. \A t \in req[r].seen : t \in TokenIds
    BY <1>0 DEF Request
  <2>5. QED
    BY <1>0, <2>1, <2>2, <2>3, <2>4 DEF RevocationKnows, Live
<1>3. QED
  BY <1>1, <1>2

\* A transaction that is over knows nothing and needs nothing.
LEMMA IdleKnows ==
  ASSUME NEW r \in Requests, req'[r] = Idle
  PROVE  RefreshKnows(r)' /\ RevocationKnows(r)'
  BY DEF RefreshKnows, RevocationKnows, Idle

\* Starting a request establishes what its first phase relies on.
LEMMA StartKnows ==
  ASSUME IInv, NEW r \in Requests,
         \/ \E t \in given : StartRefresh(r, t) \/ StartLogout(r, t)
         \/ \E u \in Users : StartPasswordReset(r, u)
         \/ \E f \in Families : StartPasswordChange(r, f)
  PROVE  RefreshKnows(r)' /\ RevocationKnows(r)'
<1>0. TypeOK
  BY DEF IInv
<1>1. ASSUME NEW t \in given, StartRefresh(r, t)
      PROVE  RefreshKnows(r)' /\ RevocationKnows(r)'
  <2>1. /\ req'[r].phase = "lock" /\ req'[r].token = t
        /\ req'[r].reason = "none" /\ t[2] < MaxRotations /\ given' = given
    BY <1>0, <1>1 DEF StartRefresh, TypeOK, Idle
  <2>2. QED
    BY <2>1 DEF RefreshKnows, RevocationKnows
<1>2. ASSUME NEW scope, NEW reason \in EndReasons, NEW token, NEW held,
             BeginRevocation(r, scope, reason, token, held), state' = state,
             reason = "password_change" =>
               token \in TokenIds /\ token[2] = 0 /\ state[token] = "absent"
      PROVE  RefreshKnows(r)' /\ RevocationKnows(r)'
  <2>1. /\ req'[r].phase = "scan" /\ req'[r].token = token
        /\ req'[r].reason = reason
    BY <1>0, <1>2 DEF BeginRevocation, TypeOK
  <2>2. QED
    BY <1>2, <2>1 DEF RefreshKnows, RevocationKnows
<1>3. ASSUME NEW t \in given, StartLogout(r, t)
      PROVE  RefreshKnows(r)' /\ RevocationKnows(r)'
  BY <1>2, <1>3 DEF StartLogout, EndReasons, table
<1>4. ASSUME NEW u \in Users, StartPasswordReset(r, u)
      PROVE  RefreshKnows(r)' /\ RevocationKnows(r)'
  BY <1>2, <1>4 DEF StartPasswordReset, EndReasons, table
<1>5. ASSUME NEW f \in Families, StartPasswordChange(r, f)
      PROVE  RefreshKnows(r)' /\ RevocationKnows(r)'
  BY <1>2, <1>5, SuccessorFacts
  DEF StartPasswordChange, Fresh, EndReasons, table
<1>6. QED
  BY <1>1, <1>3, <1>4, <1>5

\* Moving on establishes what the next phase relies on.
LEMMA StepKnows ==
  ASSUME IInv, NEW r \in Requests, Step(r)
  PROVE  RefreshKnows(r)' /\ RevocationKnows(r)'
<1>0. TypeOK /\ RefreshKnows(r) /\ RevocationKnows(r) /\ req[r] \in Request
  BY DEF IInv, TypeOK
<1>1. CASE Finish(r)
  BY <1>0, <1>1, IdleKnows DEF Finish, TypeOK
<1>2. CASE LockPresented(r) /\ ~Finish(r)
  <2> DEFINE t == req[r].token
             n == Branch(t, req[r].began)
  <2>1. /\ n \in {"rotate", "grace", "check"}
        /\ n = "rotate" => Live(t)
        /\ n = "grace" => state[t] = "rotated"
    BY <1>2 DEF LockPresented, Branch
  <2>2. /\ req' = [req EXCEPT ![r] = [req[r] EXCEPT !.phase = n, !.held = {t}]]
        /\ req[r].phase = "lock" /\ state' = state /\ given' = given
    BY <1>2 DEF LockPresented, table
  <2> HIDE DEF n
  <2>3. /\ req'[r].phase = n /\ req'[r].held = {t} /\ req'[r].token = t
        /\ req'[r].reason = req[r].reason
    BY <1>0, <2>2 DEF TypeOK, Request
  <2>4. QED
    BY <1>0, <2>1, <2>2, <2>3 DEF RefreshKnows, RevocationKnows, Live
<1>3. CASE LockSuccessor(r)
  <2> DEFINE s == Successor(req[r].token)
             n == IF Live(s) /\ expires[s] > req[r].began
                  THEN "handback" ELSE "check"
             h == req[r].held \union {s}
  <2>1. n \in {"handback", "check"} /\ (n = "handback" => Live(s)) /\ s \in h
    OBVIOUS
  <2>2. /\ req' = [req EXCEPT ![r] = [req[r] EXCEPT !.phase = n, !.held = h]]
        /\ req[r].phase = "grace" /\ state' = state /\ given' = given
    BY <1>3 DEF LockSuccessor, table
  <2> HIDE DEF n, h
  <2>3. /\ req'[r].phase = n /\ req'[r].held = h
        /\ req'[r].token = req[r].token /\ req'[r].reason = req[r].reason
    BY <1>0, <2>2 DEF TypeOK, Request
  <2>4. QED
    BY <1>0, <2>1, <2>2, <2>3 DEF RefreshKnows, RevocationKnows, Live
<1>4. CASE CheckFamily(r) /\ ~Finish(r)
  <2>1. req'[r].phase = "scan" /\ req'[r].reason = "reuse"
    BY <1>0, <1>4 DEF CheckFamily, BeginRevocation, TypeOK
  <2>2. QED
    BY <2>1 DEF RefreshKnows, RevocationKnows, EndReasons
<1>5. CASE LockScan(r)
  <2> DEFINE rows == LiveIn(req[r].scope)
  <2>1. /\ req'[r].phase = "locking" /\ req'[r].todo = rows
        /\ req'[r].seen = rows /\ req'[r].scope = req[r].scope
        /\ req'[r].reason = req[r].reason /\ req'[r].token = req[r].token
        /\ req[r].phase = "scan" /\ state' = state
    BY <1>0, <1>5 DEF LockScan, TypeOK, Request, table
  <2>2. QED
    BY <1>0, <2>1 DEF RefreshKnows, RevocationKnows, LiveIn, Live
<1>6. CASE UpdateScan(r)
  <2>1. /\ req'[r].phase = "updating" /\ req'[r].todo = LiveIn(req[r].scope)
        /\ req'[r].seen = req[r].seen /\ req'[r].scope = req[r].scope
        /\ req'[r].reason = req[r].reason /\ req'[r].token = req[r].token
        /\ req'[r].held = req[r].held
        /\ req[r].phase = "locking" /\ req[r].todo = {} /\ state' = state
    BY <1>0, <1>6 DEF UpdateScan, TypeOK, Request, table
  <2>2. \A t \in req[r].seen : Family(Successor(t)) = Family(t)
    BY <1>0, FamilyFacts DEF Request
  <2>3. QED
    BY <1>0, <2>1, <2>2 DEF RefreshKnows, RevocationKnows, LiveIn, Live
<1>7. CASE VisitRow(r)
  <2>1. PICK u \in First(req[r].todo) :
          req' = [req EXCEPT ![r] = [req[r] EXCEPT
                    !.todo = req[r].todo \ {u},
                    !.held = IF Live(u) THEN req[r].held \union {u}
                             ELSE req[r].held]]
    BY <1>7 DEF VisitRow
  <2> DEFINE h == IF Live(u) THEN req[r].held \union {u} ELSE req[r].held
  <2>2. req' = [req EXCEPT ![r] = [req[r] EXCEPT !.todo = req[r].todo \ {u},
                                                 !.held = h]]
    BY <2>1
  <2>3. req[r].held \subseteq h /\ (Live(u) => u \in h)
    OBVIOUS
  <2> HIDE DEF h
  <2>4. /\ req'[r].phase = req[r].phase /\ req'[r].todo = req[r].todo \ {u}
        /\ req'[r].seen = req[r].seen /\ req'[r].scope = req[r].scope
        /\ req'[r].reason = req[r].reason /\ req'[r].token = req[r].token
        /\ req'[r].held = h
    BY <1>0, <2>2 DEF TypeOK, Request
  <2>5. state' = state /\ req[r].phase \in {"locking", "updating"}
    BY <1>7 DEF VisitRow, table
  <2>6. QED
    BY <1>0, <2>3, <2>4, <2>5 DEF RefreshKnows, RevocationKnows, Live
<1>8. QED
  BY <1>1, <1>2, <1>3, <1>4, <1>5, <1>6, <1>7
  DEF Step, CommitRotation, CommitHandBack, CommitRevocation

\* A step changes one transaction at most.
LEMMA OneMoves ==
  ASSUME IInv, [Next]_vars
  PROVE  \/ req' = req
         \/ \E r \in Requests :
              /\ \A q \in Requests \ {r} : req'[q] = req[q]
              /\ RefreshKnows(r)' /\ RevocationKnows(r)'
<1>0. TypeOK
  BY DEF IInv
<1>1. CASE req' = req
  BY <1>1
<1>2. ASSUME NEW r \in Requests,
             \/ \E t \in given : StartRefresh(r, t) \/ StartLogout(r, t)
             \/ \E u \in Users : StartPasswordReset(r, u)
             \/ \E f \in Families : StartPasswordChange(r, f)
      PROVE  /\ \A q \in Requests \ {r} : req'[q] = req[q]
             /\ RefreshKnows(r)' /\ RevocationKnows(r)'
  <2>1. \A q \in Requests \ {r} : req'[q] = req[q]
    BY <1>0, <1>2
    DEF StartRefresh, StartLogout, StartPasswordReset, StartPasswordChange,
        BeginRevocation, TypeOK
  <2>2. QED
    BY <1>2, <2>1, StartKnows
<1>3. ASSUME NEW r \in Requests, Step(r)
      PROVE  /\ \A q \in Requests \ {r} : req'[q] = req[q]
             /\ RefreshKnows(r)' /\ RevocationKnows(r)'
  <2>1. \A q \in Requests \ {r} : req'[q] = req[q]
    BY <1>0, <1>3
    DEF Step, LockPresented, LockSuccessor, CommitRotation, CommitHandBack,
        CommitRevocation, CheckFamily, LockScan, UpdateScan, VisitRow, Finish,
        BeginRevocation, TypeOK
  <2>2. QED
    BY <1>3, <2>1, StepKnows
<1>4. ASSUME NEW r \in Requests, Finish(r)
      PROVE  /\ \A q \in Requests \ {r} : req'[q] = req[q]
             /\ RefreshKnows(r)' /\ RevocationKnows(r)'
  BY <1>0, <1>4, IdleKnows DEF Finish, TypeOK
<1>5. QED
  BY <1>1, <1>2, <1>3, <1>4
  DEF Next, vars, Tick, SignIn, Abort, BreakDeadlock

\* Every transaction knows what its phase relies on, after any step.
LEMMA KnowsStep ==
  ASSUME IInv, [Next]_vars, NEW r \in Requests
  PROVE  RefreshKnows(r)' /\ RevocationKnows(r)'
  BY OneMoves, OthersKnow

\* Where the token and the reason of a transaction come from.
LEMMA TokenMoves ==
  ASSUME IInv, [Next]_vars, NEW r \in Requests
  PROVE  \/ req'[r].token = req[r].token /\ req'[r].reason = req[r].reason
         \/ req'[r].token = NoToken /\ req'[r].reason # "password_change"
         \/ req'[r].token \in given /\ req'[r].reason # "password_change"
         \/ \E f \in Families :
              /\ Fresh(f) /\ req'[r].token = <<f, 0>>
              /\ \A q \in Requests \ {r} : req'[q] = req[q]
<1>0. TypeOK /\ req[r] \in Request
  BY DEF IInv, TypeOK
<1>1. CASE req'[r] = req[r]
  BY <1>1
<1>2. CASE req'[r] = Idle
  BY <1>2 DEF Idle
<1>3. ASSUME NEW t \in given, StartRefresh(r, t)
      PROVE  req'[r].token \in given /\ req'[r].reason # "password_change"
  BY <1>0, <1>3 DEF StartRefresh, TypeOK, Idle
<1>4. ASSUME NEW scope, NEW reason, NEW held, reason # "password_change",
             BeginRevocation(r, scope, reason, NoToken, held)
      PROVE  req'[r].token = NoToken /\ req'[r].reason # "password_change"
  BY <1>0, <1>4 DEF BeginRevocation, TypeOK
<1>5. ASSUME NEW f \in Families, StartPasswordChange(r, f)
      PROVE  /\ Fresh(f) /\ req'[r].token = <<f, 0>>
             /\ \A q \in Requests \ {r} : req'[q] = req[q]
  BY <1>0, <1>5 DEF StartPasswordChange, BeginRevocation, TypeOK
<1>6. ASSUME NEW x, req' = [req EXCEPT ![r] = x],
             x.token = req[r].token, x.reason = req[r].reason
      PROVE  req'[r].token = req[r].token /\ req'[r].reason = req[r].reason
  BY <1>0, <1>6 DEF TypeOK
<1>7. CASE Step(r)
  <2>1. CASE Finish(r)
    BY <1>0, <1>2, <2>1 DEF Finish, TypeOK
  <2>2. CASE ~Finish(r) /\ (LockPresented(r) \/ LockSuccessor(r) \/ LockScan(r)
                             \/ UpdateScan(r) \/ VisitRow(r))
    <3>1. req'[r].token = req[r].token /\ req'[r].reason = req[r].reason
      <4>1. CASE LockPresented(r) /\ ~Finish(r)
        <5> DEFINE n == Branch(req[r].token, req[r].began)
        <5>1. req' = [req EXCEPT ![r] = [req[r] EXCEPT
                        !.phase = n, !.held = {req[r].token}]]
          BY <4>1 DEF LockPresented
        <5> HIDE DEF n
        <5>2. QED
          BY <1>0, <5>1 DEF TypeOK, Request
      <4>2. CASE LockSuccessor(r)
        BY <1>0, <4>2 DEF LockSuccessor, TypeOK, Request
      <4>3. CASE LockScan(r)
        BY <1>0, <4>3 DEF LockScan, TypeOK, Request
      <4>4. CASE UpdateScan(r)
        BY <1>0, <4>4 DEF UpdateScan, TypeOK, Request
      <4>5. CASE VisitRow(r)
        BY <1>0, <4>5 DEF VisitRow, TypeOK, Request
      <4>6. QED
        BY <2>2, <4>1, <4>2, <4>3, <4>4, <4>5
    <3>2. QED
      BY <3>1
  <2>3. CASE ~Finish(r) /\ CheckFamily(r)
    BY <1>4, <2>3 DEF CheckFamily
  <2>4. QED
    BY <1>7, <2>1, <2>2, <2>3
    DEF Step, CommitRotation, CommitHandBack, CommitRevocation
<1>8. CASE \E t \in given : StartLogout(r, t)
  BY <1>4, <1>8 DEF StartLogout
<1>9. CASE \E u \in Users : StartPasswordReset(r, u)
  BY <1>4, <1>9 DEF StartPasswordReset
<1>10. CASE Finish(r)
  BY <1>0, <1>2, <1>10 DEF Finish, TypeOK
<1>11. ASSUME NEW q \in Requests, q # r,
              \/ \E t \in given : StartRefresh(q, t) \/ StartLogout(q, t)
              \/ \E u \in Users : StartPasswordReset(q, u)
              \/ \E f \in Families : StartPasswordChange(q, f)
              \/ Step(q) \/ Finish(q)
       PROVE  req'[r] = req[r]
  BY <1>0, <1>11
  DEF StartRefresh, StartLogout, StartPasswordReset, StartPasswordChange,
      BeginRevocation, Step, LockPresented, LockSuccessor, CommitRotation,
      CommitHandBack, CommitRevocation, CheckFamily, LockScan, UpdateScan,
      VisitRow, Finish, TypeOK
<1>12. QED
  BY <1>1, <1>3, <1>5, <1>7, <1>8, <1>9, <1>10, <1>11
  DEF Next, vars, Tick, SignIn, Abort, BreakDeadlock

\* No two password changes issue the same token.
LEMMA IssuesAloneStep ==
  ASSUME IInv, [Next]_vars PROVE IssuesAlone'
<1> SUFFICES ASSUME NEW p \in Requests, NEW q \in Requests, p # q,
                    req'[p].reason = "password_change",
                    req'[q].token = req'[p].token
             PROVE  FALSE
  BY DEF IssuesAlone
<1>0. GivenExist /\ TypeOK /\ RevocationKnows(p)
  BY DEF IInv
<1>1. CASE req'[p].token = req[p].token /\ req'[p].reason = req[p].reason
  <2>1. /\ req[p].token \in TokenIds /\ state[req[p].token] = "absent"
        /\ req[q].token # req[p].token
    BY <1>0, <1>1 DEF RevocationKnows, IInv, IssuesAlone
  <2>2. \A f \in Families : Fresh(f) => req[p].token # <<f, 0>>
    BY DEF Fresh
  <2>3. QED
    BY <1>0, <1>1, <2>1, <2>2, TokenMoves DEF GivenExist
<1>2. CASE \E f \in Families :
             /\ Fresh(f) /\ req'[p].token = <<f, 0>>
             /\ \A r \in Requests \ {p} : req'[r] = req[r]
  BY <1>2 DEF Fresh
<1>3. QED
  BY <1>1, <1>2, TokenMoves

-----------------------------------------------------------------------------
(* The theorems. *)

LEMMA InvInit == Init => IInv
<1> SUFFICES ASSUME Init PROVE IInv
  OBVIOUS
<1>1. TypeOK
  BY IdleTyped DEF Init, TypeOK, States
<1>2. Chain /\ GivenExist
  BY DEF Init, Chain, GivenExist
<1>3. \A r \in Requests : req[r] = Idle
  BY DEF Init
<1>4. Exclusive /\ IssuesAlone
  BY <1>3 DEF Exclusive, IssuesAlone, Idle
<1>5. \A r \in Requests : RefreshKnows(r) /\ RevocationKnows(r)
  BY <1>3 DEF RefreshKnows, RevocationKnows, Idle
<1>6. QED
  BY <1>1, <1>2, <1>4, <1>5 DEF IInv

LEMMA InvStep == IInv /\ [Next]_vars => IInv'
<1> SUFFICES ASSUME IInv, [Next]_vars PROVE IInv'
  OBVIOUS
<1>1. TypeOK'
  BY TypeStep
<1>2. Chain'
  BY ChainStep
<1>3. GivenExist'
  BY GivenStep
<1>4. Exclusive'
  BY ExclusiveStep
<1>5. IssuesAlone'
  BY IssuesAloneStep
<1>6. \A r \in Requests : RefreshKnows(r)' /\ RevocationKnows(r)'
  BY KnowsStep
<1>7. QED
  BY <1>1, <1>2, <1>3, <1>4, <1>5, <1>6 DEF IInv

\* The inductive invariant holds in every reachable state.
THEOREM Invariance == Spec => []IInv
  BY InvInit, InvStep, PTL DEF Spec

\* Every variable keeps its type.
THEOREM TypeCorrect == Spec => []TypeOK
<1>1. IInv => TypeOK
  BY DEF IInv
<1>2. QED
  BY <1>1, Invariance, PTL

\* Concurrent refreshes, sign-outs and password events never fork a family.
THEOREM FamiliesNeverFork == Spec => []NeverForks
<1>1. IInv => NeverForks
  BY SuccessorFacts DEF IInv, Chain, NeverForks
<1>2. QED
  BY <1>1, Invariance, PTL

\* No answer hands out a token already ended when it was sent.
THEOREM AnswersAreLive == Spec => HandsOutLiveTokens
<1>1. IInv /\ [Next]_vars =>
        [\A r \in Requests :
           CommitHandBack(r) \/ CommitRotation(r) =>
             state'[Successor(req[r].token)] = "live"]_vars
  <2> SUFFICES ASSUME IInv, NEW r \in Requests,
                      CommitHandBack(r) \/ CommitRotation(r)
               PROVE  state'[Successor(req[r].token)] = "live"
    OBVIOUS
  <2>1. CASE CommitHandBack(r)
    BY <2>1 DEF CommitHandBack, table, IInv, RefreshKnows, Live
  <2>2. CASE CommitRotation(r)
    <3>1. req[r].phase = "rotate"
      BY <2>2 DEF CommitRotation
    <3>2. QED
      BY <2>2, <3>1, RotationReady, RotationRows, SuccessorFacts
  <2>3. QED
    BY <2>1, <2>2
<1>2. QED
  BY <1>1, Invariance, PTL DEF Spec, HandsOutLiveTokens

\* A revocation ends what it found live and the successors of what it found.
THEOREM RevocationsReachSuccessors == Spec => RevocationReachesSuccessor
<1>1. IInv /\ [Next]_vars =>
        [\A r \in Requests :
           CommitRevocation(r) =>
             \A t \in req[r].seen :
               /\ state'[t] # "live"
               /\ Successor(t) \in TokenIds => state'[Successor(t)] # "live"]_vars
  <2> SUFFICES ASSUME IInv, NEW r \in Requests, CommitRevocation(r),
                      NEW t \in req[r].seen
               PROVE  /\ state'[t] # "live"
                      /\ Successor(t) \in TokenIds =>
                           state'[Successor(t)] # "live"
    OBVIOUS
  <2>1. /\ RevocationKnows(r) /\ t \in TokenIds
        /\ req[r].phase = "updating" /\ req[r].todo = {}
        /\ req[r].reason \in EndReasons
    BY DEF IInv, TypeOK, Request, CommitRevocation, RevocationKnows
  <2>2. ASSUME NEW u \in TokenIds, Family(u) \in req[r].scope,
               state[u] = "live" => u \in req[r].held,
               state[u] # "absent" \/ u[2] > 0
        PROVE  state'[u] # "live"
    <3>1. CASE state[u] = "live"
      BY <2>1, <2>2, <3>1
      DEF CommitRevocation, Revoked, LiveIn, Live, EndReasons
    <3>2. CASE state[u] # "live"
      BY <2>2, <3>2, RevocationRows DEF EndReasons
    <3>3. QED
      BY <3>1, <3>2
  <2>3. state'[t] # "live"
    BY <2>1, <2>2 DEF RevocationKnows, Live
  <2>4. ASSUME Successor(t) \in TokenIds
        PROVE  state'[Successor(t)] # "live"
    <3>1. /\ Family(Successor(t)) \in req[r].scope
          /\ Successor(t)[2] > 0
          /\ state[Successor(t)] = "live" => Successor(t) \in req[r].held
      BY <2>1, <2>4, SuccessorFacts, FamilyFacts DEF RevocationKnows, Live
    <3>2. QED
      BY <2>2, <2>4, <3>1
  <2>5. QED
    BY <2>3, <2>4
<1>2. QED
  BY <1>1, Invariance, PTL DEF Spec, RevocationReachesSuccessor

-----------------------------------------------------------------------------
(* The refinement: rotating tokens implement sign-ins. *)

\* A transaction keeps to the sign-ins of one account.
LEMMA ScopedStep ==
  ASSUME IInv, Scoped, [Next]_vars PROVE Scoped'
<1> SUFFICES ASSUME NEW r \in Requests
             PROVE  /\ \A f, g \in req'[r].scope : Owner[f] = Owner[g]
                    /\ req'[r].reason = "password_change" =>
                         \A f \in req'[r].scope :
                           Owner[f] = Owner[Family(req'[r].token)]
  BY DEF Scoped
<1>0. TypeOK /\ req[r] \in Request
  BY DEF IInv, TypeOK
<1>1. CASE /\ req'[r].scope = req[r].scope /\ req'[r].token = req[r].token
           /\ req'[r].reason = req[r].reason
  BY <1>1 DEF Scoped
<1>2. CASE req'[r].scope = {}
  BY <1>2
<1>3. CASE Finish(r)
  BY <1>0, <1>2, <1>3 DEF Finish, Idle, TypeOK
<1>4. CASE \E t \in given : StartRefresh(r, t)
  BY <1>0, <1>2, <1>4 DEF StartRefresh, Idle, TypeOK
<1>5. ASSUME NEW f \in Families, NEW reason, NEW held,
             reason # "password_change",
             BeginRevocation(r, {f}, reason, NoToken, held)
      PROVE  req'[r].scope = {f} /\ req'[r].reason # "password_change"
  BY <1>0, <1>5 DEF BeginRevocation, TypeOK
<1>6. CASE \E t \in given : StartLogout(r, t)
  <2>1. PICK t \in given : StartLogout(r, t)
    BY <1>6
  <2>2. Family(t) \in Families
    BY <1>0, <2>1, FamilyFacts DEF TypeOK
  <2>3. req'[r].scope = {Family(t)} /\ req'[r].reason = "logout"
    BY <1>0, <2>1 DEF StartLogout, BeginRevocation, TypeOK
  <2>4. QED
    BY <2>3
<1>7. CASE \E u \in Users : StartPasswordReset(r, u)
  <2>1. PICK u \in Users : StartPasswordReset(r, u)
    BY <1>7
  <2>2. req'[r].scope = UserFamilies(u) /\ req'[r].reason = "password_reset"
    BY <1>0, <2>1 DEF StartPasswordReset, BeginRevocation, TypeOK
  <2>3. QED
    BY <2>2 DEF UserFamilies
<1>8. CASE \E f \in Families : StartPasswordChange(r, f)
  <2>1. PICK f \in Families : StartPasswordChange(r, f)
    BY <1>8
  <2>2. req'[r].scope = UserFamilies(Owner[f]) /\ req'[r].token = <<f, 0>>
    BY <1>0, <2>1 DEF StartPasswordChange, BeginRevocation, TypeOK
  <2>3. QED
    BY <2>2, FamilyFacts DEF UserFamilies
<1>9. CASE Step(r) /\ ~Finish(r)
  <2>1. CASE LockPresented(r)
    <3> DEFINE n == Branch(req[r].token, req[r].began)
    <3>1. req' = [req EXCEPT ![r] = [req[r] EXCEPT
                    !.phase = n, !.held = {req[r].token}]]
      BY <1>9, <2>1 DEF LockPresented
    <3> HIDE DEF n
    <3>2. QED
      BY <1>0, <1>1, <3>1 DEF TypeOK, Request
  <2>2. CASE LockSuccessor(r)
    BY <1>0, <1>1, <2>2 DEF LockSuccessor, TypeOK, Request
  <2>3. CASE CheckFamily(r)
    <3>1. Family(req[r].token) \in Families
      BY <2>3, FamilyFacts DEF CheckFamily, IInv, RefreshKnows, TypeOK
    <3>2. QED
      BY <1>5, <1>9, <2>3, <3>1 DEF CheckFamily
  <2>4. CASE LockScan(r)
    BY <1>0, <1>1, <2>4 DEF LockScan, TypeOK, Request
  <2>5. CASE UpdateScan(r)
    BY <1>0, <1>1, <2>5 DEF UpdateScan, TypeOK, Request
  <2>6. CASE VisitRow(r)
    BY <1>0, <1>1, <2>6 DEF VisitRow, TypeOK, Request
  <2>7. QED
    BY <1>9, <2>1, <2>2, <2>3, <2>4, <2>5, <2>6
    DEF Step, CommitRotation, CommitHandBack, CommitRevocation
<1>10. ASSUME NEW q \in Requests, q # r,
              \/ \E t \in given : StartRefresh(q, t) \/ StartLogout(q, t)
              \/ \E u \in Users : StartPasswordReset(q, u)
              \/ \E f \in Families : StartPasswordChange(q, f)
              \/ Step(q) \/ Finish(q)
       PROVE  req'[r] = req[r]
  BY <1>0, <1>10
  DEF StartRefresh, StartLogout, StartPasswordReset, StartPasswordChange,
      BeginRevocation, Step, LockPresented, LockSuccessor, CommitRotation,
      CommitHandBack, CommitRevocation, CheckFamily, LockScan, UpdateScan,
      VisitRow, Finish, TypeOK
<1>11. QED
  BY <1>1, <1>3, <1>4, <1>6, <1>7, <1>8, <1>9, <1>10
  DEF Next, vars, Tick, SignIn, Abort, BreakDeadlock

\* Every transaction keeps to one account, always.
THEOREM OneAccount == Spec => []Scoped
<1>1. Init => Scoped
  BY DEF Init, Scoped, Idle
<1>2. IInv /\ Scoped /\ [Next]_vars => Scoped'
  BY ScopedStep
<1>3. QED
  BY <1>1, <1>2, Invariance, PTL DEF Spec

\* What the status of a family says of its rows.
LEMMA StatusFacts ==
  ASSUME NEW f \in Families
  PROVE  /\ FamilyStatus[f] \in {"never", "open", "ended"}
         /\ FamilyStatus[f] = "never" <=> state[<<f, 0>>] = "absent"
         /\ FamilyStatus[f] = "open" <=>
              /\ state[<<f, 0>>] # "absent"
              /\ \E t \in TokenIds : Family(t) = f /\ state[t] = "live"
  BY DEF FamilyStatus, LiveIn, Live

\* The same of the state a step leads to.
LEMMA NextStatusFacts ==
  ASSUME NEW f \in Families
  PROVE  /\ FamilyStatus'[f] \in {"never", "open", "ended"}
         /\ FamilyStatus'[f] = "never" <=> state'[<<f, 0>>] = "absent"
         /\ FamilyStatus'[f] = "open" <=>
              /\ state'[<<f, 0>>] # "absent"
              /\ \E t \in TokenIds : Family(t) = f /\ state'[t] = "live"
  BY DEF FamilyStatus, LiveIn, Live

\* A family whose rows stay as they are keeps its status.
LEMMA StatusLocal ==
  ASSUME NEW f \in Families,
         \A t \in TokenIds : Family(t) = f => state'[t] = state[t]
  PROVE  FamilyStatus'[f] = FamilyStatus[f]
<1>1. state'[<<f, 0>>] = state[<<f, 0>>]
  BY SuccessorFacts, FamilyFacts
<1>2. QED
  BY <1>1, StatusFacts, NextStatusFacts

\* Statuses that change family by family make a step of SignIns.
LEMMA StatusStep ==
  ASSUME NEW u \in Users,
         NEW opened \in SUBSET Families, NEW closed \in SUBSET Families,
         \A f, g \in opened : f = g,
         \A f \in opened : Owner[f] = u /\ FamilyStatus[f] = "never",
         \A f \in closed : Owner[f] = u /\ FamilyStatus[f] = "open",
         \A f \in Families : FamilyStatus'[f] =
           IF f \in opened THEN "open"
           ELSE IF f \in closed THEN "ended" ELSE FamilyStatus[f]
  PROVE  Abstract!Next
<1>1. FamilyStatus' = [f \in Families |->
         IF f \in opened THEN "open"
         ELSE IF f \in closed THEN "ended" ELSE FamilyStatus[f]]
  <2>1. FamilyStatus' = [f \in Families |-> FamilyStatus'[f]]
    BY DEF FamilyStatus
  <2> QED
    BY <2>1
<1>2. Abstract!Transact(u, opened, closed)
  BY <1>1 DEF Abstract!Transact
<1>3. QED
  BY <1>2 DEF Abstract!Next

\* Statuses that do not change make a stuttering step.
LEMMA StatusStutter ==
  ASSUME \A f \in Families : FamilyStatus'[f] = FamilyStatus[f]
  PROVE  FamilyStatus' = FamilyStatus
<1>1. /\ FamilyStatus = [f \in Families |-> FamilyStatus[f]]
      /\ FamilyStatus' = [f \in Families |-> FamilyStatus'[f]]
  BY DEF FamilyStatus
<1>2. [f \in Families |-> FamilyStatus'[f]] = [f \in Families |-> FamilyStatus[f]]
  OBVIOUS
<1>3. QED
  BY <1>1, <1>2

\* Signing in opens one family.
LEMMA SignInOpens ==
  ASSUME IInv, NEW f \in Families, SignIn(f)
  PROVE  Abstract!Next
<1>1. /\ state[<<f, 0>>] = "absent" /\ <<f, 0>> \in TokenIds
      /\ \A t \in TokenIds : state'[t] = IF t = <<f, 0>> THEN "live" ELSE state[t]
  BY SuccessorFacts DEF SignIn, Fresh, IInv, TypeOK
<1>2. FamilyStatus[f] = "never" /\ FamilyStatus'[f] = "open"
  BY <1>1, FamilyFacts, StatusFacts, NextStatusFacts
<1>3. ASSUME NEW g \in Families, g # f
      PROVE  FamilyStatus'[g] = FamilyStatus[g]
  BY <1>1, <1>3, FamilyFacts, StatusLocal
<1>4. QED
  <2> DEFINE opened == {f}
             closed == {}
  <2>1. Owner[f] \in Users
    OBVIOUS
  <2>2. \A g \in Families : FamilyStatus'[g] =
          IF g \in opened THEN "open"
          ELSE IF g \in closed THEN "ended" ELSE FamilyStatus[g]
    BY <1>2, <1>3
  <2>3. /\ opened \in SUBSET Families /\ closed \in SUBSET Families
        /\ \A g, h \in opened : g = h
        /\ \A g \in opened : Owner[g] = Owner[f] /\ FamilyStatus[g] = "never"
        /\ \A g \in closed : Owner[g] = Owner[f] /\ FamilyStatus[g] = "open"
    BY <1>2
  <2> HIDE DEF opened, closed
  <2>4. QED
    BY <2>1, <2>2, <2>3, StatusStep

\* Rotating a token leaves every status as it was.
LEMMA RotationStutters ==
  ASSUME IInv, NEW r \in Requests, CommitRotation(r)
  PROVE  FamilyStatus' = FamilyStatus
<1> DEFINE t == req[r].token
<1>1. /\ t \in TokenIds /\ state[t] = "live"
      /\ Successor(t) \in TokenIds /\ state[Successor(t)] = "absent"
  BY RotationReady DEF CommitRotation
<1>2. \A u \in TokenIds : state'[u] = IF u = t THEN "rotated"
                                      ELSE IF u = Successor(t) THEN "live"
                                      ELSE state[u]
  BY RotationRows
<1> HIDE DEF t
<1>3. ASSUME NEW f \in Families, f # Family(t)
      PROVE  FamilyStatus'[f] = FamilyStatus[f]
  BY <1>1, <1>2, <1>3, FamilyFacts, StatusLocal
<1>4. ASSUME NEW f \in Families, f = Family(t)
      PROVE  FamilyStatus'[f] = FamilyStatus[f]
  <2>1. <<f, 0>> \in TokenIds /\ <<f, 0>> # Successor(t)
    BY <1>1, SuccessorFacts
  <2>2. state'[<<f, 0>>] = "absent" <=> state[<<f, 0>>] = "absent"
    BY <1>1, <1>2, <2>1
  <2>3. \E u \in TokenIds : Family(u) = f /\ state[u] = "live"
    BY <1>1, <1>4
  <2>4. Family(Successor(t)) = f /\ state'[Successor(t)] = "live"
    BY <1>1, <1>2, <1>4, FamilyFacts, SuccessorFacts
  <2>5. \E u \in TokenIds : Family(u) = f /\ state'[u] = "live"
    BY <1>1, <2>4
  <2>6. QED
    BY <2>2, <2>3, <2>5, StatusFacts, NextStatusFacts
<1>5. QED
  BY <1>3, <1>4, StatusStutter

\* Ending sign-ins closes sign-ins of one account and, at a password change,
\* opens one of the same account.
LEMMA RevocationCloses ==
  ASSUME IInv, Scoped, NEW r \in Requests, CommitRevocation(r)
  PROVE  Abstract!Next \/ FamilyStatus' = FamilyStatus
<1> DEFINE issued == req[r].reason = "password_change"
           opened == IF issued THEN {Family(req[r].token)} ELSE {}
           closed == {f \in Families : /\ FamilyStatus[f] = "open"
                                       /\ FamilyStatus'[f] # "open"}
<1>1. issued => /\ req[r].token \in TokenIds
                /\ req[r].token = <<Family(req[r].token), 0>>
                /\ Family(req[r].token) \in Families
                /\ state[req[r].token] = "absent"
                /\ state'[req[r].token] = "live"
  <2>1. ASSUME issued
        PROVE  /\ req[r].token \in TokenIds /\ req[r].token[2] = 0
               /\ state[req[r].token] = "absent"
    BY <2>1 DEF IInv, RevocationKnows
  <2>2. ASSUME issued
        PROVE  state'[req[r].token] = "live"
    BY <2>1, <2>2 DEF CommitRevocation, Revoked, LiveIn, Live
  <2>3. \A t \in TokenIds : t[2] = 0 => t = <<Family(t), 0>>
    BY DEF TokenIds, Family
  <2>4. QED
    BY <2>1, <2>2, <2>3, FamilyFacts
<1>2. ASSUME NEW t \in TokenIds, state[t] = "live", state'[t] # "live"
      PROVE  Family(t) \in req[r].scope
  BY <1>1, <1>2 DEF CommitRevocation, Revoked, LiveIn, Live
<1>3. ASSUME NEW t \in TokenIds, state'[t] = "live", state[t] # "live"
      PROVE  issued /\ t = req[r].token
  BY <1>3, RevocationRows DEF EndReasons
<1>4. ASSUME NEW f \in Families, f \notin opened
      PROVE  state'[<<f, 0>>] = "absent" <=> state[<<f, 0>>] = "absent"
  BY <1>1, <1>4, SuccessorFacts, FamilyFacts, RevocationRows DEF EndReasons
<1>5. ASSUME NEW f \in opened
      PROVE  FamilyStatus[f] = "never" /\ FamilyStatus'[f] = "open"
  BY <1>1, <1>5, StatusFacts, NextStatusFacts
<1>6. ASSUME NEW f \in closed
      PROVE  f \in req[r].scope
  <2>1. PICK t \in TokenIds : Family(t) = f /\ state[t] = "live"
    BY StatusFacts
  <2>2. state'[<<f, 0>>] # "absent"
    BY <1>4, <1>5, StatusFacts
  <2>3. state'[t] # "live"
    BY <2>1, <2>2, NextStatusFacts
  <2>4. QED
    BY <1>2, <2>1, <2>3
<1>7. ASSUME NEW f \in Families, f \notin opened
      PROVE  FamilyStatus'[f] = IF f \in closed THEN "ended" ELSE FamilyStatus[f]
  <2>1. CASE FamilyStatus[f] = "never"
    BY <1>4, <1>7, <2>1, StatusFacts, NextStatusFacts
  <2>2. CASE FamilyStatus[f] = "ended"
    <3>1. state[<<f, 0>>] # "absent" /\ state'[<<f, 0>>] # "absent"
      BY <1>4, <1>7, <2>2, StatusFacts
    <3>2. \A t \in TokenIds : Family(t) = f => state[t] # "live"
      BY <2>2, <3>1, StatusFacts
    <3>3. \A t \in TokenIds : Family(t) = f => state'[t] # "live"
      BY <1>3, <1>7, <3>2
    <3>4. QED
      BY <2>2, <3>1, <3>3, NextStatusFacts
  <2>3. CASE FamilyStatus[f] = "open"
    BY <1>4, <1>7, <2>3, StatusFacts, NextStatusFacts
  <2>4. QED
    BY <2>1, <2>2, <2>3, StatusFacts
<1>8. \A f \in Families : FamilyStatus'[f] =
        IF f \in opened THEN "open"
        ELSE IF f \in closed THEN "ended" ELSE FamilyStatus[f]
  BY <1>5, <1>7
<1>9. opened \in SUBSET Families /\ closed \in SUBSET Families
  BY <1>1
<1>10. \A f, g \in closed : Owner[f] = Owner[g]
  BY <1>6 DEF Scoped
<1>11. \A f \in opened, g \in closed : Owner[g] = Owner[f]
  BY <1>6 DEF Scoped
<1>12. \A f, g \in opened : f = g
  OBVIOUS
<1>13. \A f \in opened : FamilyStatus[f] = "never"
  BY <1>5
<1>14. \A f \in closed : FamilyStatus[f] = "open"
  OBVIOUS
<1> HIDE DEF opened, closed
<1>15. CASE opened # {} \/ closed # {}
  <2>1. PICK f \in opened \union closed : TRUE
    BY <1>15
  <2>2. Owner[f] \in Users /\ f \in Families
    BY <1>9
  <2>3. \A g \in opened \union closed : Owner[g] = Owner[f]
    BY <1>10, <1>11, <1>12
  <2>4. QED
    BY <1>8, <1>9, <1>12, <1>13, <1>14, <2>2, <2>3, StatusStep
<1>16. CASE opened = {} /\ closed = {}
  BY <1>8, <1>16, StatusStutter
<1>17. QED
  BY <1>15, <1>16

\* Every step of the token protocol is a step of SignIns or invisible.
LEMMA StepImplements ==
  ASSUME IInv, Scoped, [Next]_vars
  PROVE  [Abstract!Next]_FamilyStatus
<1>1. CASE state' = state
  BY <1>1 DEF FamilyStatus, LiveIn, Live
<1>2. CASE \E f \in Families : SignIn(f)
  BY <1>2, SignInOpens
<1>3. CASE \E r \in Requests : CommitRotation(r) \/ CommitRevocation(r)
  BY <1>3, RotationStutters, RevocationCloses
<1>4. QED
  BY <1>1, <1>2, <1>3, Writers

\* The token protocol implements sign-ins that open once and never come back.
THEOREM Refinement == Spec => ImplementsSignIns
<1>1. Init => Abstract!Init
  BY SuccessorFacts DEF Init, Abstract!Init, FamilyStatus
<1>2. IInv /\ Scoped /\ [Next]_vars => [Abstract!Next]_FamilyStatus
  BY StepImplements
<1>3. QED
  BY <1>1, <1>2, Invariance, OneAccount, PTL
  DEF Spec, ImplementsSignIns, Abstract!Spec
=============================================================================
