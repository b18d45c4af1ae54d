--------------------------- MODULE RefreshSessions ---------------------------
(***************************************************************************)
(* Refresh-token sessions of the backend (services/auth.py on              *)
(* repositories/users.py), at the granularity of the SQL statements it     *)
(* runs under PostgreSQL's READ COMMITTED.                                 *)
(*                                                                         *)
(* A sign-in is a family of refresh tokens.  Each token has exactly one    *)
(* possible successor (an HMAC of itself, unique in the table), so the     *)
(* tokens of family f are <<f, 0>>, <<f, 1>>, ...  Refreshes, sign-outs    *)
(* and password events are concurrent transactions; a row a transaction    *)
(* has locked or changed blocks the others until it commits.               *)
(***************************************************************************)
EXTENDS Naturals, FiniteSets

CONSTANTS
  Users,         \* accounts
  Families,      \* sign-ins that may ever happen (uuid4 values)
  Owner,         \* the account each sign-in belongs to
  Requests,      \* requests the server can have in flight at once
  Position,      \* where a row stands in the index the scans use
  NoToken,       \* stands for "no refresh token"
  MaxRotations,  \* bound: rotations of one family
  MaxClock,      \* bound: the last instant
  Grace,         \* refresh_reuse_grace_seconds, in ticks
  TTL            \* refresh_token_ttl_days, in ticks

ASSUME OwnerAssumption == Owner \in [Families -> Users]
ASSUME BoundsAssumption ==
  /\ MaxRotations \in Nat /\ MaxClock \in Nat
  /\ Grace \in Nat /\ TTL \in Nat

TokenIds == Families \X (0..MaxRotations)

ASSUME NoTokenAssumption == NoToken \notin TokenIds
ASSUME PositionAssumption == Position \in [TokenIds -> Nat]

Family(t) == t[1]
Successor(t) == <<t[1], t[2] + 1>>

EndReasons == {"logout", "reuse", "password_change", "password_reset"}
States == {"absent", "live", "rotated"} \union EndReasons

Phases == {"idle", "lock", "rotate", "grace", "handback", "check",
           "scan", "locking", "updating"}

VARIABLES
  \* the table refresh_tokens, as committed
  state,      \* revoke_reason; "live" while revoked_at is null
  expires,    \* expires_at
  revokedAt,  \* revoked_at
  \* audit_log rows session.refresh_reuse, counted per family
  alarms,
  clock,
  given,      \* tokens whose raw value has reached a browser
  req         \* the transactions in flight

vars == <<state, expires, revokedAt, alarms, clock, given, req>>
table == <<state, expires, revokedAt>>

(***************************************************************************)
(* A transaction: its phase, the token presented (or, for a password       *)
(* change, the one it will issue), when the request started, what it is    *)
(* revoking and why, the rows its current statement has still to visit and *)
(* the rows it holds.  `seen` is not code: the live rows its first scan    *)
(* found, which the properties refer to.                                   *)
(***************************************************************************)
Request == [phase : Phases, token : TokenIds \union {NoToken},
            began : 0..MaxClock, scope : SUBSET Families,
            reason : EndReasons \union {"none"}, todo : SUBSET TokenIds,
            held : SUBSET TokenIds, seen : SUBSET TokenIds]

Idle == [phase |-> "idle", token |-> NoToken, began |-> 0, scope |-> {},
         reason |-> "none", todo |-> {}, held |-> {}, seen |-> {}]

TypeOK ==
  /\ state \in [TokenIds -> States]
  /\ expires \in [TokenIds -> Nat]
  /\ revokedAt \in [TokenIds -> Nat]
  /\ alarms \in [Families -> Nat]
  /\ clock \in 0..MaxClock
  /\ given \subseteq TokenIds
  /\ req \in [Requests -> Request]

Init ==
  /\ state = [t \in TokenIds |-> "absent"]
  /\ expires = [t \in TokenIds |-> 0]
  /\ revokedAt = [t \in TokenIds |-> 0]
  /\ alarms = [f \in Families |-> 0]
  /\ clock = 0
  /\ given = {}
  /\ req = [r \in Requests |-> Idle]

Live(t) == state[t] = "live"
LiveIn(scope) == {t \in TokenIds : Live(t) /\ Family(t) \in scope}

\* Mutant of LockFree: a row lock is not re-entrant.
LockFreeNotReentrant(r, t) == \A q \in Requests : t \notin req[q].held

\* No other transaction has locked or changed the row.
LockFree(r, t) == \A q \in Requests \ {r} : t \notin req[q].held

\* Both statements read the same index, so every scan meets rows in one order.
First(rows) == {t \in rows : \A u \in rows : Position[t] <= Position[u]}

\* A family no sign-in has used and no password change is about to.
Fresh(f) == /\ state[<<f, 0>>] = "absent"
            /\ \A r \in Requests : req[r].token # <<f, 0>>

\* family_is_live: some token neither revoked nor expired
FamilyIsLive(f) == \E t \in LiveIn({f}) : expires[t] > clock

Finish(r) == req' = [req EXCEPT ![r] = Idle]

\* The transaction goes on to end the sign-ins in scope, keeping its rows.
BeginRevocation(r, scope, reason, token, held) ==
  req' = [req EXCEPT ![r] =
            [phase |-> "scan", token |-> token, began |-> 0, scope |-> scope,
             reason |-> reason, todo |-> {}, held |-> held, seen |-> {}]]

\* The answer reaches the browser, or is lost on the way.
Answer(t) == given' \in {given, given \union {t}}

-----------------------------------------------------------------------------
(***************************************************************************)
(* Signing in: _issue_session without a parent, one INSERT.                *)
(***************************************************************************)
SignIn(f) ==
  /\ Fresh(f)
  /\ state' = [state EXCEPT ![<<f, 0>>] = "live"]
  /\ expires' = [expires EXCEPT ![<<f, 0>>] = clock + TTL]
  /\ given' = given \union {<<f, 0>>}
  /\ UNCHANGED <<revokedAt, alarms, clock, req>>

(***************************************************************************)
(* refresh_session.  `now` is read before the row lock is waited for.      *)
(***************************************************************************)
StartRefresh(r, t) ==
  /\ req[r] = Idle
  /\ t \in given
  /\ t[2] < MaxRotations
  /\ req' = [req EXCEPT ![r] = [Idle EXCEPT
               !.phase = "lock", !.token = t, !.began = clock]]
  /\ UNCHANGED <<table, alarms, clock, given>>

\* Where the locked row sends the request.
Branch(t, now) ==
  IF Live(t) THEN IF expires[t] > now THEN "rotate" ELSE "idle"
  ELSE IF state[t] # "rotated" THEN "idle"
  ELSE IF now <= revokedAt[t] + Grace THEN "grace"
  ELSE "check"

LockPresented(r) ==
  LET t == req[r].token
      next == Branch(t, req[r].began)
  IN /\ req[r].phase = "lock"
     /\ LockFree(r, t)
     /\ IF next = "idle" THEN Finish(r)
        ELSE req' = [req EXCEPT ![r] = [req[r] EXCEPT !.phase = next, !.held = {t}]]
     /\ UNCHANGED <<table, alarms, clock, given>>

\* Mutant of CommitRotation: the successor is issued and its parent left live.
CommitRotationKeepsParent(r) ==
  LET t == req[r].token IN
  /\ req[r].phase = "rotate"
  /\ state' = [state EXCEPT ![Successor(t)] = "live"]
  /\ expires' = [expires EXCEPT ![Successor(t)] = clock + TTL]
  /\ Answer(Successor(t))
  /\ Finish(r)
  /\ UNCHANGED <<revokedAt, alarms, clock>>

\* revoke(ROTATED) and the successor's INSERT, committed together.
CommitRotation(r) ==
  LET t == req[r].token IN
  /\ req[r].phase = "rotate"
  /\ state' = [state EXCEPT ![t] = "rotated", ![Successor(t)] = "live"]
  /\ revokedAt' = [revokedAt EXCEPT ![t] = clock]
  /\ expires' = [expires EXCEPT ![Successor(t)] = clock + TTL]
  /\ Answer(Successor(t))
  /\ Finish(r)
  /\ UNCHANGED <<alarms, clock>>

\* Mutant of LockSuccessor: the successor is read without FOR UPDATE.
LockSuccessorUnlocked(r) ==
  LET s == Successor(req[r].token) IN
  /\ req[r].phase = "grace"
  /\ req' = [req EXCEPT ![r].phase =
               IF Live(s) /\ expires[s] > req[r].began THEN "handback" ELSE "check"]
  /\ UNCHANGED <<table, alarms, clock, given>>

\* Inside the grace window the successor is locked before it is judged.
LockSuccessor(r) ==
  LET s == Successor(req[r].token) IN
  /\ req[r].phase = "grace"
  /\ LockFree(r, s)
  /\ req' = [req EXCEPT ![r] = [req[r] EXCEPT
               !.phase = IF Live(s) /\ expires[s] > req[r].began
                         THEN "handback" ELSE "check",
               !.held = req[r].held \union {s}]]
  /\ UNCHANGED <<table, alarms, clock, given>>

CommitHandBack(r) ==
  /\ req[r].phase = "handback"
  /\ Answer(Successor(req[r].token))
  /\ Finish(r)
  /\ UNCHANGED <<table, alarms, clock>>

\* A rotated token that came back too late: an alarm only if there is still
\* a session to protect.
CheckFamily(r) ==
  LET f == Family(req[r].token) IN
  /\ req[r].phase = "check"
  /\ IF FamilyIsLive(f)
     THEN BeginRevocation(r, {f}, "reuse", NoToken, req[r].held)
     ELSE Finish(r)
  /\ UNCHANGED <<table, alarms, clock, given>>

-----------------------------------------------------------------------------
(***************************************************************************)
(* Sign-out and password events end sign-ins the same way (revoke_family,  *)
(* revoke_all_for_user): lock the live rows, then UPDATE the live rows,    *)
(* two statements with a snapshot each.                                    *)
(***************************************************************************)
StartLogout(r, t) ==
  /\ req[r] = Idle
  /\ t \in given
  /\ BeginRevocation(r, {Family(t)}, "logout", NoToken, {})
  /\ UNCHANGED <<table, alarms, clock, given>>

\* Mutant of UserFamilies: the account is left out of the WHERE clause.
FamiliesOfAnyone(u) == Families

UserFamilies(u) == {f \in Families : Owner[f] = u}

StartPasswordReset(r, u) ==
  /\ req[r] = Idle
  /\ BeginRevocation(r, UserFamilies(u), "password_reset", NoToken, {})
  /\ UNCHANGED <<table, alarms, clock, given>>

\* The change will end by opening the sign-in f for the device that made it.
StartPasswordChange(r, f) ==
  /\ req[r] = Idle
  /\ Fresh(f)
  /\ BeginRevocation(r, UserFamilies(Owner[f]), "password_change", <<f, 0>>, {})
  /\ UNCHANGED <<table, alarms, clock, given>>

\* _lock_live: SELECT ... WHERE revoked_at IS NULL FOR UPDATE takes its snapshot
LockScan(r) ==
  LET rows == LiveIn(req[r].scope) IN
  /\ req[r].phase = "scan"
  /\ req' = [req EXCEPT ![r] = [req[r] EXCEPT
               !.phase = "locking", !.todo = rows, !.seen = rows]]
  /\ UNCHANGED <<table, alarms, clock, given>>

\* Mutant of UpdateScan: the rows locked are updated by id, in one snapshot.
UpdateScanOneSnapshot(r) ==
  /\ req[r].phase = "locking"
  /\ req[r].todo = {}
  /\ req' = [req EXCEPT ![r].phase = "updating"]
  /\ UNCHANGED <<table, alarms, clock, given>>

\* The UPDATE is a new statement with a snapshot of its own.
UpdateScan(r) ==
  /\ req[r].phase = "locking"
  /\ req[r].todo = {}
  /\ req' = [req EXCEPT ![r] = [req[r] EXCEPT
               !.phase = "updating", !.todo = LiveIn(req[r].scope)]]
  /\ UNCHANGED <<table, alarms, clock, given>>

\* Mutant of VisitRow: rows another transaction holds are skipped (SKIP LOCKED).
VisitRowSkipLocked(r) ==
  /\ req[r].phase \in {"locking", "updating"}
  /\ \E t \in First(req[r].todo) :
       req' = [req EXCEPT ![r] = [req[r] EXCEPT
                 !.todo = req[r].todo \ {t},
                 !.held = IF Live(t) /\ LockFree(r, t)
                          THEN req[r].held \union {t} ELSE req[r].held]]
  /\ UNCHANGED <<table, alarms, clock, given>>

\* The statement comes to the next row of its snapshot, waits for whoever holds
\* it, and keeps it if it is still live: a row revoked meanwhile is skipped.
VisitRow(r) ==
  /\ req[r].phase \in {"locking", "updating"}
  /\ \E t \in First(req[r].todo) :
       /\ LockFree(r, t)
       /\ req' = [req EXCEPT ![r] = [req[r] EXCEPT
                    !.todo = req[r].todo \ {t},
                    !.held = IF Live(t) THEN req[r].held \union {t}
                             ELSE req[r].held]]
  /\ UNCHANGED <<table, alarms, clock, given>>

Revoked(r) == req[r].held \intersect LiveIn(req[r].scope)

CommitRevocation(r) ==
  LET issued == IF req[r].reason = "password_change" THEN {req[r].token} ELSE {}
  IN /\ req[r].phase = "updating"
     /\ req[r].todo = {}
     /\ state' = [t \in TokenIds |->
                    IF t \in Revoked(r) THEN req[r].reason
                    ELSE IF t \in issued THEN "live"
                    ELSE state[t]]
     /\ revokedAt' = [t \in TokenIds |->
                        IF t \in Revoked(r) THEN clock ELSE revokedAt[t]]
     /\ expires' = [t \in TokenIds |->
                      IF t \in issued THEN clock + TTL ELSE expires[t]]
     /\ alarms' = [f \in Families |->
                     IF req[r].reason = "reuse" /\ f \in req[r].scope
                     THEN alarms[f] + 1 ELSE alarms[f]]
     /\ given' = given \union issued
     /\ Finish(r)
     /\ UNCHANGED clock

-----------------------------------------------------------------------------
\* The worker dies, the connection drops or the pool times out before COMMIT:
\* PostgreSQL rolls the transaction back and frees its rows.
Abort(r) ==
  /\ req[r] # Idle
  /\ Finish(r)
  /\ UNCHANGED <<table, alarms, clock, given>>

\* The row the transaction needs next, if its statement is waiting for one.
Wanted(r) ==
  CASE req[r].phase = "lock" -> {req[r].token}
    [] req[r].phase = "grace" -> {Successor(req[r].token)}
    [] req[r].phase \in {"locking", "updating"} /\ req[r].todo # {}
         -> First(req[r].todo)
    [] OTHER -> {}

\* PostgreSQL fails one of the transactions that wait for each other in a circle.
BreakDeadlock(r) ==
  /\ \E S \in SUBSET Requests :
       /\ r \in S
       /\ \A p \in S : \E q \in S \ {p} : Wanted(p) \intersect req[q].held # {}
  /\ Finish(r)
  /\ UNCHANGED <<table, alarms, clock, given>>

Tick ==
  /\ clock < MaxClock
  /\ clock' = clock + 1
  /\ UNCHANGED <<table, alarms, given, req>>

Step(r) ==
  \/ LockPresented(r)
  \/ CommitRotation(r)
  \/ LockSuccessor(r)
  \/ CommitHandBack(r)
  \/ CheckFamily(r)
  \/ LockScan(r)
  \/ UpdateScan(r)
  \/ VisitRow(r)
  \/ CommitRevocation(r)

Next ==
  \/ Tick
  \/ \E f \in Families : SignIn(f)
  \/ \E r \in Requests :
       \/ \E t \in given : StartRefresh(r, t) \/ StartLogout(r, t)
       \/ \E u \in Users : StartPasswordReset(r, u)
       \/ \E f \in Families : StartPasswordChange(r, f)
       \/ Step(r)
       \/ Abort(r)
       \/ BreakDeadlock(r)

Spec == Init /\ [][Next]_vars

\* A request that can run runs on, and one that waits for a row gets it in the
\* end: PostgreSQL queues the waiters of a row.
Fairness == \A r \in Requests : SF_vars(Step(r)) /\ WF_vars(BreakDeadlock(r))
FairSpec == Spec /\ Fairness

-----------------------------------------------------------------------------
(***************************************************************************)
(* Properties                                                              *)
(***************************************************************************)

\* Concurrent refreshes never fork a family: a token followed by another was
\* rotated, so a family has at most one live token, its newest
\* (refresh_session locks the presented row before it looks at it).
NeverForks ==
  \A t \in TokenIds :
    /\ t[2] > 0 /\ state[t] # "absent" =>
         state[<<t[1], t[2] - 1>>] = "rotated"
    /\ state[t] = "rotated" =>
         Successor(t) \in TokenIds /\ state[Successor(t)] # "absent"

(***************************************************************************)
(* The inductive invariant behind it.                                      *)
(***************************************************************************)

\* A token has its successor in the table exactly when it was rotated.
Chain ==
  \A t \in TokenIds :
    /\ Successor(t) \in TokenIds =>
         (state[Successor(t)] # "absent" <=> state[t] = "rotated")
    /\ state[t] = "rotated" => Successor(t) \in TokenIds

GivenExist == \A t \in given : state[t] # "absent"

\* A row has at most one transaction holding it.
Exclusive ==
  \A p, q \in Requests : p # q => req[p].held \intersect req[q].held = {}

\* A password change is alone in issuing its token.
IssuesAlone ==
  \A p, q \in Requests :
    p # q /\ req[p].reason = "password_change" => req[q].token # req[p].token

\* What a refresh has established by the phase it is in.
RefreshKnows(r) ==
  /\ req[r].phase \in {"lock", "rotate", "grace", "handback", "check"} =>
       /\ req[r].token \in given
       /\ req[r].token[2] < MaxRotations
       /\ req[r].reason = "none"
  /\ req[r].phase = "rotate" =>
       req[r].held = {req[r].token} /\ Live(req[r].token)
  /\ req[r].phase \in {"grace", "handback"} => state[req[r].token] = "rotated"
  /\ req[r].phase = "handback" =>
       LET s == Successor(req[r].token) IN s \in req[r].held /\ Live(s)

\* What a revocation knows of the rows its first scan found, and of their
\* successors once the second scan has its snapshot.
RevocationKnows(r) ==
  /\ req[r].phase \in {"scan", "locking", "updating"} =>
       req[r].reason \in EndReasons
  /\ req[r].reason = "password_change" =>
       /\ req[r].token \in TokenIds
       /\ req[r].token[2] = 0
       /\ state[req[r].token] = "absent"
  /\ req[r].phase \in {"locking", "updating"} =>
       \A t \in req[r].seen :
         /\ state[t] # "absent"
         /\ Family(t) \in req[r].scope
         /\ Live(t) => t \in req[r].held \/ t \in req[r].todo
  /\ req[r].phase = "updating" =>
       \A t \in req[r].seen :
         /\ Live(t) => t \in req[r].held
         /\ Successor(t) \in TokenIds /\ Live(Successor(t)) =>
              Successor(t) \in req[r].held \/ Successor(t) \in req[r].todo

IInv ==
  /\ TypeOK
  /\ Chain
  /\ GivenExist
  /\ Exclusive
  /\ IssuesAlone
  /\ \A r \in Requests : RefreshKnows(r) /\ RevocationKnows(r)

\* An answer never hands the browser a token that a sign-out, a password event
\* or a replay had already ended when it was sent: the grace branch judges the
\* successor under its row lock and keeps the lock until COMMIT.
HandsOutLiveTokens ==
  [][\A r \in Requests :
       CommitHandBack(r) \/ CommitRotation(r) =>
         state'[Successor(req[r].token)] = "live"]_vars

\* Ending a sign-in while a refresh rotates its token ends the successor too:
\* of every token the revocation found live, neither it nor its successor is
\* live afterwards (_lock_live, then an UPDATE with a fresh snapshot).
RevocationReachesSuccessor ==
  [][\A r \in Requests :
       CommitRevocation(r) =>
         \A t \in req[r].seen :
           /\ state'[t] # "live"
           /\ Successor(t) \in TokenIds => state'[Successor(t)] # "live"]_vars

\* Once a revocation has committed, the sign-ins it found open are over
\* (docs/auth.md: a refresh rotating one of the tokens "finishes first and its
\* successor is revoked too").
RevocationEndsSignIn ==
  [][\A r \in Requests :
       CommitRevocation(r) =>
         \A t \in req[r].seen :
           \A n \in 0..MaxRotations : state'[<<t[1], n>>] # "live"]_vars

\* Every request is answered: no set of refreshes, sign-outs and password
\* events waits on one another's rows for ever.
EventuallyAnswered == \A r \in Requests : req[r] # Idle ~> req[r] = Idle

\* A transaction ends the sign-ins of one account only, the one it opens a new
\* sign-in for.
Scoped ==
  \A r \in Requests :
    /\ \A f, g \in req[r].scope : Owner[f] = Owner[g]
    /\ req[r].reason = "password_change" =>
         \A f \in req[r].scope : Owner[f] = Owner[Family(req[r].token)]

\* Seen from outside, a family is open while it has a token not revoked.
FamilyStatus ==
  [f \in Families |->
     IF state[<<f, 0>>] = "absent" THEN "never"
     ELSE IF LiveIn({f}) # {} THEN "open" ELSE "ended"]

\* Rotation, replay and loss are invisible from outside: the token protocol
\* implements sign-ins that open once, never blink and never come back.
Abstract == INSTANCE SignIns WITH status <- FamilyStatus
ImplementsSignIns == Abstract!Spec
=============================================================================
