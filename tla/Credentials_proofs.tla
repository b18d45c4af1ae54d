-------------------------- MODULE Credentials_proofs --------------------------
(***************************************************************************)
(* Proofs about Credentials, for any number of links, sign-ins, passwords  *)
(* and concurrent requests.                                                *)
(***************************************************************************)
EXTENDS Credentials, TLAPS

USE KindAssumption, AbsentAssumption

-----------------------------------------------------------------------------
(* Type correctness. *)

LEMMA IdleTyped == Idle \in Request
  BY DEF Idle, Request

\* A request that begins is well formed.
LEMMA BeginTyped ==
  ASSUME TypeOK,
         NEW op \in {"login", "change", "set", "reset", "verify", "issue"},
         NEW phase \in {"lock", "hash", "commit"}
  PROVE  Begin(op, phase) \in Request
  BY IdleTyped DEF Begin, Open, Request, TypeOK

\* Filling in what a request carries keeps it well formed.
LEMMA FieldsTyped ==
  ASSUME NEW x \in Request, NEW p \in Passwords
  PROVE  /\ \A b \in BOOLEAN : [x EXCEPT !.pass = p, !.rehash = b] \in Request
         /\ \A l \in Links : [x EXCEPT !.link = l, !.pass = p] \in Request
  BY DEF Request

LEMMA IssueTyped ==
  ASSUME NEW x \in Request, NEW k \in Kinds, NEW rows \in SUBSET Links
  PROVE  [x EXCEPT !.kind = k, !.rows = rows] \in Request
  BY DEF Request

\* Replacing one request by a well-formed one keeps the type of `req`.
LEMMA ReplaceTyped ==
  ASSUME TypeOK, NEW r \in Requests, NEW x \in Request,
         req' = [req EXCEPT ![r] = x]
  PROVE  req' \in [Requests -> Request]
  BY DEF TypeOK

\* A request that starts writes nothing but its own record.
Starts(r) ==
  \/ \E p \in Passwords : StartLogin(r, p)
  \/ \E k \in Kinds : StartIssue(r, k)
  \/ \E l \in Links, p \in Passwords : StartLink(r, l, p)
  \/ \E s \in SignIns, p \in Passwords :
       \/ StartSet(r, s, p)
       \/ \E current \in Passwords : StartChange(r, s, current, p)

LEMMA StartsTyped ==
  ASSUME TypeOK, NEW r \in Requests, Starts(r)
  PROVE  TypeOK'
<1>1. req' \in [Requests -> Request]
  <2>1. ASSUME NEW p \in Passwords, StartLogin(r, p)
        PROVE  req' \in [Requests -> Request]
    <3>1. [Begin("login", "hash") EXCEPT !.pass = p, !.rehash = outdated]
            \in Request
      BY BeginTyped, FieldsTyped DEF TypeOK
    <3>2. QED
      BY <2>1, <3>1, ReplaceTyped DEF StartLogin
  <2>2. ASSUME NEW k \in Kinds, StartIssue(r, k)
        PROVE  req' \in [Requests -> Request]
    <3>1. [Begin("issue", "commit") EXCEPT
             !.kind = k, !.rows = {l \in Links : Kind[l] = k /\ Unused(l)}]
            \in Request
      BY BeginTyped, IssueTyped
    <3>2. QED
      BY <2>2, <3>1, ReplaceTyped DEF StartIssue
  <2>3. ASSUME NEW l \in Links, NEW p \in Passwords, StartLink(r, l, p)
        PROVE  req' \in [Requests -> Request]
    <3>1. \A op \in {"reset", "verify"} :
            [Begin(op, "lock") EXCEPT !.link = l, !.pass = p] \in Request
      BY BeginTyped, FieldsTyped
    <3>2. QED
      BY <2>3, <3>1, ReplaceTyped DEF StartLink
  <2>4. ASSUME NEW s \in SignIns, NEW p \in Passwords, StartSet(r, s, p)
        PROVE  req' \in [Requests -> Request]
    <3>1. [Begin("set", "hash") EXCEPT !.pass = p] \in Request
      BY BeginTyped DEF Request
    <3>2. QED
      BY <2>4, <3>1, ReplaceTyped DEF StartSet
  <2>5. ASSUME NEW s \in SignIns, NEW c \in Passwords, NEW p \in Passwords,
               StartChange(r, s, c, p)
        PROVE  req' \in [Requests -> Request]
    <3>1. [Begin("change", "hash") EXCEPT !.pass = p] \in Request
      BY BeginTyped DEF Request
    <3>2. QED
      BY <2>5, <3>1, ReplaceTyped DEF StartChange
  <2>6. QED
    BY <2>1, <2>2, <2>3, <2>4, <2>5 DEF Starts
<1>2. UNCHANGED <<account, links, status>>
  BY DEF Starts, StartLogin, StartIssue, StartLink, StartSet, StartChange
<1>3. QED
  BY <1>1, <1>2 DEF TypeOK, account

\* Noting that a password event has overtaken a request keeps it well formed.
LEMMA OvertakenTyped ==
  ASSUME NEW q \in Request, NEW b \in BOOLEAN
  PROVE  [q EXCEPT !.overtaken = b] \in Request
  BY DEF Request

\* The steps of the two statements that end sign-ins.
Scans(r) ==
  LockScan(r) \/ UpdateScan(r) \/ \E s \in SignIns : VisitRow(r, s)

LEMMA OpenTyped == Open \in SUBSET SignIns
  BY DEF Open

\* They change one request: what it has to visit, what it holds and its phase.
LEMMA ScanFields ==
  ASSUME TypeOK, NEW r \in Requests, Scans(r)
  PROVE  /\ req' = [req EXCEPT ![r] = req'[r]] /\ req'[r] \in Request
         /\ UNCHANGED <<account, links, status>>
         /\ req'[r].op = req[r].op /\ req'[r].link = req[r].link
         /\ req'[r].seen = req[r].seen /\ req'[r].passed = req[r].passed
         /\ req'[r].missed = req[r].missed
         /\ \/ /\ req[r].phase = "hash" /\ req'[r].phase = "locking"
               /\ req'[r].todo = Open /\ req'[r].ending = req[r].ending
            \/ /\ req[r].phase = "locking" /\ req'[r].phase = "updating"
               /\ req[r].todo = {}
               /\ req'[r].todo = Open /\ req'[r].ending = req[r].ending
            \/ \E s \in SignIns :
                 /\ req'[r].phase = req[r].phase /\ RowFree(r, s)
                 /\ req'[r].todo = req[r].todo \ {s}
                 /\ req'[r].ending = req[r].ending \union ({s} \intersect Open)
<1>0. req[r] \in Request /\ req \in [Requests -> Request]
  BY DEF TypeOK
<1>1. CASE LockScan(r)
  <2> DEFINE x == [req[r] EXCEPT !.phase = "locking", !.todo = Open]
  <2>1. x \in Request /\ req' = [req EXCEPT ![r] = x]
    BY <1>0, <1>1, OpenTyped DEF LockScan, Request
  <2>2. QED
    BY <1>0, <1>1, <2>1 DEF LockScan, Request
<1>2. CASE UpdateScan(r)
  <2> DEFINE x == [req[r] EXCEPT !.phase = "updating", !.todo = Open]
  <2>1. x \in Request /\ req' = [req EXCEPT ![r] = x]
    BY <1>0, <1>2, OpenTyped DEF UpdateScan, Request
  <2>2. QED
    BY <1>0, <1>2, <2>1 DEF UpdateScan, Request
<1>3. ASSUME NEW s \in SignIns, VisitRow(r, s)
      PROVE  /\ req' = [req EXCEPT ![r] = req'[r]] /\ req'[r] \in Request
             /\ UNCHANGED <<account, links, status>>
             /\ req'[r].op = req[r].op /\ req'[r].link = req[r].link
             /\ req'[r].seen = req[r].seen /\ req'[r].passed = req[r].passed
             /\ req'[r].missed = req[r].missed
             /\ req'[r].phase = req[r].phase /\ RowFree(r, s)
             /\ req'[r].todo = req[r].todo \ {s}
             /\ req'[r].ending = req[r].ending \union ({s} \intersect Open)
  <2> DEFINE todo == req[r].todo \ {s}
             ending == req[r].ending \union ({s} \intersect Open)
  <2>1. todo \in SUBSET SignIns /\ ending \in SUBSET SignIns
    BY <1>0, <1>3, OpenTyped DEF Request
  <2>2. req' = [req EXCEPT ![r] = [req[r] EXCEPT !.todo = todo, !.ending = ending]]
    BY <1>3 DEF VisitRow
  <2>3. UNCHANGED <<account, links, status>> /\ RowFree(r, s)
    BY <1>3 DEF VisitRow
  <2> HIDE DEF todo, ending
  <2>4. [req[r] EXCEPT !.todo = todo, !.ending = ending] \in Request
    BY <1>0, <2>1 DEF Request
  <2>5. /\ req'[r] = [req[r] EXCEPT !.todo = todo, !.ending = ending]
        /\ req' = [req EXCEPT ![r] = req'[r]] /\ req'[r] \in Request
    BY <1>0, <2>2, <2>4
  <2>6. /\ req'[r].op = req[r].op /\ req'[r].link = req[r].link
        /\ req'[r].seen = req[r].seen /\ req'[r].passed = req[r].passed
        /\ req'[r].missed = req[r].missed /\ req'[r].phase = req[r].phase
        /\ req'[r].todo = todo /\ req'[r].ending = ending
    BY <1>0, <2>5 DEF Request
  <2>7. QED
    BY <2>3, <2>5, <2>6 DEF todo, ending
<1>4. QED
  BY <1>1, <1>2, <1>3 DEF Scans

\* What a rotation leaves of every request.
LEMMA RotateFields ==
  ASSUME TypeOK, NEW s \in SignIns, Rotate(s)
  PROVE  /\ req' \in [Requests -> Request]
         /\ UNCHANGED <<account, links, status>>
         /\ \A r \in Requests :
              /\ s \notin req[r].ending
              /\ req'[r].op = req[r].op /\ req'[r].phase = req[r].phase
              /\ req'[r].link = req[r].link /\ req'[r].seen = req[r].seen
              /\ req'[r].ending = req[r].ending
              /\ req'[r].todo = req[r].todo \ {s}
              /\ req'[r].passed = IF req[r].phase = "locking"
                                  THEN req[r].passed \union {s} ELSE req[r].passed
              /\ req'[r].missed = IF req[r].phase = "updating" /\ s \in req[r].passed
                                  THEN req[r].missed \union {s} ELSE req[r].missed
<1>1. ASSUME NEW r \in Requests
      PROVE  /\ req'[r] \in Request
             /\ req'[r].op = req[r].op /\ req'[r].phase = req[r].phase
             /\ req'[r].link = req[r].link /\ req'[r].seen = req[r].seen
             /\ req'[r].ending = req[r].ending
             /\ req'[r].todo = req[r].todo \ {s}
             /\ req'[r].passed = IF req[r].phase = "locking"
                                 THEN req[r].passed \union {s} ELSE req[r].passed
             /\ req'[r].missed = IF req[r].phase = "updating" /\ s \in req[r].passed
                                 THEN req[r].missed \union {s} ELSE req[r].missed
  <2> DEFINE todo == req[r].todo \ {s}
             passed == IF req[r].phase = "locking"
                       THEN req[r].passed \union {s} ELSE req[r].passed
             missed == IF req[r].phase = "updating" /\ s \in req[r].passed
                       THEN req[r].missed \union {s} ELSE req[r].missed
  <2>1. /\ req[r] \in Request
        /\ todo \in SUBSET SignIns /\ passed \in SUBSET SignIns
        /\ missed \in SUBSET SignIns
    BY DEF TypeOK, Request
  <2>2. req'[r] = [req[r] EXCEPT !.todo = todo, !.passed = passed, !.missed = missed]
    BY DEF Rotate, Rotated
  <2> HIDE DEF todo, passed, missed
  <2>3. /\ req'[r] \in Request
        /\ req'[r].op = req[r].op /\ req'[r].phase = req[r].phase
        /\ req'[r].link = req[r].link /\ req'[r].seen = req[r].seen
        /\ req'[r].ending = req[r].ending /\ req'[r].todo = todo
        /\ req'[r].passed = passed /\ req'[r].missed = missed
    BY <2>1, <2>2 DEF Request
  <2>4. QED
    BY <2>3 DEF todo, passed, missed
<1>2. req' \in [Requests -> Request]
  <2>1. req' = [r \in Requests |-> req'[r]]
    BY DEF Rotate
  <2>2. QED
    BY <1>1, <2>1
<1>3. QED
  BY <1>1, <1>2 DEF Rotate

\* A request's turn ends with every request well formed.
LEMMA FinishTyped ==
  ASSUME TypeOK, NEW r \in Requests, Finish(r) \/ FinishEvent(r)
  PROVE  req' \in [Requests -> Request]
<1>1. CASE Finish(r)
  BY <1>1, IdleTyped, ReplaceTyped DEF Finish
<1>2. CASE FinishEvent(r)
  <2>1. \A q \in Requests :
          [req[q] EXCEPT !.overtaken = req[q].op # "none"] \in Request
    BY OvertakenTyped DEF TypeOK
  <2>2. QED
    BY <1>2, <2>1, IdleTyped DEF FinishEvent
<1>3. QED
  BY <1>1, <1>2

LEMMA StepTyped ==
  ASSUME TypeOK, NEW r \in Requests, Step(r)
  PROVE  TypeOK'
<1>0. req[r] \in Request
  BY DEF TypeOK
<1>1. CASE LockLink(r)
  <2>1. [req[r] EXCEPT !.phase = "hash"] \in Request
    BY <1>0 DEF Request
  <2>2. req' \in [Requests -> Request]
    BY <1>1, <2>1, FinishTyped, ReplaceTyped DEF LockLink
  <2>3. QED
    BY <1>1, <2>2 DEF LockLink, TypeOK, account
<1>2. CASE Scans(r)
  <2>1. req' \in [Requests -> Request]
    BY <1>2, ScanFields, ReplaceTyped
  <2>2. QED
    BY <1>2, <2>1, ScanFields DEF TypeOK, account
<1>3. CASE CommitReset(r)
  BY <1>0, <1>3, FinishTyped DEF CommitReset, Ended, TypeOK, Request
<1>4. CASE CommitSet(r)
  BY <1>0, <1>4, FinishTyped DEF CommitSet, TypeOK, Request
<1>5. ASSUME NEW s \in SignIns, CommitLogin(r, s)
      PROVE  TypeOK'
  BY <1>0, <1>5, FinishTyped DEF CommitLogin, TypeOK, Request
<1>6. ASSUME NEW s \in SignIns, CommitVerify(r, s)
      PROVE  TypeOK'
  BY <1>0, <1>6, FinishTyped DEF CommitVerify, TypeOK, Request
<1>7. ASSUME NEW s \in SignIns, CommitChange(r, s)
      PROVE  TypeOK'
  BY <1>0, <1>7, FinishTyped DEF CommitChange, Ended, TypeOK, Request
<1>8. ASSUME NEW l \in Links, CommitIssue(r, l)
      PROVE  TypeOK'
  BY <1>8, FinishTyped DEF CommitIssue, TypeOK, account
<1>9. QED
  BY <1>1, <1>2, <1>3, <1>4, <1>5, <1>6, <1>7, <1>8 DEF Step, Scans

\* Every step is one of these.
LEMMA Cases ==
  ASSUME [Next]_vars
  PROVE  \/ vars' = vars
         \/ \E s \in SignIns : GoogleSignIn(s) \/ SignOut(s)
         \/ \E s \in SignIns : Rotate(s)
         \/ \E l \in Links : Expire(l)
         \/ \E r \in Requests : Starts(r) \/ Step(r) \/ Abort(r)
  BY DEF Next, Starts

LEMMA TypeStep ==
  ASSUME TypeOK, [Next]_vars PROVE TypeOK'
<1>1. CASE vars' = vars
  BY <1>1 DEF vars, account, TypeOK
<1>2. CASE \E s \in SignIns : GoogleSignIn(s) \/ SignOut(s)
  BY <1>2 DEF GoogleSignIn, SignOut, account, TypeOK
<1>3. CASE \E l \in Links : Expire(l)
  BY <1>3 DEF Expire, account, TypeOK
<1>4. ASSUME NEW r \in Requests, Abort(r)
      PROVE  TypeOK'
  BY <1>4, FinishTyped DEF Abort, account, TypeOK
<1>5. ASSUME NEW s \in SignIns, Rotate(s)
      PROVE  TypeOK'
  BY <1>5, RotateFields DEF account, TypeOK
<1>6. QED
  BY <1>1, <1>2, <1>3, <1>4, <1>5, StartsTyped, StepTyped, Cases

-----------------------------------------------------------------------------
(* What a step does to one request, one link and one sign-in. *)

LEMMA OvertakenOnly ==
  ASSUME NEW x \in Request, NEW b
  PROVE  LET y == [x EXCEPT !.overtaken = b] IN
         /\ y.op = x.op /\ y.phase = x.phase /\ y.link = x.link
         /\ y.seen = x.seen /\ y.ending = x.ending /\ y.todo = x.todo
         /\ y.passed = x.passed /\ y.missed = x.missed
  BY DEF Request

\* A request's step leaves the other requests as they are, but for `overtaken`.
LEMMA OthersStay ==
  ASSUME TypeOK, NEW r \in Requests, Starts(r) \/ Step(r) \/ Abort(r),
         NEW q \in Requests, q # r
  PROVE  /\ req'[q].op = req[q].op /\ req'[q].phase = req[q].phase
         /\ req'[q].link = req[q].link /\ req'[q].seen = req[q].seen
         /\ req'[q].ending = req[q].ending /\ req'[q].todo = req[q].todo
         /\ req'[q].passed = req[q].passed /\ req'[q].missed = req[q].missed
<1>0. req[q] \in Request /\ req \in [Requests -> Request]
  BY DEF TypeOK
<1>1. CASE req'[q] = req[q]
  BY <1>1
<1>2. CASE FinishEvent(r)
  <2>1. req'[q] = [req[q] EXCEPT !.overtaken = req[q].op # "none"]
    BY <1>2 DEF FinishEvent
  <2>2. QED
    BY <1>0, <2>1, OvertakenOnly
<1>3. CASE Starts(r) \/ Abort(r) \/ LockLink(r) \/ Finish(r)
  <2>1. req'[q] = req[q]
    BY <1>0, <1>3
    DEF Starts, StartLogin, StartIssue, StartLink, StartSet, StartChange,
        Abort, LockLink, Finish
  <2>2. QED
    BY <2>1
<1>4. CASE Scans(r)
  <2>1. req' = [req EXCEPT ![r] = req'[r]]
    BY <1>4, ScanFields
  <2>2. req'[q] = req[q]
    BY <1>0, <2>1
  <2>3. QED
    BY <2>2
<1>5. QED
  BY <1>2, <1>3, <1>4
  DEF Step, Scans, CommitReset, CommitSet, CommitLogin, CommitVerify, CommitChange,
      CommitIssue

LEMMA BeginFields ==
  ASSUME NEW op, NEW phase
  PROVE  /\ Begin(op, phase).op = op /\ Begin(op, phase).phase = phase
         /\ Begin(op, phase).seen = Open /\ Begin(op, phase).ending = {}
  BY DEF Begin, Idle

LEMMA FieldsKept ==
  ASSUME NEW x \in Request
  PROVE  LET Kept(y) == /\ y.op = x.op /\ y.phase = x.phase
                        /\ y.seen = x.seen /\ y.ending = x.ending
         IN  /\ \A p, b : Kept([x EXCEPT !.pass = p, !.rehash = b])
             /\ \A p : Kept([x EXCEPT !.pass = p])
             /\ \A k, rows : Kept([x EXCEPT !.kind = k, !.rows = rows])
             /\ \A l, p : LET y == [x EXCEPT !.link = l, !.pass = p] IN
                  Kept(y) /\ y.link = l
  BY DEF Request

\* What a request is when it has started.
LEMMA StartFields ==
  ASSUME TypeOK, NEW r \in Requests, Starts(r)
  PROVE  /\ \/ req'[r].op \in {"login", "change", "set"} /\ verified
            \/ req'[r].op = "issue"
            \/ /\ req'[r].op \in {"reset", "verify"} /\ req'[r].phase = "lock"
               /\ req'[r].link \in Links
         /\ req'[r].phase \in {"lock", "hash", "commit"}
         /\ req'[r].seen = Open /\ req'[r].ending = {}
<1>0. req \in [Requests -> Request]
  BY DEF TypeOK
<1>1. ASSUME NEW p \in Passwords, StartLogin(r, p)
      PROVE  /\ req'[r].op = "login" /\ verified /\ req'[r].seen = Open
             /\ req'[r].ending = {} /\ req'[r].phase = "hash"
  BY <1>0, <1>1, BeginTyped, BeginFields, FieldsKept DEF StartLogin
<1>2. ASSUME NEW k \in Kinds, StartIssue(r, k)
      PROVE  /\ req'[r].op = "issue" /\ req'[r].seen = Open
             /\ req'[r].ending = {} /\ req'[r].phase = "commit"
  <2> DEFINE rows == {l \in Links : Kind[l] = k /\ Unused(l)}
  <2>1. req'[r] = [Begin("issue", "commit") EXCEPT !.kind = k, !.rows = rows]
    BY <1>0, <1>2 DEF StartIssue
  <2> HIDE DEF rows
  <2>2. QED
    BY <2>1, BeginTyped, BeginFields, FieldsKept
<1>3. ASSUME NEW l \in Links, NEW p \in Passwords, StartLink(r, l, p)
      PROVE  /\ req'[r].op \in {"reset", "verify"} /\ req'[r].phase = "lock"
             /\ req'[r].link \in Links /\ req'[r].seen = Open /\ req'[r].ending = {}
  <2>1. PICK op \in {"reset", "verify"} :
          req'[r] = [Begin(op, "lock") EXCEPT !.link = l, !.pass = p]
    BY <1>0, <1>3 DEF StartLink
  <2>2. QED
    BY <2>1, BeginTyped, BeginFields, FieldsKept
<1>4. ASSUME NEW s \in SignIns, NEW p \in Passwords, StartSet(r, s, p)
      PROVE  /\ req'[r].op = "set" /\ verified /\ req'[r].seen = Open
             /\ req'[r].ending = {} /\ req'[r].phase = "hash"
  BY <1>0, <1>4, BeginTyped, BeginFields, FieldsKept DEF StartSet
<1>5. ASSUME NEW s \in SignIns, NEW c \in Passwords, NEW p \in Passwords,
             StartChange(r, s, c, p)
      PROVE  /\ req'[r].op = "change" /\ verified /\ req'[r].seen = Open /\ req'[r].ending = {}
             /\ req'[r].phase = "hash"
  BY <1>0, <1>5, BeginTyped, BeginFields, FieldsKept DEF StartChange
<1>6. QED
  BY <1>1, <1>2, <1>3, <1>4, <1>5 DEF Starts

\* Only a request's own step changes what it holds; it holds a new link only
\* by locking a usable one nobody holds, and none when it ends.
LEMMA OwnHeld ==
  ASSUME TypeOK, NEW r \in Requests, Starts(r) \/ Step(r) \/ Abort(r)
  PROVE  \/ Held(r)' = {}
         \/ /\ Held(r)' = Held(r) /\ links' = links
         \/ /\ Held(r)' = {req[r].link} /\ links' = links
            /\ links[req[r].link] = "usable" /\ LinkFree(r, req[r].link)
            /\ req[r].op \in {"reset", "verify"}
<1>0. req[r] \in Request /\ req \in [Requests -> Request]
  BY DEF TypeOK
<1>1. CASE Finish(r) \/ FinishEvent(r)
  <2>1. req'[r] = Idle
    BY <1>0, <1>1 DEF Finish, FinishEvent
  <2>2. QED
    BY <2>1 DEF Held, Idle
<1>2. CASE Starts(r)
  <2>1. \/ req'[r].op \in {"login", "issue", "set", "change"}
        \/ req'[r].phase = "lock"
    BY <1>2, StartFields
  <2>2. QED
    BY <2>1 DEF Held
<1>3. CASE LockLink(r) /\ ~Finish(r)
  <2>1. req'[r] = [req[r] EXCEPT !.phase = "hash"]
    BY <1>0, <1>3 DEF LockLink
  <2>2. req'[r].op = req[r].op /\ req'[r].link = req[r].link
        /\ req'[r].phase = "hash"
    BY <1>0, <2>1 DEF Request
  <2>3. Held(r)' = IF req[r].op \in {"reset", "verify"} THEN {req[r].link} ELSE {}
    BY <2>2 DEF Held
  <2>4. QED
    BY <1>3, <2>3 DEF LockLink
<1>4. CASE Scans(r)
  <2>1. /\ req'[r].op = req[r].op /\ req'[r].link = req[r].link
        /\ req'[r].phase = "lock" <=> req[r].phase = "lock"
        /\ links' = links
    BY <1>4, ScanFields
  <2>2. QED
    BY <2>1 DEF Held
<1>5. QED
  BY <1>1, <1>2, <1>3, <1>4
  DEF Step, Scans, Abort, CommitReset, CommitSet, CommitLogin, CommitVerify,
      CommitChange, CommitIssue

\* A request that uses a link carries it to the end.
LEMMA OwnLink ==
  ASSUME TypeOK, HeldLinks, NEW r \in Requests, Starts(r) \/ Step(r) \/ Abort(r)
  PROVE  req'[r].op \in {"reset", "verify"} => req'[r].link \in Links
<1>0. req[r] \in Request /\ req \in [Requests -> Request]
  BY DEF TypeOK
<1>1. CASE Finish(r) \/ FinishEvent(r)
  BY <1>0, <1>1 DEF Finish, FinishEvent, Idle
<1>2. CASE Starts(r)
  BY <1>2, StartFields
<1>3. CASE LockLink(r) /\ ~Finish(r)
  <2>1. req'[r] = [req[r] EXCEPT !.phase = "hash"]
    BY <1>0, <1>3 DEF LockLink
  <2>2. QED
    BY <1>0, <2>1 DEF Request, HeldLinks
<1>4. CASE Scans(r)
  <2>1. req'[r].op = req[r].op /\ req'[r].link = req[r].link
    BY <1>4, ScanFields
  <2>2. QED
    BY <2>1 DEF HeldLinks
<1>5. QED
  BY <1>1, <1>2, <1>3, <1>4
  DEF Step, Scans, Abort, CommitReset, CommitSet, CommitLogin, CommitVerify,
      CommitChange, CommitIssue

\* A link in use stays unused unless the request that holds it ends, and so does
\* any link nobody holds unless a new one replaces it.
LEMMA LinkMoves ==
  ASSUME TypeOK, NEW r \in Requests, Starts(r) \/ Step(r) \/ Abort(r),
         NEW l \in Links, Unused(l), ~Unused(l)'
  PROVE  \/ l \in Held(r) /\ Held(r)' = {}
         \/ Held(r) = {} /\ LinkFree(r, l) /\ Held(r)' = {}
<1>0. req[r] \in Request /\ req \in [Requests -> Request]
  BY DEF TypeOK
<1>1. ASSUME Finish(r) \/ FinishEvent(r)
      PROVE  Held(r)' = {}
  <2>1. req'[r] = Idle
    BY <1>0, <1>1 DEF Finish, FinishEvent
  <2>2. QED
    BY <2>1 DEF Held, Idle
<1>2. CASE links' = links
  BY <1>2 DEF Unused
<1>3. CASE CommitReset(r) \/ \E s \in SignIns : CommitVerify(r, s)
  <2>1. links' = [links EXCEPT ![req[r].link] = "used"] /\ Held(r) = {req[r].link}
    BY <1>3 DEF CommitReset, CommitVerify, Held, Revoked
  <2>2. l = req[r].link
    BY <2>1 DEF Unused, TypeOK
  <2>3. QED
    BY <1>1, <1>3, <2>1, <2>2 DEF CommitReset, CommitVerify
<1>4. CASE \E m \in Links : CommitIssue(r, m)
  <2>1. l \in req[r].rows /\ LinkFree(r, l)
    BY <1>4 DEF CommitIssue, Unused
  <2>2. Held(r) = {}
    BY <1>4 DEF CommitIssue, Held
  <2>3. QED
    BY <1>1, <1>4, <2>1, <2>2 DEF CommitIssue
<1>5. QED
  BY <1>2, <1>3, <1>4
  DEF Starts, StartLogin, StartIssue, StartLink, StartSet, StartChange, Step,
      Abort, LockLink, LockScan, UpdateScan, VisitRow, CommitSet, CommitLogin,
      CommitChange

\* Other requests hold what they held.
LEMMA OthersHeld ==
  ASSUME TypeOK, NEW r \in Requests, Starts(r) \/ Step(r) \/ Abort(r),
         NEW q \in Requests, q # r
  PROVE  Held(q)' = Held(q)
  BY OthersStay DEF Held

LEMMA HeldStep ==
  ASSUME TypeOK, HeldLinks, [Next]_vars PROVE HeldLinks'
<1>1. ASSUME NEW r \in Requests, Starts(r) \/ Step(r) \/ Abort(r),
             NEW q \in Requests
      PROVE  req'[q].op \in {"reset", "verify"} => req'[q].link \in Links
  BY <1>1, OwnLink, OthersStay DEF HeldLinks
<1>2. ASSUME NEW r \in Requests, Starts(r) \/ Step(r) \/ Abort(r),
             NEW q \in Requests, NEW l \in Held(q)'
      PROVE  Unused(l)' /\ \A p \in Requests \ {q} : l \notin Held(p)'
  <2>0. l \in Links
    BY <1>1, <1>2 DEF Held
  <2>1. CASE q # r
    <3>1. l \in Held(q) /\ Unused(l) /\ LinkFree(q, l)
      BY <1>2, <2>1, OthersHeld DEF HeldLinks
    <3>2. l \notin Held(r) /\ ~LinkFree(r, l)
      BY <2>1, <3>1 DEF LinkFree
    <3>3. Unused(l)'
      BY <1>2, <2>0, <3>1, <3>2, LinkMoves
    <3>4. ASSUME NEW p \in Requests \ {q}
          PROVE  l \notin Held(p)'
      <4>1. CASE p # r
        BY <1>2, <3>1, <4>1, OthersHeld DEF LinkFree
      <4>2. CASE p = r
        BY <1>2, <3>2, <4>2, OwnHeld
      <4>3. QED
        BY <4>1, <4>2
    <3>5. QED
      BY <3>3, <3>4
  <2>2. CASE q = r
    <3>1. links' = links /\ LinkFree(r, l) /\ Unused(l)
      BY <1>2, <2>2, OwnHeld DEF HeldLinks, Unused
    <3>2. \A p \in Requests \ {q} : l \notin Held(p)'
      BY <1>2, <2>2, <3>1, OthersHeld DEF LinkFree
    <3>3. QED
      BY <3>1, <3>2 DEF Unused
  <2>3. QED
    BY <2>1, <2>2
<1>3. ASSUME NEW r \in Requests, Starts(r) \/ Step(r) \/ Abort(r)
      PROVE  HeldLinks'
  BY <1>1, <1>2, <1>3 DEF HeldLinks, LinkFree
<1>4. ASSUME req' = req, \A l \in Links : Unused(l) => Unused(l)'
      PROVE  HeldLinks'
  <2>1. \A r \in Requests : Held(r)' = Held(r)
    BY <1>4 DEF Held
  <2>2. \A r \in Requests : Held(r) \subseteq Links
    BY DEF HeldLinks, Held
  <2>3. QED
    BY <1>4, <2>1, <2>2 DEF HeldLinks, LinkFree
<1>5. CASE vars' = vars
  BY <1>4, <1>5 DEF vars, Unused
<1>6. CASE \E s \in SignIns : GoogleSignIn(s) \/ SignOut(s)
  BY <1>4, <1>6 DEF GoogleSignIn, SignOut, Unused
<1>7. CASE \E l \in Links : Expire(l)
  BY <1>4, <1>7 DEF Expire, Unused, TypeOK
<1>8. ASSUME NEW s \in SignIns, Rotate(s)
      PROVE  HeldLinks'
  <2>1. \A r \in Requests : Held(r)' = Held(r)
    BY <1>8, RotateFields DEF Held
  <2>2. /\ \A r \in Requests : req'[r].op = req[r].op /\ req'[r].link = req[r].link
        /\ links' = links
    BY <1>8, RotateFields
  <2>3. QED
    BY <2>1, <2>2 DEF HeldLinks, LinkFree, Unused
<1>9. QED
  BY <1>3, <1>5, <1>6, <1>7, <1>8, Cases

\* A sign-in opens once and, ended, is never open again.
LEMMA StatusMoves ==
  ASSUME TypeOK, [Next]_vars, NEW s \in SignIns
  PROVE  /\ status[s] # "never" => status'[s] # "never"
         /\ status'[s] = "open" => status[s] \in {"open", "never"}
<1>1. CASE status' = status
  BY <1>1 DEF TypeOK
<1>2. ASSUME NEW t \in SignIns, status[t] = "never",
             status' = [status EXCEPT ![t] = "open"]
      PROVE  /\ status[s] # "never" => status'[s] # "never"
             /\ status'[s] = "open" => status[s] \in {"open", "never"}
  BY <1>2 DEF TypeOK
<1>3. ASSUME NEW t \in SignIns, SignOut(t)
      PROVE  /\ status[s] # "never" => status'[s] # "never"
             /\ status'[s] = "open" => status[s] \in {"open", "never"}
  BY <1>3 DEF SignOut, TypeOK
<1>4. ASSUME NEW r \in Requests, CommitReset(r)
      PROVE  /\ status[s] # "never" => status'[s] # "never"
             /\ status'[s] = "open" => status[s] \in {"open", "never"}
  BY <1>4 DEF CommitReset, Ended, TypeOK
<1>5. ASSUME NEW r \in Requests, NEW t \in SignIns, CommitChange(r, t)
      PROVE  /\ status[s] # "never" => status'[s] # "never"
             /\ status'[s] = "open" => status[s] \in {"open", "never"}
  BY <1>5 DEF CommitChange, Ended, TypeOK
<1>6. QED
  BY <1>1, <1>2, <1>3, <1>4, <1>5
  DEF Next, vars, GoogleSignIn, Expire, StartLogin, StartIssue, StartLink,
      StartSet, StartChange, Rotate, Step, Abort, LockLink, LockScan,
      UpdateScan, VisitRow, CommitSet, CommitLogin, CommitVerify, CommitIssue

\* What a request's own step does to its part in ending sign-ins.
LEMMA OwnPart ==
  ASSUME TypeOK, NEW r \in Requests, Starts(r) \/ Step(r) \/ Abort(r)
  PROVE  \/ req'[r] = Idle
         \/ /\ req'[r].seen = Open /\ req'[r].ending = {} /\ status' = status
            /\ req'[r].phase \notin {"locking", "updating"}
         \/ /\ req'[r].seen = req[r].seen /\ req'[r].ending = req[r].ending
            /\ req'[r].phase = "hash"
         \/ Scans(r)
<1>0. req[r] \in Request /\ req \in [Requests -> Request]
  BY DEF TypeOK
<1>1. CASE Finish(r) \/ FinishEvent(r)
  BY <1>0, <1>1 DEF Finish, FinishEvent
<1>2. CASE Starts(r)
  <2>1. status' = status
    BY <1>2 DEF Starts, StartLogin, StartIssue, StartLink, StartSet, StartChange
  <2>2. QED
    BY <1>2, <2>1, StartFields
<1>3. CASE LockLink(r) /\ ~Finish(r)
  <2>1. req'[r] = [req[r] EXCEPT !.phase = "hash"]
    BY <1>0, <1>3 DEF LockLink
  <2>2. QED
    BY <1>0, <2>1 DEF Request
<1>4. QED
  BY <1>1, <1>2, <1>3
  DEF Step, Scans, Abort, CommitReset, CommitSet, CommitLogin, CommitVerify,
      CommitChange, CommitIssue

\* An open sign-in ends by signing out, or with the request that holds its row.
LEMMA EndsWithHolder ==
  ASSUME TypeOK, [Next]_vars, NEW s \in SignIns, status[s] = "open",
         status'[s] # "open"
  PROVE  \/ \A r \in Requests : s \notin req[r].ending
         \/ \E r \in Requests :
              s \in req[r].ending /\ FinishEvent(r) /\ (Step(r) \/ Abort(r))
<1>1. CASE status' = status
  BY <1>1
<1>2. ASSUME NEW t \in SignIns, status[t] = "never",
             status' = [status EXCEPT ![t] = "open"]
      PROVE  FALSE
  BY <1>2 DEF TypeOK
<1>3. ASSUME NEW t \in SignIns, SignOut(t)
      PROVE  \A r \in Requests : s \notin req[r].ending
  BY <1>3 DEF SignOut, TypeOK
<1>4. ASSUME NEW r \in Requests, CommitReset(r)
      PROVE  s \in req[r].ending /\ FinishEvent(r) /\ Step(r)
  BY <1>4 DEF CommitReset, Ended, Step
<1>5. ASSUME NEW r \in Requests, NEW t \in SignIns, CommitChange(r, t)
      PROVE  s \in req[r].ending /\ FinishEvent(r) /\ Step(r)
  BY <1>5 DEF CommitChange, Ended, Step
<1>6. QED
  BY <1>1, <1>2, <1>3, <1>4, <1>5
  DEF Next, vars, GoogleSignIn, Expire, StartLogin, StartIssue, StartLink,
      StartSet, StartChange, Rotate, Step, Abort, LockLink, LockScan,
      UpdateScan, VisitRow, CommitSet, CommitLogin, CommitVerify, CommitIssue

\* Only the request itself takes a row, one that is live and that nobody holds.
LEMMA RowTaken ==
  ASSUME TypeOK, [Next]_vars, NEW q \in Requests, NEW s \in req'[q].ending
  PROVE  /\ s \in SignIns
         /\ \/ s \in req[q].ending
            \/ /\ status[s] = "open" /\ RowFree(q, s) /\ status' = status
               /\ \A p \in Requests \ {q} : req'[p].ending = req[p].ending
<1>1. s \in SignIns
  <2>1. req'[q] \in Request
    BY TypeStep DEF TypeOK
  <2>2. QED
    BY <2>1 DEF Request
<1>2. CASE req'[q].ending = req[q].ending
  BY <1>1, <1>2
<1>3. ASSUME NEW r \in Requests, Starts(r) \/ Step(r) \/ Abort(r), s \notin req[q].ending
      PROVE  /\ status[s] = "open" /\ RowFree(q, s) /\ status' = status
             /\ \A p \in Requests \ {q} : req'[p].ending = req[p].ending
  <2>1. q = r
    BY <1>3, OthersStay
  <2>2. Scans(q)
    BY <1>3, <2>1, OwnPart DEF Idle
  <2>3. \A p \in Requests \ {q} : req'[p].ending = req[p].ending
    BY <1>3, <2>1, OthersStay
  <2>4. status[s] = "open" /\ RowFree(q, s) /\ status' = status
    BY <1>3, <2>2, ScanFields DEF Open
  <2>5. QED
    BY <2>3, <2>4
<1>4. QED
  BY <1>1, <1>2, <1>3, Cases, RotateFields
  DEF vars, GoogleSignIn, SignOut, Expire

LEMMA HeldSignInsStep ==
  ASSUME TypeOK, HeldSignIns, [Next]_vars PROVE HeldSignIns'
<1> SUFFICES ASSUME NEW q \in Requests, NEW s \in req'[q].ending
             PROVE  /\ status'[s] = "open"
                    /\ \A p \in Requests \ {q} : s \notin req'[p].ending
  BY DEF HeldSignIns, RowFree
<1>1. CASE s \in req[q].ending
  <2>1. status[s] = "open" /\ RowFree(q, s) /\ s \in SignIns
    BY <1>1, RowTaken DEF HeldSignIns
  <2>2. status'[s] = "open"
    <3> SUFFICES ASSUME status'[s] # "open" PROVE FALSE
      OBVIOUS
    <3>1. PICK r \in Requests : s \in req[r].ending /\ FinishEvent(r)
      BY <1>1, <2>1, EndsWithHolder
    <3>2. r = q
      BY <2>1, <3>1 DEF RowFree
    <3>3. req'[q].ending = {}
      BY <3>1, <3>2 DEF FinishEvent, Idle
    <3>4. QED
      BY <3>3
  <2>3. ASSUME NEW p \in Requests \ {q}, s \in req'[p].ending
        PROVE  FALSE
    <3>1. s \notin req[p].ending
      BY <2>1, <2>3 DEF RowFree
    <3>2. RowFree(p, s)
      BY <2>3, <3>1, RowTaken
    <3>3. QED
      BY <1>1, <3>2 DEF RowFree
  <2>4. QED
    BY <2>2, <2>3
<1>2. CASE s \notin req[q].ending
  BY <1>2, RowTaken DEF RowFree
<1>3. QED
  BY <1>1, <1>2

\* Where a sign-in a request has seen can be, given its status.
Tracked(x, s, st) ==
  /\ st # "never"
  /\ st = "open" =>
       /\ x.phase = "locking" => s \in x.todo \union x.ending \union x.passed
       /\ x.phase = "updating" =>
            /\ s \in x.ending \union x.passed
            /\ s \in x.todo \union x.ending \union x.missed

LEMMA SeenTracked ==
  SeenSignIns <=> \A r \in Requests : \A s \in req[r].seen : Tracked(req[r], s, status[s])
  BY DEF SeenSignIns, Tracked

\* A request's own step.
LEMMA OwnTracked ==
  ASSUME TypeOK, SeenSignIns, [Next]_vars, NEW r \in Requests,
         Starts(r) \/ Step(r) \/ Abort(r), NEW s \in req'[r].seen
  PROVE  Tracked(req'[r], s, status'[s])
<1>0. req[r] \in Request /\ req[r].seen \subseteq SignIns
  BY DEF TypeOK, Request
<1>1. CASE req'[r] = Idle
  BY <1>1 DEF Idle
<1>2. CASE /\ req'[r].seen = Open /\ status' = status
           /\ req'[r].phase \notin {"locking", "updating"}
  BY <1>2 DEF Tracked, Open
<1>3. CASE req'[r].seen = req[r].seen /\ req'[r].phase = "hash"
  <2>1. s \in SignIns /\ status[s] # "never"
    BY <1>0, <1>3 DEF SeenSignIns
  <2>2. QED
    BY <1>3, <2>1, StatusMoves DEF Tracked
<1>4. CASE Scans(r)
  <2>0. /\ req'[r].seen = req[r].seen /\ req'[r].passed = req[r].passed
        /\ req'[r].missed = req[r].missed /\ status' = status
    BY <1>4, ScanFields
  <2>1. Tracked(req[r], s, status[s]) /\ s \in SignIns
    BY <1>0, <2>0, SeenTracked
  <2>2. CASE /\ req'[r].phase = "locking" /\ req'[r].todo = Open
    BY <2>0, <2>1, <2>2 DEF Tracked, Open
  <2>3. CASE /\ req[r].phase = "locking" /\ req'[r].phase = "updating"
             /\ req[r].todo = {} /\ req'[r].todo = Open
             /\ req'[r].ending = req[r].ending
    BY <2>0, <2>1, <2>3 DEF Tracked, Open
  <2>4. ASSUME NEW t \in SignIns, req'[r].phase = req[r].phase,
               req'[r].todo = req[r].todo \ {t},
               req'[r].ending = req[r].ending \union ({t} \intersect Open)
        PROVE  Tracked(req'[r], s, status'[s])
    <3>1. status[s] = "open" /\ s = t => s \in req'[r].ending
      BY <2>1, <2>4 DEF Open
    <3>2. QED
      BY <2>0, <2>1, <2>4, <3>1 DEF Tracked
  <2>5. QED
    BY <1>4, <2>2, <2>3, <2>4, ScanFields
<1>5. QED
  BY <1>1, <1>2, <1>3, <1>4, OwnPart

\* Anybody else's step but a rotation.
LEMMA OthersTracked ==
  ASSUME TypeOK, SeenSignIns, [Next]_vars, NEW q \in Requests,
         req'[q].phase = req[q].phase, req'[q].seen = req[q].seen,
         req'[q].ending = req[q].ending, req'[q].todo = req[q].todo,
         req'[q].passed = req[q].passed, req'[q].missed = req[q].missed,
         NEW s \in req'[q].seen
  PROVE  Tracked(req'[q], s, status'[s])
<1>1. s \in SignIns /\ Tracked(req[q], s, status[s])
  BY SeenTracked DEF TypeOK, Request
<1>2. QED
  BY <1>1, StatusMoves DEF Tracked

\* A rotation moves the sign-in past one statement, or past both.
LEMMA RotateTracked ==
  ASSUME TypeOK, SeenSignIns, NEW t \in SignIns, Rotate(t), NEW q \in Requests,
         NEW s \in req'[q].seen
  PROVE  Tracked(req'[q], s, status'[s])
<1>1. Tracked(req[q], s, status[s]) /\ status' = status
  BY RotateFields, SeenTracked
<1>2. /\ t \notin req[q].ending /\ req'[q].phase = req[q].phase
      /\ req'[q].ending = req[q].ending /\ req'[q].todo = req[q].todo \ {t}
      /\ req'[q].passed = IF req[q].phase = "locking"
                          THEN req[q].passed \union {t} ELSE req[q].passed
      /\ req'[q].missed = IF req[q].phase = "updating" /\ t \in req[q].passed
                          THEN req[q].missed \union {t} ELSE req[q].missed
  BY RotateFields
<1>3. CASE req[q].phase = "locking"
  BY <1>1, <1>2, <1>3 DEF Tracked
<1>4. CASE req[q].phase = "updating"
  BY <1>1, <1>2, <1>4 DEF Tracked
<1>5. QED
  BY <1>1, <1>2, <1>3, <1>4 DEF Tracked

LEMMA SeenStep ==
  ASSUME TypeOK, SeenSignIns, [Next]_vars PROVE SeenSignIns'
<1> SUFFICES ASSUME NEW q \in Requests, NEW s \in req'[q].seen
             PROVE  Tracked(req'[q], s, status'[s])
  BY DEF SeenSignIns, Tracked
<1>1. CASE req' = req
  BY <1>1, OthersTracked
<1>2. ASSUME NEW r \in Requests, Starts(r) \/ Step(r) \/ Abort(r)
      PROVE  Tracked(req'[q], s, status'[s])
  BY <1>2, OwnTracked, OthersStay, OthersTracked
<1>3. QED
  BY <1>1, <1>2, RotateTracked, Cases DEF vars, GoogleSignIn, SignOut, Expire

\* An address once confirmed stays confirmed.
LEMMA VerifiedStays ==
  ASSUME verified, [Next]_vars PROVE verified'
  BY DEF Next, vars, account, GoogleSignIn, SignOut, Expire, StartLogin,
         StartIssue, StartLink, StartSet, StartChange, Rotate, Step, Abort,
         LockLink, LockScan, UpdateScan, VisitRow, CommitReset, CommitSet,
         CommitLogin, CommitVerify, CommitChange, CommitIssue

LEMMA CheckedStep ==
  ASSUME TypeOK, CheckedVerified, [Next]_vars PROVE CheckedVerified'
<1> SUFFICES ASSUME NEW q \in Requests, req'[q].op \in {"login", "change", "set"}
             PROVE  verified'
  BY DEF CheckedVerified
<1>0. req \in [Requests -> Request]
  BY DEF TypeOK
<1>1. CASE req'[q].op = req[q].op
  BY <1>1, VerifiedStays DEF CheckedVerified
<1>2. CASE Starts(q)
  BY <1>2, StartFields, VerifiedStays
<1>3. CASE Finish(q) \/ FinishEvent(q)
  BY <1>0, <1>3 DEF Finish, FinishEvent, Idle
<1>4. CASE LockLink(q) /\ ~Finish(q)
  <2>1. req'[q] = [req[q] EXCEPT !.phase = "hash"] /\ req[q] \in Request
    BY <1>0, <1>4 DEF LockLink
  <2>2. req'[q].op = req[q].op
    BY <2>1 DEF Request
  <2>3. QED
    BY <1>1, <2>2
<1>5. CASE Scans(q)
  <2>1. req'[q].op = req[q].op
    BY <1>5, ScanFields
  <2>2. QED
    BY <1>1, <2>1
<1>6. ASSUME NEW s \in SignIns, Rotate(s)
      PROVE  verified'
  BY <1>1, <1>6, RotateFields
<1>7. QED
  BY <1>1, <1>2, <1>3, <1>4, <1>5, <1>6, OthersStay, Cases
  DEF vars, GoogleSignIn, SignOut, Expire, Step, Scans, Abort, CommitReset, CommitSet,
      CommitLogin, CommitVerify, CommitChange, CommitIssue

LEMMA SignedInStep ==
  ASSUME TypeOK, CheckedVerified, SignedInVerified, [Next]_vars
  PROVE  SignedInVerified'
<1>1. CASE verified
  BY <1>1, VerifiedStays DEF SignedInVerified
<1>2. CASE ~verified
  <2>1. \A s \in SignIns : status[s] # "open"
    BY <1>2 DEF SignedInVerified, Open
  <2>2. ASSUME NEW r \in Requests, NEW s \in SignIns, CommitVerify(r, s)
        PROVE  verified'
    BY <2>2 DEF CommitVerify
  <2>3. ASSUME NEW r \in Requests, CommitReset(r)
        PROVE  \A s \in SignIns : status'[s] # "open"
    BY <2>1, <2>3 DEF CommitReset, Ended
  <2>4. CASE status' = status
    BY <2>1, <2>4 DEF SignedInVerified, Open
  <2>5. QED
    BY <1>2, <2>1, <2>2, <2>3, <2>4
    DEF Next, vars, account, GoogleSignIn, SignOut, Expire, StartLogin,
        StartIssue, StartLink, StartSet, StartChange, Rotate, Step, Abort,
        LockLink, LockScan, UpdateScan, VisitRow, CommitSet, CommitLogin,
        CommitChange, CommitIssue, CheckedVerified, SignedInVerified, Open
<1>3. QED
  BY <1>1, <1>2

-----------------------------------------------------------------------------
(* The theorems. *)

LEMMA InvInit == Init => IInv
<1> SUFFICES ASSUME Init PROVE IInv
  OBVIOUS
<1>1. TypeOK
  BY IdleTyped DEF Init, TypeOK
<1>2. \A r \in Requests : req[r] = Idle
  BY DEF Init
<1>3. HeldLinks /\ HeldSignIns /\ SeenSignIns /\ CheckedVerified
  BY <1>2 DEF HeldLinks, HeldSignIns, SeenSignIns, CheckedVerified, Held, Idle
<1>4. SignedInVerified
  BY DEF Init, SignedInVerified, Open
<1>5. QED
  BY <1>1, <1>3, <1>4 DEF IInv

LEMMA InvStep == IInv /\ [Next]_vars => IInv'
  BY TypeStep, HeldStep, HeldSignInsStep, SeenStep, CheckedStep, SignedInStep DEF IInv

\* The inductive invariant holds in every reachable state; with it, nobody is
\* ever signed in to an account not verified.
THEOREM Invariance == Spec => []IInv
  BY InvInit, InvStep, PTL DEF Spec

\* A one-time link succeeds at most once, however many requests follow it.
THEOREM LinksWorkOnce == Spec => SingleUse
<1>1. IInv /\ [Next]_vars =>
        [\A r \in Requests :
           /\ CommitReset(r) => Unused(req[r].link)
           /\ (\E s \in SignIns : CommitVerify(r, s)) => Unused(req[r].link)]_vars
  BY DEF IInv, HeldLinks, Held, CommitReset, CommitVerify, Revoked
<1>2. QED
  BY <1>1, Invariance, PTL DEF Spec, SingleUse

\* A reset and a change end every sign-in open when they began, but for one that
\* rotates during each of the two statements that end them.
THEOREM EventsEndOpenSignIns == Spec => EventsEndSignIns
<1>1. IInv /\ [Next]_vars =>
        [\A r \in Requests :
           CommitReset(r) \/ (\E s \in SignIns : CommitChange(r, s)) =>
             \A s \in req[r].seen :
               status'[s] = "ended" \/ s \in req[r].missed]_vars
  <2> SUFFICES ASSUME IInv, NEW r \in Requests,
                      CommitReset(r) \/ (\E s \in SignIns : CommitChange(r, s)),
                      NEW s \in req[r].seen, s \notin req[r].missed
               PROVE  status'[s] = "ended"
    OBVIOUS
  <2>1. /\ s \in SignIns /\ status[s] \in {"open", "ended"}
        /\ status[s] = "open" => s \in req[r].ending
    <3>1. req[r].phase = "updating" /\ req[r].todo = {}
      BY DEF CommitReset, CommitChange, Revoked
    <3>2. s \in SignIns /\ status[s] \in {"never", "open", "ended"}
      BY DEF IInv, TypeOK, Request
    <3>3. QED
      BY <3>1, <3>2 DEF IInv, SeenSignIns
  <2>2. Ended(r)[s] = "ended"
    BY <2>1 DEF Ended
  <2>3. QED
    BY <2>1, <2>2 DEF CommitReset, CommitChange, Ended
<1>2. QED
  BY <1>1, Invariance, PTL DEF Spec, EventsEndSignIns

-----------------------------------------------------------------------------
(* The account keeps what SignIns promises. *)

\* The transaction a step is: the sign-ins it opens, one at most, and those it ends.
Transacts(opened, closed) ==
  /\ opened \in SUBSET SignIns /\ closed \in SUBSET SignIns
  /\ \A s \in opened : status[s] = "never"
  /\ \A s \in closed : status[s] = "open"
  /\ \A s, t \in opened : s = t
  /\ status' = [s \in SignIns |-> IF s \in opened THEN "open"
                                 ELSE IF s \in closed THEN "ended"
                                 ELSE status[s]]

LEMMA TransactsAsPromised ==
  ASSUME NEW opened, NEW closed, Transacts(opened, closed) PROVE Promised!Next
<1>1. Promised!Transact("account", opened, closed)
  BY DEF Transacts, Promised!Transact
<1>2. QED
  BY <1>1 DEF Transacts, Promised!Next

\* Signing in opens one sign-in.
LEMMA SigningInAsPromised ==
  ASSUME TypeOK, NEW s \in SignIns, status[s] = "never",
         status' = [status EXCEPT ![s] = "open"]
  PROVE  Promised!Next
<1>1. Transacts({s}, {})
  BY DEF TypeOK, Transacts
<1>2. QED
  BY <1>1, TransactsAsPromised

\* What a request holds ends with it, beside which a change opens one sign-in.
LEMMA EndingAsPromised ==
  ASSUME TypeOK, HeldSignIns, NEW r \in Requests,
         NEW opened, opened \in SUBSET SignIns,
         \A s \in opened : status[s] = "never",
         \A s, t \in opened : s = t,
         status' = [s \in SignIns |-> IF s \in opened THEN "open" ELSE Ended(r)[s]]
  PROVE  Promised!Next
<1> DEFINE closed == req[r].ending \intersect Open
<1>1. ASSUME NEW s \in SignIns
      PROVE  Ended(r)[s] = IF s \in closed THEN "ended" ELSE status[s]
  BY DEF Ended, Open, HeldSignIns, TypeOK
<1>2. Transacts(opened, closed)
  BY <1>1 DEF Transacts, Open
<1>3. QED
  BY <1>2, TransactsAsPromised

LEMMA StepAsPromised ==
  ASSUME TypeOK, HeldSignIns, [Next]_vars
  PROVE  [Promised!Next]_status
<1>1. ASSUME NEW s \in SignIns, GoogleSignIn(s)
      PROVE  Promised!Next
  BY <1>1, SigningInAsPromised DEF GoogleSignIn
<1>2. ASSUME NEW s \in SignIns, SignOut(s)
      PROVE  Promised!Next
  <2>1. Transacts({}, {s})
    BY <1>2 DEF SignOut, TypeOK, Transacts
  <2>2. QED
    BY <2>1, TransactsAsPromised
<1>3. ASSUME NEW r \in Requests, NEW s \in SignIns,
             CommitLogin(r, s) \/ CommitVerify(r, s)
      PROVE  Promised!Next
  BY <1>3, SigningInAsPromised DEF CommitLogin, CommitVerify
<1>4. ASSUME NEW r \in Requests, CommitReset(r)
      PROVE  Promised!Next
  <2>1. status' = [t \in SignIns |-> IF t \in {} THEN "open" ELSE Ended(r)[t]]
    BY <1>4 DEF CommitReset, Ended
  <2> DEFINE none == {}
  <2>2. none \in SUBSET SignIns /\ \A t \in none : FALSE
    OBVIOUS
  <2>3. status' = [t \in SignIns |-> IF t \in none THEN "open" ELSE Ended(r)[t]]
    BY <2>1
  <2> HIDE DEF none
  <2>4. QED
    BY <2>2, <2>3, EndingAsPromised
<1>5. ASSUME NEW r \in Requests, NEW s \in SignIns, CommitChange(r, s)
      PROVE  Promised!Next
  <2>1. /\ status[s] = "never"
        /\ status' = [t \in SignIns |-> IF t \in {s} THEN "open" ELSE Ended(r)[t]]
    BY <1>5 DEF CommitChange, Ended
  <2>2. QED
    BY <2>1, EndingAsPromised
<1>6. QED
  BY <1>1, <1>2, <1>3, <1>4, <1>5, Cases
  DEF Starts, StartLogin, StartIssue, StartLink, StartSet, StartChange, Step,
      Abort, Rotate, LockLink, LockScan, UpdateScan, VisitRow, CommitSet,
      CommitIssue, Expire, vars

\* Whatever requests are in flight, the account's sign-ins move as SignIns
\* promises: opened once, one with a request, ended for good, and none ends that
\* was not open.
THEOREM AccountKeepsThePromise == Spec => MovesAsPromised
<1>1. Init => Promised!Init
  BY DEF Init, Promised!Init
<1>2. IInv /\ [Next]_vars => [Promised!Next]_status
  BY StepAsPromised DEF IInv
<1>3. QED
  BY <1>1, <1>2, Invariance, PTL DEF Spec, MovesAsPromised, Promised!Spec
=============================================================================
