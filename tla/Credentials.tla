----------------------------- MODULE Credentials -----------------------------
(***************************************************************************)
(* One account's credentials (services/auth.py): its password, the one-    *)
(* time links mailed to it and the sign-ins they open and end.             *)
(*                                                                         *)
(* A request reads the account first, hashes or checks a password for a    *)
(* tenth of a second, and commits.  What it read may be out of date by     *)
(* then: only one-time links are read under a row lock.  A reset and a     *)
(* change end the sign-ins with the two statements of revoke_all_for_user, *)
(* each with a snapshot of its own, beside rotations; the refreshes and    *)
(* sign-outs themselves are the subject of `RefreshSessions`.  Requests    *)
(* that are refused change nothing and do not appear.                      *)
(***************************************************************************)
EXTENDS Naturals, FiniteSets

CONSTANTS
  Passwords,   \* passwords people may choose
  NoPassword,  \* password_hash is NULL
  Links,       \* rows of auth_tokens that may ever be issued
  Kind,        \* email_verify or password_reset, of each link
  NoLink,      \* a request that uses no link
  SignIns,     \* refresh-token families that may ever begin
  Requests     \* requests in flight at once

Kinds == {"email_verify", "password_reset"}

ASSUME KindAssumption == Kind \in [Links -> Kinds]
ASSUME AbsentAssumption == NoPassword \notin Passwords /\ NoLink \notin Links

VARIABLES
  password,  \* what password_hash was made from
  outdated,  \* the hash was made with earlier argon2 parameters
  verified,  \* email_verified; is_active always goes with it
  links,     \* auth_tokens: "absent" | "usable" | "expired" | "used"
  status,    \* sign-ins: "never" | "open" | "ended"
  req        \* the requests in flight

account == <<password, outdated, verified>>
vars == <<account, links, status, req>>

(***************************************************************************)
(* A request that ends sign-ins has rows its current statement has still   *)
(* to visit (`todo`) and rows it holds and will have ended (`ending`).     *)
(* The rest is not code: whether a password event has committed since the  *)
(* request read the account (`overtaken`), the sign-ins open when it       *)
(* started (`seen`), those that rotated during its first statement         *)
(* (`passed`), and of these those that rotated again during its second     *)
(* (`missed`).                                                             *)
(***************************************************************************)
Request ==
  [op : {"none", "login", "change", "set", "reset", "verify", "issue"},
   phase : {"idle", "lock", "hash", "locking", "updating", "commit"},
   pass : Passwords \union {NoPassword}, rehash : BOOLEAN,
   link : Links \union {NoLink}, kind : Kinds \union {"none"},
   rows : SUBSET Links, todo : SUBSET SignIns, ending : SUBSET SignIns,
   seen : SUBSET SignIns, passed : SUBSET SignIns, missed : SUBSET SignIns,
   overtaken : BOOLEAN]

Idle == [op |-> "none", phase |-> "idle", pass |-> NoPassword, rehash |-> FALSE,
         link |-> NoLink, kind |-> "none", rows |-> {}, todo |-> {},
         ending |-> {}, seen |-> {}, passed |-> {}, missed |-> {},
         overtaken |-> FALSE]

TypeOK ==
  /\ password \in Passwords \union {NoPassword}
  /\ outdated \in BOOLEAN
  /\ verified \in BOOLEAN
  /\ links \in [Links -> {"absent", "usable", "expired", "used"}]
  /\ status \in [SignIns -> {"never", "open", "ended"}]
  /\ req \in [Requests -> Request]

\* An account registered and not confirmed, one with a password, or one that
\* only ever signed in with Google.
Init ==
  /\ \/ password = NoPassword /\ outdated = FALSE /\ verified \in BOOLEAN
     \/ password \in Passwords /\ outdated \in BOOLEAN /\ verified = TRUE
  /\ links = [l \in Links |-> "absent"]
  /\ status = [s \in SignIns |-> "never"]
  /\ req = [r \in Requests |-> Idle]

Open == {s \in SignIns : status[s] = "open"}
Unused(l) == links[l] \in {"usable", "expired"}

\* Links a request has locked FOR UPDATE and not yet committed.
Held(r) == IF req[r].op \in {"reset", "verify"} /\ req[r].phase # "lock"
           THEN {req[r].link} ELSE {}
LinkFree(r, l) == \A q \in Requests \ {r} : l \notin Held(q)

\* No other request holds the live row of the sign-in.
RowFree(r, s) == \A q \in Requests \ {r} : s \notin req[q].ending

Begin(op, phase) == [Idle EXCEPT !.op = op, !.phase = phase, !.seen = Open]

Finish(r) == req' = [req EXCEPT ![r] = Idle]

\* A password event ends the request's own turn and overtakes every other one.
FinishEvent(r) ==
  req' = [q \in Requests |->
            IF q = r THEN Idle
            ELSE [req[q] EXCEPT !.overtaken = req[q].op # "none"]]

-----------------------------------------------------------------------------
(***************************************************************************)
(* Signing in.                                                             *)
(***************************************************************************)

\* The row is read, then the password checked against the hash that was read.
StartLogin(r, p) ==
  /\ req[r] = Idle
  /\ password = p
  /\ verified
  /\ req' = [req EXCEPT ![r] =
               [Begin("login", "hash") EXCEPT !.pass = p, !.rehash = outdated]]
  /\ UNCHANGED <<account, links, status>>

\* The new family and, after a change of argon2 parameters, a new hash of the
\* password just checked.
CommitLogin(r, s) ==
  /\ req[r].op = "login"
  /\ status[s] = "never"
  /\ status' = [status EXCEPT ![s] = "open"]
  /\ password' = IF req[r].rehash THEN req[r].pass ELSE password
  /\ outdated' = (outdated /\ ~req[r].rehash)
  /\ Finish(r)
  /\ UNCHANGED <<verified, links>>

\* A linked Google identity signs in without a password.
GoogleSignIn(s) ==
  /\ verified
  /\ status[s] = "never"
  /\ status' = [status EXCEPT ![s] = "open"]
  /\ UNCHANGED <<account, links, req>>

\* revoke_family waits for the row as well.
SignOut(s) ==
  /\ status[s] = "open"
  /\ \A r \in Requests : s \notin req[r].ending
  /\ status' = [status EXCEPT ![s] = "ended"]
  /\ UNCHANGED <<account, links, req>>

-----------------------------------------------------------------------------
(***************************************************************************)
(* One-time links.                                                         *)
(***************************************************************************)

\* AuthTokenRepository.issue: an UPDATE spends the unused links its snapshot
\* shows, waiting for the requests that hold them; an INSERT adds the new one.
StartIssue(r, kind) ==
  /\ req[r] = Idle
  /\ kind = "email_verify" => ~verified
  /\ req' = [req EXCEPT ![r] =
               [Begin("issue", "commit") EXCEPT
                  !.kind = kind,
                  !.rows = {l \in Links : Kind[l] = kind /\ Unused(l)}]]
  /\ UNCHANGED <<account, links, status>>

\* Mutant of CommitIssue: links in use are spent without waiting for their rows.
CommitIssueNoWait(r, l) ==
  /\ req[r].op = "issue"
  /\ links[l] = "absent" /\ Kind[l] = req[r].kind
  /\ links' = [m \in Links |-> IF m = l THEN "usable"
                               ELSE IF m \in req[r].rows THEN "used"
                               ELSE links[m]]
  /\ Finish(r)
  /\ UNCHANGED <<account, status>>

CommitIssue(r, l) ==
  /\ req[r].op = "issue"
  /\ links[l] = "absent" /\ Kind[l] = req[r].kind
  /\ \A m \in req[r].rows : LinkFree(r, m)
  /\ links' = [m \in Links |-> IF m = l THEN "usable"
                               ELSE IF m \in req[r].rows THEN "used"
                               ELSE links[m]]
  /\ Finish(r)
  /\ UNCHANGED <<account, status>>

Expire(l) ==
  /\ links[l] = "usable"
  /\ links' = [links EXCEPT ![l] = "expired"]
  /\ UNCHANGED <<account, status, req>>

\* A link is followed: reset_password or verify_email.
StartLink(r, l, p) ==
  /\ req[r] = Idle
  /\ links[l] # "absent"
  /\ req' = [req EXCEPT ![r] =
       [Begin(IF Kind[l] = "email_verify" THEN "verify" ELSE "reset", "lock")
          EXCEPT !.link = l, !.pass = p]]
  /\ UNCHANGED <<account, links, status>>

\* Mutant of LockLink: get_usable without FOR UPDATE.
LockLinkUnlocked(r) ==
  /\ req[r].phase = "lock"
  /\ IF links[req[r].link] = "usable"
     THEN req' = [req EXCEPT ![r] = [req[r] EXCEPT !.phase = "hash"]]
     ELSE Finish(r)
  /\ UNCHANGED <<account, links, status>>

\* get_usable(for_update=True): waits for the row, then judges it.
LockLink(r) ==
  /\ req[r].phase = "lock"
  /\ LinkFree(r, req[r].link)
  /\ IF links[req[r].link] = "usable"
     THEN req' = [req EXCEPT ![r] = [req[r] EXCEPT !.phase = "hash"]]
     ELSE Finish(r)
  /\ UNCHANGED <<account, links, status>>

\* Confirming the address chooses a password, activates the account, signs in.
CommitVerify(r, s) ==
  /\ req[r].op = "verify" /\ req[r].phase = "hash"
  /\ status[s] = "never"
  /\ password' = req[r].pass
  /\ outdated' = FALSE
  /\ verified' = TRUE
  /\ links' = [links EXCEPT ![req[r].link] = "used"]
  /\ status' = [status EXCEPT ![s] = "open"]
  /\ Finish(r)

-----------------------------------------------------------------------------
(***************************************************************************)
(* Password events.                                                        *)
(***************************************************************************)

\* The signed-in user's row is read with the request's access token (deps.py);
\* the current password is checked against that row.
StartChange(r, s, current, p) ==
  /\ req[r] = Idle
  /\ status[s] = "open" /\ verified
  /\ password = current
  /\ req' = [req EXCEPT ![r] = [Begin("change", "hash") EXCEPT !.pass = p]]
  /\ UNCHANGED <<account, links, status>>

StartSet(r, s, p) ==
  /\ req[r] = Idle
  /\ status[s] = "open" /\ verified
  /\ password = NoPassword
  /\ req' = [req EXCEPT ![r] = [Begin("set", "hash") EXCEPT !.pass = p]]
  /\ UNCHANGED <<account, links, status>>

CommitSet(r) ==
  /\ req[r].op = "set"
  /\ password' = req[r].pass
  /\ outdated' = FALSE
  /\ Finish(r)
  /\ UNCHANGED <<verified, links, status>>

\* Mutant of LockScan: the UPDATE alone, without _lock_live before it.
LockScanLeftOut(r) ==
  /\ req[r].op \in {"reset", "change"} /\ req[r].phase = "hash"
  /\ req' = [req EXCEPT ![r] = [req[r] EXCEPT !.phase = "updating", !.todo = Open]]
  /\ UNCHANGED <<account, links, status>>

\* _lock_live: the snapshot of SELECT ... FOR UPDATE, the account's live rows.
LockScan(r) ==
  /\ req[r].op \in {"reset", "change"} /\ req[r].phase = "hash"
  /\ req' = [req EXCEPT ![r] = [req[r] EXCEPT !.phase = "locking", !.todo = Open]]
  /\ UNCHANGED <<account, links, status>>

\* The UPDATE of revoke_all_for_user: a snapshot of its own.
UpdateScan(r) ==
  /\ req[r].phase = "locking" /\ req[r].todo = {}
  /\ req' = [req EXCEPT ![r] = [req[r] EXCEPT !.phase = "updating", !.todo = Open]]
  /\ UNCHANGED <<account, links, status>>

\* Either statement takes the rows of its snapshot one by one, in any order: it
\* waits for the row and keeps it if it is still live.
VisitRow(r, s) ==
  /\ s \in req[r].todo
  /\ RowFree(r, s)
  /\ req' = [req EXCEPT ![r] = [req[r] EXCEPT
               !.todo = req[r].todo \ {s},
               !.ending = req[r].ending \union ({s} \intersect Open)]]
  /\ UNCHANGED <<account, links, status>>

\* What a rotation leaves of a statement that has not reached the row: the row in
\* its snapshot is no longer live, the successor is not in its snapshot.
Rotated(x, s) ==
  [x EXCEPT !.todo = x.todo \ {s},
            !.passed = IF x.phase = "locking" THEN x.passed \union {s} ELSE x.passed,
            !.missed = IF x.phase = "updating" /\ s \in x.passed
                       THEN x.missed \union {s} ELSE x.missed]

\* A refresh of the sign-in commits: the live row is replaced by its successor's.
Rotate(s) ==
  /\ status[s] = "open"
  /\ \A r \in Requests : s \notin req[r].ending
  /\ req' = [r \in Requests |-> Rotated(req[r], s)]
  /\ UNCHANGED <<account, links, status>>

\* The statements of the request have visited their rows.
Revoked(r) == req[r].phase = "updating" /\ req[r].todo = {}

Ended(r) == [s \in SignIns |-> IF s \in req[r].ending THEN "ended" ELSE status[s]]

CommitReset(r) ==
  /\ req[r].op = "reset" /\ Revoked(r)
  /\ password' = req[r].pass
  /\ outdated' = FALSE
  /\ links' = [links EXCEPT ![req[r].link] = "used"]
  /\ status' = Ended(r)
  /\ FinishEvent(r)
  /\ UNCHANGED verified

CommitChange(r, s) ==
  /\ req[r].op = "change" /\ Revoked(r)
  /\ status[s] = "never"
  /\ password' = req[r].pass
  /\ outdated' = FALSE
  /\ status' = [Ended(r) EXCEPT ![s] = "open"]
  /\ FinishEvent(r)
  /\ UNCHANGED <<verified, links>>

\* The connection or the worker is lost before COMMIT, or the request is the
\* victim of a deadlock.
Abort(r) ==
  /\ req[r] # Idle
  /\ Finish(r)
  /\ UNCHANGED <<account, links, status>>

Step(r) ==
  \/ LockLink(r)
  \/ LockScan(r) \/ UpdateScan(r)
  \/ CommitReset(r)
  \/ CommitSet(r)
  \/ \E s \in SignIns :
       VisitRow(r, s) \/ CommitLogin(r, s) \/ CommitVerify(r, s) \/ CommitChange(r, s)
  \/ \E l \in Links : CommitIssue(r, l)

Next ==
  \/ \E s \in SignIns : GoogleSignIn(s) \/ SignOut(s) \/ Rotate(s)
  \/ \E l \in Links : Expire(l)
  \/ \E r \in Requests :
       \/ \E p \in Passwords : StartLogin(r, p)
       \/ \E k \in Kinds : StartIssue(r, k)
       \/ \E l \in Links, p \in Passwords : StartLink(r, l, p)
       \/ \E s \in SignIns, p \in Passwords :
            \/ StartSet(r, s, p)
            \/ \E current \in Passwords : StartChange(r, s, current, p)
       \/ Step(r)
       \/ Abort(r)

Spec == Init /\ [][Next]_vars

-----------------------------------------------------------------------------
(***************************************************************************)
(* Properties                                                              *)
(***************************************************************************)

\* A one-time link succeeds once: of two requests that follow one link, the row
\* lock lets the second see that the first has used it; nor does a link work
\* that a later one had replaced when the request got to it.
SingleUse ==
  [][\A r \in Requests :
       /\ CommitReset(r) => Unused(req[r].link)
       /\ (\E s \in SignIns : CommitVerify(r, s)) => Unused(req[r].link)]_vars

\* A reset and a change end every sign-in that was open when the request
\* began, the caller's own included, whatever happened while it was hashing and
\* however its tokens rotate meanwhile: the locking statement is there because a
\* sign-in may rotate under the UPDATE.  One case is left, which the run
\* refresh_double_rotation shows in the code: a sign-in that rotates during each
\* of the two statements stays open.
EventsEndSignIns ==
  [][\A r \in Requests :
       CommitReset(r) \/ (\E s \in SignIns : CommitChange(r, s)) =>
         \A s \in req[r].seen : status'[s] = "ended" \/ s \in req[r].missed]_vars

\* Nobody is signed in to an account whose address was never confirmed, even
\* when a reset has given it a password meanwhile.
SignedInVerified == Open # {} => verified

\* The account's sign-ins move as SignIns promises, whatever requests are under way:
\* a request opens one at most, and what its two statements hold when it commits
\* is open until then.
Promised ==
  INSTANCE SignIns WITH Users <- {"account"}, Families <- SignIns,
                        Owner <- [s \in SignIns |-> "account"]
MovesAsPromised == Promised!Spec

(***************************************************************************)
(* The inductive invariant behind them.                                    *)
(***************************************************************************)

\* A link a request holds is still unused, and the request holds it alone.
HeldLinks ==
  \A r \in Requests :
    /\ req[r].op \in {"reset", "verify"} => req[r].link \in Links
    /\ \A l \in Held(r) : Unused(l) /\ LinkFree(r, l)

\* A live row a request holds stays live, and the request holds it alone.
HeldSignIns ==
  \A r \in Requests : \A s \in req[r].ending : status[s] = "open" /\ RowFree(r, s)

\* Where a sign-in that was seen and is still open can be while the two
\* statements run.
SeenSignIns ==
  \A r \in Requests : \A s \in req[r].seen :
    /\ status[s] # "never"
    /\ status[s] = "open" =>
         /\ req[r].phase = "locking" =>
              s \in req[r].todo \union req[r].ending \union req[r].passed
         /\ req[r].phase = "updating" =>
              /\ s \in req[r].ending \union req[r].passed
              /\ s \in req[r].todo \union req[r].ending \union req[r].missed

\* Whoever passed the check of the address is verified for good.
CheckedVerified ==
  \A r \in Requests : req[r].op \in {"login", "change", "set"} => verified

IInv ==
  /\ TypeOK
  /\ HeldLinks
  /\ HeldSignIns
  /\ SeenSignIns
  /\ CheckedVerified
  /\ SignedInVerified

(***************************************************************************)
(* What the documentation promises and the code does not keep.             *)
(***************************************************************************)

\* docs/auth.md: after a reset or a change "every other device has to sign in
\* with the new password"; no device signs in, or stays signed in by changing
\* the password itself, on what it proved before the event.
SignsInWithNewPassword ==
  [][\A r \in Requests, s \in SignIns :
       CommitLogin(r, s) \/ CommitChange(r, s) => ~req[r].overtaken]_vars

\* docs/auth.md: the same, of the password itself: a sign-in that hashes the
\* password it checked again does not bring back the one before the event.
KeepsNewPassword ==
  [][\A r \in Requests :
       (\E s \in SignIns : CommitLogin(r, s)) /\ req[r].overtaken =>
         password' = password]_vars
=============================================================================
