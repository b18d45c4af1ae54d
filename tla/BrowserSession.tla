---------------------------- MODULE BrowserSession ----------------------------
(***************************************************************************)
(* Tabs of one browser and the sign-in they share (shared/api/client.ts,   *)
(* features/auth/AuthProvider.tsx, features/auth/api.ts).                  *)
(*                                                                         *)
(* The refresh cookie belongs to the browser, the access token to a tab's  *)
(* memory.  Refreshes and sign-outs of all tabs queue for one Web Lock; a  *)
(* sign-in does not, and a tab handles answers and messages as they come.  *)
(* The server judges a cookie as RefreshSessions does.  An access token is *)
(* known by its sign-in and may expire at any time; that accessToken or    *)
(* sessionVersion has changed since is a mark on what is in flight.        *)
(*                                                                         *)
(* A sign-in by password is one step: the session is opened, its cookie    *)
(* set and the answer read.  Google and a change of password are left out. *)
(***************************************************************************)
EXTENDS Naturals, Sequences

CONSTANTS
  Tabs,
  SignIns,       \* refresh-token families the server may ever open
  None,          \* no sign-in
  NoCookie,
  Browser,       \* where ck-remember is kept across visits
  RememberMe,    \* what a user may choose
  MaxRotations   \* bound: rotations of one family

Cookies == SignIns \X (0..MaxRotations)

ASSUME NoneAssumption == None \notin SignIns /\ Browser \notin Tabs
ASSUME CookieAssumption == MaxRotations \in Nat /\ NoCookie \notin Cookies

VARIABLES
  status,      \* of each sign-in on the server: "never" | "open" | "ended"
  newest,      \* the number of its newest token
  inGrace,     \* sign-ins whose newest token is younger than the grace window
  cookie,      \* the browser's refresh cookie
  remembered,  \* ck-remember: tabs with it in sessionStorage, Browser in localStorage
  queue,       \* the lock ck-refresh: its holder, then those who wait
  page,        \* a tab's access token, the user it shows, signingOut
  refresh,     \* a tab's refresh in flight
  call,        \* a tab's API call in flight
  out,         \* a tab's sign-out in flight
  mail,        \* tabs a "signed-out" message is on its way to
  abandoned,   \* not code: sign-ins of which a refresh was given up unanswered
  closed       \* not code: which tab's sign-out ended which, and was answered

server == <<status, newest, inGrace>>
browser == <<cookie, remembered>>
ghosts == <<abandoned, closed>>
vars == <<server, browser, queue, page, refresh, call, out, mail, ghosts>>

Page == [token : SignIns \union {None}, user : SignIns \union {None},
         signingOut : BOOLEAN, link : BOOLEAN]
Refresh == [phase : {"none", "queued", "sent", "pause", "arrived"},
            cookie : Cookies \union {NoCookie}, retried : BOOLEAN,
            answer : {"none", "ok", "refused", "failed"}, ended : BOOLEAN]
Call == [phase : {"none", "refreshing", "sent", "again"}, restore : BOOLEAN,
         token : SignIns \union {None}, renewed : BOOLEAN, ended : BOOLEAN]
\* `left` is not code: the sign-in the tab had when its user signed out.
Out == [phase : {"none", "queued", "sent"}, cookie : Cookies \union {NoCookie},
        left : SignIns \union {None}]

Guest == [token |-> None, user |-> None, signingOut |-> FALSE,
          link |-> FALSE]
NoRefresh == [phase |-> "none", cookie |-> NoCookie, retried |-> FALSE,
              answer |-> "none", ended |-> FALSE]
Unusable == [NoRefresh EXCEPT !.phase = "arrived", !.answer = "failed"]
NoCall == [phase |-> "none", restore |-> FALSE, token |-> None,
           renewed |-> FALSE, ended |-> FALSE]
NoOut == [phase |-> "none", cookie |-> NoCookie, left |-> None]

TypeOK ==
  /\ status \in [SignIns -> {"never", "open", "ended"}]
  /\ newest \in [SignIns -> 0..MaxRotations]
  /\ inGrace \subseteq SignIns
  /\ cookie \in Cookies \union {NoCookie}
  /\ remembered \subseteq Tabs \union {Browser}
  /\ queue \in Seq(Tabs \X {"refresh", "logout"})
  /\ page \in [Tabs -> Page]
  /\ refresh \in [Tabs -> Refresh]
  /\ call \in [Tabs -> Call]
  /\ out \in [Tabs -> Out]
  /\ mail \subseteq Tabs
  /\ abandoned \subseteq SignIns
  /\ closed \subseteq Tabs \X SignIns

Init ==
  /\ status = [s \in SignIns |-> "never"]
  /\ newest = [s \in SignIns |-> 0]
  /\ inGrace = {}
  /\ cookie = NoCookie
  /\ remembered = {}
  /\ queue = << >>
  /\ page = [b \in Tabs |-> Guest]
  /\ refresh = [b \in Tabs |-> NoRefresh]
  /\ call = [b \in Tabs |-> NoCall]
  /\ out = [b \in Tabs |-> NoOut]
  /\ mail = {}
  /\ abandoned = {}
  /\ closed = {}

-----------------------------------------------------------------------------
(***************************************************************************)
(* The server                                                              *)
(***************************************************************************)

SignInOf(c) == IF c = NoCookie THEN {} ELSE {c[1]}

\* Nothing more is asked of a sign-in that has ended.
Ended(those) ==
  /\ status' = [s \in SignIns |-> IF s \in those THEN "ended" ELSE status[s]]
  /\ newest' = [s \in SignIns |-> IF s \in those THEN 0 ELSE newest[s]]
  /\ inGrace' = inGrace \ those

\* refresh_session of a live cookie: rotated, handed back or taken for stolen.
Judge(c, given) ==
  LET s == c[1] IN
  \/ /\ c[2] = newest[s]
     /\ c[2] < MaxRotations
     /\ given = <<s, c[2] + 1>>
     /\ newest' = [newest EXCEPT ![s] = c[2] + 1]
     /\ inGrace' = inGrace \union {s}
     /\ UNCHANGED status
  \/ /\ c[2] + 1 = newest[s]
     /\ s \in inGrace
     /\ given = <<s, newest[s]>>
     /\ UNCHANGED server
  \/ /\ c[2] < newest[s]
     /\ ~ (c[2] + 1 = newest[s] /\ s \in inGrace)
     /\ given = NoCookie
     /\ Ended({s})

\* A missing cookie, and one of a sign-in that has ended, are refused.
Present(c, given) ==
  IF \E s \in SignInOf(c) : status[s] = "open"
  THEN Judge(c, given)
  ELSE given = NoCookie /\ UNCHANGED server

\* logout
End(c) == Ended(SignInOf(c))

\* A password changed on another device, thirty days without a visit.
EndElsewhere(s) ==
  /\ status[s] = "open"
  /\ Ended({s})
  /\ UNCHANGED <<browser, queue, page, refresh, call, out,
                 mail, ghosts>>

\* Mutant of Elapse: the grace window is shorter than the pause of a retry.
ElapseSooner(s) ==
  /\ s \in inGrace \intersect SignInOf(cookie)
  /\ cookie[2] < newest[s]
  /\ inGrace' = inGrace \ {s}
  /\ UNCHANGED <<status, newest, browser, queue, page, refresh, call, out,
                 mail, ghosts>>

\* The 30 seconds after a rotation are over, of which a token left behind in the
\* browser makes a difference; a refresh that failed is repeated within them.
Elapse(s) ==
  /\ s \in inGrace \intersect SignInOf(cookie)
  /\ cookie[2] < newest[s]
  /\ \A b \in Tabs : refresh[b].phase \in {"sent", "pause"} =>
                       s \notin SignInOf(refresh[b].cookie)
  /\ inGrace' = inGrace \ {s}
  /\ UNCHANGED <<status, newest, browser, queue, page, refresh, call, out,
                 mail, ghosts>>

-----------------------------------------------------------------------------
(***************************************************************************)
(* requestRefresh and tryRefresh                                           *)
(***************************************************************************)

\* What becomes of a tab's call and refresh when sessionVersion moves on, and of
\* its call when accessToken does.
CallEnded(b) ==
  IF ~ call[b].restore THEN NoCall
  ELSE IF call[b].phase = "refreshing" THEN call[b]
  ELSE [call[b] EXCEPT !.ended = TRUE, !.token = None, !.phase = "again"]
CallRenewed(b) ==
  IF call[b].phase = "sent" THEN [call[b] EXCEPT !.renewed = TRUE] ELSE call[b]
RefreshEnded(b) ==
  CASE refresh[b].phase = "none" -> NoRefresh
    [] refresh[b].phase = "arrived" -> Unusable
    [] OTHER -> [refresh[b] EXCEPT !.ended = TRUE]

\* Mutant of Arrived: sessionVersion is not compared.
ArrivedWhatever(b, answer, given) ==
  IF answer = "failed" THEN Unusable
  ELSE [NoRefresh EXCEPT !.phase = "arrived", !.cookie = given, !.answer = answer]

\* An answer to a session that has ended is of no use.
Arrived(b, answer, given) ==
  IF refresh[b].ended \/ answer = "failed" THEN Unusable
  ELSE [NoRefresh EXCEPT !.phase = "arrived", !.cookie = given, !.answer = answer]

\* setAccessToken(null), and the listener of AuthProvider for a user shown.
Dropped(p) ==
  IF p.user = None \/ p.signingOut THEN [p EXCEPT !.token = None] ELSE Guest

\* Mutant of JoinRefresh: every call that needs a token asks for one.
JoinRefreshAnew(b) ==
  /\ refresh' = [refresh EXCEPT ![b] = [NoRefresh EXCEPT !.phase = "queued"]]
  /\ queue' = Append(queue, <<b, "refresh">>)

\* One refresh of a tab at a time, whoever asks.
JoinRefresh(b) ==
  IF refresh[b].phase = "none"
  THEN /\ refresh' = [refresh EXCEPT ![b] = [NoRefresh EXCEPT !.phase = "queued"]]
       /\ queue' = Append(queue, <<b, "refresh">>)
  ELSE UNCHANGED <<refresh, queue>>

\* Whose turn it is with the lock.
Turn(b, what) == queue # << >> /\ Head(queue) = <<b, what>>

\* The browser adds the cookie it has when the request leaves.
SendRefresh(b) ==
  /\ Turn(b, "refresh")
  /\ refresh[b].phase \in {"queued", "pause"}
  /\ refresh' = [refresh EXCEPT ![b] =
       [refresh[b] EXCEPT !.phase = "sent", !.cookie = cookie,
                          !.retried = refresh[b].phase = "pause"]]
  /\ UNCHANGED <<server, browser, queue, page, call, out, mail, ghosts>>

\* The cookie is set, or deleted by the 401 to one sent, before the page sees
\* the answer; then the lock is free, even if the body cannot be read.
AnswerRefresh(b) ==
  /\ refresh[b].phase = "sent"
  /\ \E given \in Cookies \union {NoCookie} :
       /\ Present(refresh[b].cookie, given)
       /\ cookie' = IF refresh[b].cookie = NoCookie THEN cookie ELSE given
       /\ \E answer \in IF given = NoCookie THEN {"refused"} ELSE {"ok", "failed"} :
            refresh' = [refresh EXCEPT ![b] = Arrived(b, answer, given)]
  /\ queue' = Tail(queue)
  /\ UNCHANGED <<remembered, page, call, out, mail, ghosts>>

\* 429: no reason to try again, nor to sign out.
LimitRefresh(b) ==
  /\ refresh[b].phase = "sent"
  /\ refresh[b].cookie # NoCookie
  /\ refresh' = [refresh EXCEPT ![b] = Arrived(b, "failed", NoCookie)]
  /\ queue' = Tail(queue)
  /\ abandoned' = IF refresh[b].retried
                  THEN abandoned \union SignInOf(refresh[b].cookie) ELSE abandoned
  /\ UNCHANGED <<server, browser, page, call, out, mail, closed>>

\* What the server has done of a refresh whose answer nobody hears.
Unheard(c) ==
  UNCHANGED server \/ \E given \in Cookies \union {NoCookie} : Present(c, given)

\* A network error, a deadline passed or a 5xx: once again, or given up.
FailRefresh(b) ==
  /\ refresh[b].phase = "sent"
  /\ Unheard(refresh[b].cookie)
  /\ IF refresh[b].retried
     THEN /\ refresh' = [refresh EXCEPT ![b] =
               Arrived(b, "failed", NoCookie)]
          /\ queue' = Tail(queue)
          /\ abandoned' = abandoned \union SignInOf(refresh[b].cookie)
     ELSE /\ refresh' = [refresh EXCEPT ![b] = [refresh[b] EXCEPT !.phase = "pause"]]
          /\ UNCHANGED <<queue, abandoned>>
  /\ UNCHANGED <<browser, page, call, out, mail, closed>>

\* A restore that has its first token asks for the profile, authApi.me().
AsksForProfile(b) == call[b].restore /\ call[b].token # None

\* The answer is read: a session that has ended since does not come back, and
\* a failure that is no refusal leaves everything as it is, but for a restore:
\* with its profile it fails and drops the token.  The call that waits goes on:
\* one that restores asks for the profile, others repeat.
Settle(b) ==
  LET token == refresh[b].cookie[1]
      taken == refresh[b].answer = "ok"
      refused == refresh[b].answer = "refused"
      unrestored == call[b].phase = "refreshing" /\ AsksForProfile(b)
  IN
  /\ refresh[b].phase = "arrived"
  /\ refresh' = [refresh EXCEPT ![b] = NoRefresh]
  /\ page' = [page EXCEPT ![b] =
       IF taken THEN [page[b] EXCEPT !.token = token]
       ELSE IF refused \/ unrestored THEN Dropped(page[b]) ELSE page[b]]
  /\ call' = [call EXCEPT ![b] =
       IF call[b].phase = "refreshing"
       THEN IF taken
            THEN [call[b] EXCEPT !.phase = IF call[b].restore THEN "sent" ELSE "again",
                                 !.token = token]
            ELSE NoCall
       ELSE IF taken THEN CallRenewed(b)
       ELSE IF refused THEN CallEnded(b) ELSE call[b]]
  /\ UNCHANGED <<server, browser, queue, out, mail, ghosts>>

-----------------------------------------------------------------------------
(***************************************************************************)
(* api                                                                     *)
(***************************************************************************)
\* A request with an access token.
StartCall(b) ==
  /\ page[b].token # None
  /\ call[b] = NoCall
  /\ call' = [call EXCEPT ![b] =
       [NoCall EXCEPT !.phase = "sent"]]
  /\ UNCHANGED <<server, browser, queue, page, refresh, out, mail, ghosts>>

\* An answer that needs no new token, an error, or an answer come too late: the
\* call is over, and a restore that has failed drops its token.
EndCall(b) ==
  /\ call[b].phase \in {"sent", "again"}
  /\ call' = [call EXCEPT ![b] = NoCall]
  /\ IF call[b].restore
     THEN /\ page' = [page EXCEPT ![b] = Dropped(page[b])]
          /\ refresh' = [refresh EXCEPT ![b] = RefreshEnded(b)]
     ELSE UNCHANGED <<page, refresh>>
  /\ UNCHANGED <<server, browser, queue, out, mail, ghosts>>

\* The profile a restore asked for.
Restored(b) ==
  /\ call[b].phase \in {"sent", "again"}
  /\ call[b].restore
  /\ ~ call[b].ended
  /\ status[call[b].token] = "open"
  /\ page' = [page EXCEPT ![b].user = call[b].token]
  /\ call' = [call EXCEPT ![b] = NoCall]
  /\ UNCHANGED <<server, browser, queue, refresh, out, mail, ghosts>>

\* 401 to the first attempt: with the token renewed since, or after a refresh,
\* there is a second.
Unauthorised(b) ==
  /\ call[b].phase = "sent"
  /\ ~ call[b].ended
  /\ IF call[b].renewed
     THEN /\ call' = [call EXCEPT ![b] = [call[b] EXCEPT !.phase = "again",
                                                         !.token = page[b].token]]
          /\ UNCHANGED <<refresh, queue>>
     ELSE /\ call' = [call EXCEPT ![b] = [call[b] EXCEPT !.phase = "refreshing"]]
          /\ JoinRefresh(b)
  /\ UNCHANGED <<server, browser, page, out, mail, ghosts>>

\* 401 to the second: the session is over.
UnauthorisedAgain(b) ==
  /\ call[b].phase = "again"
  /\ ~ call[b].ended
  /\ status[call[b].token] # "open"
  /\ page' = [page EXCEPT ![b] = Dropped(page[b])]
  /\ refresh' = [refresh EXCEPT ![b] = RefreshEnded(b)]
  /\ call' = [call EXCEPT ![b] = NoCall]
  /\ UNCHANGED <<server, browser, queue, out, mail, ghosts>>

-----------------------------------------------------------------------------
(***************************************************************************)
(* AuthProvider                                                            *)
(***************************************************************************)

\* login or verifyEmail, and acceptSession.  A guest signs in once nothing is
\* being restored; the page of a verification link waits for neither.
SignIn(b, s, remember) ==
  /\ status[s] = "never"
  /\ page[b].link \/ (page[b].user = None /\ ~ call[b].restore)
  /\ status' = [status EXCEPT ![s] = "open"]
  /\ cookie' = <<s, 0>>
  /\ remembered' = (remembered \ {Browser}) \union {b}
                     \union (IF remember THEN {Browser} ELSE {})
  /\ page' = [page EXCEPT ![b] = [page[b] EXCEPT !.token = s, !.user = s, !.link = FALSE]]
  /\ call' = [call EXCEPT ![b] = CallRenewed(b)]
  /\ UNCHANGED <<newest, inGrace, queue, refresh, out, mail, ghosts>>

\* closeLocalSession
Close(b, signingOut) ==
  /\ page' = [page EXCEPT ![b] = [Guest EXCEPT !.signingOut = signingOut]]
  /\ remembered' = remembered \ {b, Browser}
  /\ refresh' = [refresh EXCEPT ![b] = RefreshEnded(b)]
  /\ call' = [call EXCEPT ![b] = CallEnded(b)]

\* AppLayout has the button: not on the page of a link, not before it is ready.
\* The message is posted on a channel of its own, so the tab's listener has it too.
SignOut(b) ==
  /\ page[b].user # None
  /\ ~ page[b].link
  /\ ~ call[b].restore
  /\ out[b] = NoOut
  /\ Close(b, TRUE)
  /\ mail' = Tabs
  /\ out' = [out EXCEPT ![b] = [NoOut EXCEPT !.phase = "queued",
                                              !.left = page[b].token]]
  /\ queue' = Append(queue, <<b, "logout">>)
  /\ UNCHANGED <<server, cookie, abandoned, closed>>

\* The logout request leaves once the lock is had, with the cookie of then.
SendLogout(b) ==
  /\ Turn(b, "logout")
  /\ out[b].phase = "queued"
  /\ out' = [out EXCEPT ![b] = [out[b] EXCEPT !.phase = "sent",
                                              !.cookie = cookie]]
  /\ UNCHANGED <<server, browser, queue, page, refresh, call, mail, ghosts>>

\* However the request ends, the lock is free and signingOut reset.
SignedOut(b) ==
  /\ out[b].phase = "sent"
  /\ out' = [out EXCEPT ![b] = NoOut]
  /\ page' = [page EXCEPT ![b].signingOut = FALSE]
  /\ queue' = Tail(queue)

AnswerLogout(b) ==
  /\ SignedOut(b)
  /\ End(out[b].cookie)
  /\ cookie' = NoCookie
  /\ closed' = closed \union
       ({b} \X (SignInOf(out[b].cookie) \intersect {out[b].left}))
  /\ UNCHANGED <<remembered, refresh, call, mail, abandoned>>

FailLogout(b) ==
  /\ SignedOut(b)
  /\ UNCHANGED server \/ End(out[b].cookie)
  /\ UNCHANGED <<browser, refresh, call, mail, ghosts>>

\* Mutant of Receive: signingOut stays set.
ReceiveStillSigningOut(b) ==
  /\ b \in mail
  /\ mail' = mail \ {b}
  /\ IF page[b].user # None
     THEN Close(b, TRUE)
     ELSE UNCHANGED <<remembered, page, refresh, call>>
  /\ UNCHANGED <<server, cookie, queue, out, abandoned, closed>>

\* The message of a sign-out, another tab's or its own: only a tab that shows a
\* user heeds it.
Receive(b) ==
  /\ b \in mail
  /\ mail' = mail \ {b}
  /\ IF page[b].user # None
     THEN Close(b, FALSE)
     ELSE UNCHANGED <<remembered, page, refresh, call>>
  /\ UNCHANGED <<server, cookie, queue, out, abandoned, closed>>

\* What a closed page asked of the lock is dropped; it asks for each thing once.
Without(q, x) ==
  IF \A i \in DOMAIN q : q[i] # x THEN q
  ELSE LET at == CHOOSE i \in DOMAIN q : q[i] = x
       IN [i \in 1..(Len(q) - 1) |-> q[IF i < at THEN i ELSE i + 1]]

\* A page is loaded in the tab, or the tab closed and another opened: what was
\* in flight is given up, the lock released, and a remembered session restored.
Open(b, reload, link) ==
  LET flags == IF reload THEN remembered ELSE remembered \ {b}
      restores == flags \intersect {b, Browser} # {}
      others == Without(Without(queue, <<b, "refresh">>), <<b, "logout">>)
  IN
  /\ link => \E s \in SignIns : status[s] = "never"
  /\ CASE refresh[b].phase = "sent" -> Unheard(refresh[b].cookie)
       [] out[b].phase = "sent" -> UNCHANGED server \/ End(out[b].cookie)
       [] OTHER -> UNCHANGED server
  /\ abandoned' = abandoned \union
       (IF refresh[b].phase \in {"sent", "pause"} THEN SignInOf(refresh[b].cookie)
        ELSE {})
  /\ page' = [page EXCEPT ![b] = [Guest EXCEPT !.link = link]]
  /\ out' = [out EXCEPT ![b] = NoOut]
  /\ mail' = mail \ {b}
  /\ remembered' = flags
  /\ call' = [call EXCEPT ![b] =
       IF restores THEN [NoCall EXCEPT !.phase = "refreshing", !.restore = TRUE]
       ELSE NoCall]
  /\ refresh' = [refresh EXCEPT ![b] =
       IF restores THEN [NoRefresh EXCEPT !.phase = "queued"] ELSE NoRefresh]
  /\ queue' = IF restores THEN Append(others, <<b, "refresh">>) ELSE others
  /\ UNCHANGED <<cookie, closed>>

-----------------------------------------------------------------------------
\* What goes on without the user.
Step(b) ==
  \/ SendRefresh(b)
  \/ AnswerRefresh(b)
  \/ LimitRefresh(b)
  \/ FailRefresh(b)
  \/ Settle(b)
  \/ EndCall(b)
  \/ Restored(b)
  \/ Unauthorised(b)
  \/ UnauthorisedAgain(b)
  \/ SendLogout(b)
  \/ AnswerLogout(b)
  \/ FailLogout(b)

Next ==
  \/ \E s \in SignIns : EndElsewhere(s) \/ Elapse(s)
  \/ \E b \in Tabs :
       \/ Step(b)
       \/ StartCall(b)
       \/ \E s \in SignIns, remember \in RememberMe : SignIn(b, s, remember)
       \/ SignOut(b)
       \/ Receive(b)
       \/ \E reload, link \in BOOLEAN : Open(b, reload, link)

Spec == Init /\ [][Next]_vars

-----------------------------------------------------------------------------
(***************************************************************************)
(* Properties                                                              *)
(***************************************************************************)
\* The lock and what the tabs believe of it agree: who waits or works stands in
\* the queue once, and only its head has a request on its way.  So a tab closed,
\* reloaded or signed out at any point neither keeps the lock nor loses it.
LockHeld ==
  LET Waits(b, what) ==
        IF what = "refresh" THEN refresh[b].phase \in {"queued", "sent", "pause"}
        ELSE out[b].phase # "none"
      Works(b, what) ==
        IF what = "refresh" THEN refresh[b].phase \in {"sent", "pause"}
        ELSE out[b].phase = "sent"
  IN \A b \in Tabs, what \in {"refresh", "logout"} :
       LET places == {i \in DOMAIN queue : queue[i] = <<b, what>>} IN
       /\ Waits(b, what) <=> places # {}
       /\ Works(b, what) => 1 \in places
       /\ \A i, j \in places : i = j

\* A call waits for a token only where its tab is getting one.
CallsWait ==
  \A b \in Tabs : call[b].phase = "refreshing" => refresh[b].phase # "none"

\* What has been handed out is of a sign-in the server has opened, and a refresh
\* that brought a token brought its cookie.
HandedOut ==
  /\ \A s \in SignIns : status[s] = "never" => newest[s] = 0
  /\ \A s \in SignInOf(cookie) : status[s] # "never"
  /\ \A b \in Tabs :
       /\ \A s \in SignInOf(refresh[b].cookie) \union SignInOf(out[b].cookie) :
            status[s] # "never"
       /\ \A t \in {page[b].token, out[b].left} \ {None} : status[t] # "never"
       /\ refresh[b].phase = "arrived" /\ refresh[b].answer = "ok"
            => refresh[b].cookie # NoCookie

\* A tab whose sign-out is under way gets no token by what it asked for before:
\* its old refresh is of no use, and a new one waits behind the logout.
LeavesForGood ==
  \A b \in Tabs : out[b].phase # "none" =>
    /\ ~ page[b].link /\ ~ call[b].restore
    /\ call[b].phase # "again" /\ ~ call[b].renewed
    /\ page[b].token # None => page[b].token # out[b].left
    /\ page[b].user = None => page[b].token = None /\ call[b].phase = "none"
    /\ \/ refresh[b].phase = "none"
       \/ refresh[b].phase = "arrived" /\ refresh[b].answer = "failed"
       \/ refresh[b].phase \in {"queued", "sent", "pause"} /\ refresh[b].ended
       \/ /\ refresh[b].phase = "queued"
          /\ \A i, j \in DOMAIN queue :
               queue[i] = <<b, "logout">> /\ queue[j] = <<b, "refresh">> => i < j

\* signingOut is set for as long as there is something to reset it, and a session
\* being restored has its token until its call is told otherwise.
RestoresWithToken ==
  \A b \in Tabs :
    /\ page[b].signingOut => out[b].phase # "none"
    /\ call[b].restore /\ call[b].phase \in {"sent", "again"} /\ ~ call[b].ended
         => page[b].token # None /\ call[b].token # None

\* A sign-in that a tab has left is over, and nothing on its way brings it back.
ClosedIsOver ==
  \A x \in closed :
    /\ status[x[2]] = "ended"
    /\ ~ (refresh[x[1]].phase = "arrived" /\ refresh[x[1]].answer = "ok"
            /\ x[2] \in SignInOf(refresh[x[1]].cookie))

\* The cookie of an open sign-in is the newest, or one older while the refresh
\* that has made it so is being repeated within the grace window, unless a
\* refresh was given up.
KeepsUp ==
  /\ \A s \in SignInOf(cookie) \ abandoned : status[s] = "open" =>
       \/ cookie[2] = newest[s]
       \/ \E b \in Tabs : refresh[b].phase \in {"sent", "pause"} /\ refresh[b].cookie = cookie
  /\ \A b \in Tabs : refresh[b].phase \in {"sent", "pause"} =>
       \A s \in SignInOf(refresh[b].cookie) \ abandoned : status[s] = "open" =>
         \/ refresh[b].cookie[2] = newest[s]
         \/ /\ refresh[b].cookie[2] + 1 = newest[s] /\ s \in inGrace
            /\ refresh[b].phase = "pause" \/ refresh[b].retried

\* Every tab is where the code allows it to be, whatever was interrupted
\* (withRefreshLock, tryRefresh, signOut, startSession).
IInv ==
  /\ TypeOK /\ LockHeld /\ CallsWait
  /\ HandedOut /\ LeavesForGood /\ RestoresWithToken /\ ClosedIsOver /\ KeepsUp

\* "Late refresh responses and private responses from an ended session never
\* restore it" (docs/auth.md): once the server has ended the sign-in a tab left,
\* that tab does not get its token back, nor the browser its cookie, whatever
\* refreshes, restores and reloads of whichever tab were under way.
SignOutStands ==
  /\ \A b \in Tabs : <<b, page[b].token>> \notin closed
  /\ SignInOf(cookie) \intersect {x[2] : x \in closed} = {}

\* A tab never shows a user with no access token behind it: the listener that
\* would clear the screen keeps quiet during a sign-out, and no token is lost
\* after a new sign-in while it does.
ShownHasToken == \A b \in Tabs : page[b].user # None => page[b].token # None

\* The lock and the retry keep the server from taking a tab of the browser for a
\* thief: a refresh ends a live sign-in only when an earlier one of that sign-in
\* was given up with its answer unheard.
AlarmsOnlyAbandoned ==
  [][\A s \in SignIns :
       /\ status[s] = "open" /\ status'[s] = "ended"
       /\ \E b \in Tabs : refresh[b].phase = "sent" /\ refresh'[b].phase # "sent"
       => s \in abandoned]_vars

\* What the tabs do reaches the server as what SignIns promises: a step opens or
\* ends one sign-in and no other, whichever tab, cookie or lost answer it is about,
\* and a retry neither opens it again nor lets it blink.
Promised ==
  INSTANCE SignIns WITH Users <- SignIns, Families <- SignIns,
                        Owner <- [s \in SignIns |-> s]
MovesAsPromised == Promised!Spec

(***************************************************************************)
(* What the documentation promises and the code does not keep.             *)
(***************************************************************************)

\* docs/auth.md: "A voluntary sign-out is broadcast [...]; the viewer's other
\* tabs close their session too."  Once the message has arrived and the logout
\* is answered, no other tab shows the user of that sign-in.
ClosedEverywhere ==
  \A b \in Tabs \ mail : \A c \in Tabs : <<c, page[b].user>> \notin closed
=============================================================================
