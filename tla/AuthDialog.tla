------------------------------ MODULE AuthDialog ------------------------------
(***************************************************************************)
(* Signing in, out and in again in one tab: the auth dialog, the pages it  *)
(* opens over, the place it returns to and the drafts of the forms         *)
(* (features/auth of the web application).                                 *)
(*                                                                         *)
(* The router renders a change of place in a transition: history changes   *)
(* at once (entry), the page (shown) at a later Commit, and whatever       *)
(* the visitor or an answer does in between comes first.  A change of the  *)
(* session is rendered at once (Render).  Effects run with what is shown,  *)
(* children before AuthDialogProvider and its own in the order written.    *)
(*                                                                         *)
(* Left out: the text of forms and errors, the countdown of a second mail, *)
(* and the returnState of a request, which is null for a private page and  *)
(* is not used for a public one.                                           *)
(***************************************************************************)
EXTENDS Naturals, FiniteSets

CONSTANTS
  None,
  Addresses,    \* what a visitor follows a link to
  MaxFlights    \* bound: requests in flight at once

Private == {"add", "settings"}
Forms == {"add", "money"}
Pages == {"root", "collection", "coins"} \union Private \union Forms
Requesting == {"login", "forgot-password"}
Compact == {"verify", "google"}
Paths == Pages \union Requesting \union Compact
Modes == {"login", "register", "forgot-password", "check-email"}

ASSUME AddressAssumption == Addresses \subseteq Pages \union Requesting
ASSUME BoundAssumption == MaxFlights \in Nat \ {0}

VARIABLES
  entry,       \* the current entry of the tab's history
  shown,       \* the entry on show
  moving,      \* a change of place is being rendered
  stale,       \* a change of the session is to be rendered
  dialog,      \* the auth dialog
  flights,     \* requests in flight and the Google window
  verified,    \* the page of a mailed link has signed the visitor in
  session,     \* user, ready and sessionEnd of AuthProvider
  saved,       \* ck-auth-return
  drafts,      \* the drafts in this tab's memory
  form,        \* the add or edit form on show
  left         \* history: the form an expiry took from a visitor who stays at it

place == <<entry, shown, moving>>
account == <<session, stale, drafts>>
vars == <<place, dialog, flights, verified, account, saved, form, left>>

\* The text of a form; "former" was typed before the last sign-out or change
\* of account.
Texts == {"blank", "own", "former"}
Request == [mode : Modes, from : Paths]
Handled == {"none", "expired", "signed-out"}
Entry == [path : Paths, handled : Handled, request : Request \union {None}]
Dialog == [mode : Modes, from : Pages, keep : BOOLEAN]
\* `from` is what a registration returns to; `live` while the dialog is the one
\* that asked.
Flight == [kind : {"login", "register", "forgot", "window", "google", "verify",
                   "here"},
           from : Pages \union {None}, live : BOOLEAN]
Form == [page : Forms, text : Texts]

ASSUME NoneAssumption ==
  None \notin Paths \union Texts \union Request \union Dialog \union Form

Plain(p) == [path |-> p, handled |-> "none", request |-> None]
Drafts == [of : [Forms -> Texts \union {None}], recoverable : SUBSET Forms,
           owned : BOOLEAN, retaining : BOOLEAN]
NoDrafts == [of |-> [p \in Forms |-> None], recoverable |-> {}, owned |-> FALSE,
             retaining |-> FALSE]

TypeOK ==
  /\ entry \in Entry /\ shown \in Entry
  /\ moving \in BOOLEAN /\ stale \in BOOLEAN /\ verified \in BOOLEAN
  /\ dialog \in Dialog \union {None}
  /\ flights \subseteq Flight /\ Cardinality(flights) <= MaxFlights
  /\ session \in [user : BOOLEAN, ready : BOOLEAN, end : Handled]
  /\ saved \in Pages \union {None}
  /\ drafts \in Drafts
  /\ form \in Form \union {None}
  /\ left \in Form \union {None}

\* A document that has just been loaded.
Fresh ==
  /\ moving' = TRUE
  /\ stale' = FALSE
  /\ dialog' = None
  /\ verified' = FALSE
  /\ session' = [user |-> FALSE, ready |-> FALSE, end |-> "none"]
  /\ drafts' = NoDrafts
  /\ form' = None
  /\ left' = None

Init ==
  /\ \E p \in Addresses : entry = Plain(p)
  /\ shown = entry
  /\ moving = TRUE
  /\ stale = FALSE
  /\ dialog = None
  /\ flights = {}
  /\ verified = FALSE
  /\ session = [user |-> FALSE, ready |-> FALSE, end |-> "none"]
  /\ saved = None
  /\ drafts = NoDrafts
  /\ form = None
  /\ left = None

-----------------------------------------------------------------------------
(***************************************************************************)
(* Drafts                                                                  *)
(***************************************************************************)

Aged(text) == IF text = "own" THEN "former" ELSE text

\* Mutant of SetOwner: another account finds what is kept.
SetOwnerKeepsDrafts(d, change) ==
  [d EXCEPT !.owned = (change # "none"), !.retaining = FALSE,
            !.of = IF change = "same" THEN @
                   ELSE [p \in Forms |-> IF @[p] = None THEN None ELSE Aged(@[p])]]

\* The owner the drafts have, another one, or none.
SetOwner(d, change) ==
  IF change = "same" THEN [d EXCEPT !.retaining = FALSE]
  ELSE [NoDrafts EXCEPT !.owned = (change = "other")]

\* Mutant of Retain: a form that goes away takes its draft along.
RetainNothing(d) ==
  [d EXCEPT !.recoverable = {p \in Forms : d.of[p] # None}]

Retain(d) ==
  [d EXCEPT !.retaining = TRUE,
            !.recoverable = @ \union {p \in Forms : d.of[p] # None}]

Recovered(d, p) == IF p \in d.recoverable THEN d.of[p] ELSE "blank"

Write(d, p, text) ==
  [d EXCEPT !.of[p] = IF ~ d.owned THEN @
                           ELSE IF text = "blank" THEN None ELSE text,
            !.recoverable = @ \ {p}]

Release(d, p) ==
  IF d.retaining THEN d
  ELSE [d EXCEPT !.of[p] = None, !.recoverable = @ \ {p}]

-----------------------------------------------------------------------------
(***************************************************************************)
(* Rendering and its effects                                               *)
(***************************************************************************)

GuestDestination(p) ==
  CASE p = "add" -> "coins" [] p \notin Pages \ {"settings"} -> "root" [] OTHER -> p

Asking(p, mode, from) ==
  [Plain(p) EXCEPT !.request = [mode |-> mode, from |-> from]]

\* The place a request without one leads back to: AuthEntry.
Home == IF saved = None THEN "collection" ELSE saved

\* RootRoute, ProtectedRoute and AuthEntry: where the page on show sends to.
Redirects(p, s, opened) ==
  IF ~ s.ready THEN {} ELSE
  CASE p = "root" /\ s.user /\ opened -> {Plain("collection")}
    [] p \in Private /\ ~ s.user /\ s.end = "none" ->
         {Asking(GuestDestination(p), "login", p)}
    [] p = "login" /\ s.user -> {Plain(Home)}
    [] p = "login" /\ ~ s.user ->
         {Asking(GuestDestination(Home), "login", Home)}
    [] p = "forgot-password" ->
         {Asking(GuestDestination(Home), "forgot-password", Home)}
    [] OTHER -> {}

\* What effects do to the current entry, the dialog and sessionEnd; `touched`
\* when the dialog is not the one it was, `moved` when they navigated.
Unaffected == [entry |-> entry, dialog |-> dialog, end |-> session.end,
               touched |-> FALSE, moved |-> FALSE]

Replaced(w, e) == [w EXCEPT !.entry = e, !.moved = TRUE]

RedirectEffect(w, e, opened) ==
  IF Redirects(e.path, session, opened) = {} THEN w
  ELSE Replaced(w, CHOOSE r \in Redirects(e.path, session, opened) : TRUE)

PathEffect(w) == [w EXCEPT !.dialog = None, !.touched = TRUE]

\* open: the addresses of the auth pages are nowhere to return to.
Requested(e) ==
  [mode |-> e.request.mode, keep |-> FALSE,
   from |-> IF e.request.from \in Pages THEN e.request.from
            ELSE IF e.path \in Pages THEN e.path ELSE "collection"]

\* Mutant of RequestEffect: the request stays in the history state.
RequestEffectKeepsRequest(w, e) ==
  IF e.request = None THEN w
  ELSE [w EXCEPT !.dialog = Requested(e), !.touched = TRUE]

RequestEffect(w, e) ==
  IF e.request = None THEN w
  ELSE [Replaced(w, [e EXCEPT !.request = None]) EXCEPT
          !.dialog = Requested(e),
          !.touched = TRUE]

EndEffect(w, e) ==
  IF w.end = "none" THEN w
  ELSE IF e.handled = w.end
       THEN [(IF e.request = None THEN Replaced(w, Plain(e.path)) ELSE w)
               EXCEPT !.end = "none"]
  ELSE LET to == GuestDestination(e.path) IN
       [Replaced(w, [(IF w.end = "expired"
                      THEN Asking(to, "login", e.path)
                      ELSE Plain(to)) EXCEPT !.handled = w.end])
          EXCEPT !.dialog = None, !.touched = TRUE]

\* Answers find another dialog than they were asked from; a Google window
\* whose button is gone is no longer listened to.
Detached(fs) ==
  {IF f.kind \in {"verify", "here"} THEN f ELSE [f EXCEPT !.live = FALSE] :
     f \in {g \in fs : g.kind # "window"}}

\* The dialog changes, with the answer f if one changed it.
SetDialog(d, f) == dialog' = d /\ flights' = Detached(flights \ {f})

Landed(f) == flights' = flights \ {f} /\ UNCHANGED dialog

\* The form of the page on show, for its user.
FormPage(e) ==
  IF session.ready /\ session.user /\ e.path \in Forms THEN e.path ELSE None

\* The forms that go away release their drafts, the one that comes reads its.
Mounted(e) ==
  LET before == IF form = None THEN None ELSE form.page
      kept == IF before = None THEN drafts ELSE Release(drafts, before)
      page == FormPage(e)
      text == Recovered(kept, page) IN
  IF page = before THEN UNCHANGED <<form, drafts>>
  ELSE IF page = None THEN form' = None /\ drafts' = kept
  ELSE /\ form' = [page |-> page, text |-> text]
       /\ drafts' = Write(kept, page, text)

Affected(w) ==
  /\ entry' = w.entry
  /\ dialog' = w.dialog
  /\ flights' = IF w.touched /\ dialog # None THEN Detached(flights) ELSE flights
  /\ session' = [session EXCEPT !.end = w.end]
  /\ stale' = (w.end # session.end)
  /\ UNCHANGED <<verified, saved, left>>

\* A change of user, ready or sessionEnd is rendered.
Render ==
  /\ stale
  /\ LET w == EndEffect(RedirectEffect(Unaffected, shown, TRUE), shown) IN
     /\ Affected(w)
     /\ moving' = (moving \/ w.moved)
  /\ Mounted(shown)
  /\ UNCHANGED shown

\* The new place is rendered.
Commit ==
  /\ moving /\ ~ stale
  /\ shown' = entry
  /\ LET e == entry
         opened == e.path # shown.path
         w1 == RedirectEffect(Unaffected, e, opened)
         w2 == IF opened THEN PathEffect(w1) ELSE w1
         w == EndEffect(RequestEffect(w2, e), e) IN
     /\ Affected(w)
     /\ moving' = w.moved
  /\ Mounted(entry)

-----------------------------------------------------------------------------
(***************************************************************************)
(* The session                                                             *)
(***************************************************************************)

\* What a sign-in says of the account the drafts belong to.
Accounts == {"same", "other"}
Owning(who) ==
  /\ who = "same" => drafts.owned
  /\ drafts' = SetOwner(drafts, who)
  /\ form' = IF form = None \/ who = "same" THEN form
             ELSE [form EXCEPT !.text = Aged(@)]

\* acceptSession, completeGoogleSession
Accept(who) ==
  /\ session' = [session EXCEPT !.user = TRUE, !.end = "none"]
  /\ Owning(who)
  /\ stale' = TRUE

\* The token is gone: onAccessTokenChange.
Expire ==
  /\ session.user
  /\ drafts' = Retain(drafts)
  /\ session' = [session EXCEPT !.user = FALSE, !.end = "expired"]
  /\ stale' = TRUE
  /\ left' = IF form # None /\ form.text = "own" /\ entry.path = form.page
             THEN form ELSE None
  /\ UNCHANGED <<place, dialog, flights, verified, saved, form>>

\* closeLocalSession, on this tab's sign-out or on another's message
SignOut ==
  /\ ~ stale
  /\ session.user
  /\ session' = [session EXCEPT !.user = FALSE, !.end = "signed-out"]
  /\ Owning("none")
  /\ saved' = None
  /\ stale' = TRUE
  /\ left' = None
  /\ UNCHANGED <<place, dialog, flights, verified>>

\* The session remembered is restored, or there is none.
Restore(who) ==
  /\ ~ session.ready /\ ~ moving
  /\ session' = [session EXCEPT !.ready = TRUE, !.user = @ \/ who # None]
  /\ IF who = None THEN UNCHANGED <<drafts, form>> ELSE Owning(who)
  /\ stale' = TRUE
  /\ UNCHANGED <<place, dialog, flights, verified, saved, left>>

-----------------------------------------------------------------------------
(***************************************************************************)
(* The visitor                                                             *)
(***************************************************************************)

Go(e) ==
  /\ entry' = e
  /\ moving' = TRUE
  /\ left' = None
  /\ UNCHANGED <<shown, dialog, flights, verified, account, saved, form>>

Follow(p) ==
  /\ ~ stale
  /\ dialog = None
  /\ Go(Plain(p))

\* Any entry the tab can have left behind; one that another overtook before it
\* was rendered still holds its request.
Earlier ==
  LET public == {GuestDestination(p) : p \in Addresses} IN
  {Plain(p) : p \in Addresses}
  \union [path : public, handled : {"none", "expired"}, request : {None}]
  \union {[Asking(GuestDestination(p), "login", p) EXCEPT !.handled = h] :
             p \in Addresses \ Requesting, h \in {"none", "expired"}}

Back ==
  /\ ~ stale
  /\ \E e \in Earlier : Go(e)

\* Requests of a document that is gone are answered to nobody.
Reload ==
  /\ ~ stale
  /\ Fresh
  /\ shown' = entry
  /\ flights' = {}
  /\ UNCHANGED <<entry, saved>>

\* A mailed link opened in this tab.
OpenMailedLink ==
  /\ ~ stale
  /\ Fresh
  /\ entry' = Plain("verify")
  /\ shown' = Plain("verify")
  /\ flights' = {}
  /\ UNCHANGED saved

Type ==
  /\ ~ stale
  /\ form # None /\ session.user /\ dialog = None
  /\ form' = [form EXCEPT !.text = "own"]
  /\ drafts' = Write(drafts, form.page, "own")
  /\ UNCHANGED <<place, dialog, flights, verified, session, stale, saved, left>>

OpenDialog(mode, from) ==
  /\ ~ stale
  /\ dialog = None /\ session.ready /\ ~ session.user
  /\ shown.path \in Pages \ Private
  /\ \/ mode = "login" /\ from = shown.path
     \/ mode = "register" /\ from = "add"
  /\ SetDialog([mode |-> mode, from |-> from, keep |-> FALSE], None)
  /\ left' = None
  /\ UNCHANGED <<place, verified, account, saved, form>>

Close ==
  /\ ~ stale
  /\ dialog # None
  /\ SetDialog(None, None)
  /\ saved' = IF dialog.mode # "check-email" /\ ~ dialog.keep THEN None ELSE saved
  /\ left' = None
  /\ UNCHANGED <<place, verified, account, form>>

Switch(mode) ==
  /\ ~ stale
  /\ dialog # None
  /\ <<dialog.mode, mode>> \in
       {<<"login", "register">>, <<"login", "forgot-password">>,
        <<"register", "login">>, <<"forgot-password", "login">>,
        <<"check-email", "login">>}
  /\ SetDialog([dialog EXCEPT !.mode = mode], None)
  /\ left' = None
  /\ UNCHANGED <<place, verified, account, saved, form>>

-----------------------------------------------------------------------------
(***************************************************************************)
(* What the dialog and the pages of links ask, and the answers             *)
(***************************************************************************)

Ask(kind, from) ==
  /\ \A f \in flights : f.kind # kind
  /\ Cardinality(flights) < MaxFlights
  /\ flights' = flights \union {[kind |-> kind, from |-> from, live |-> TRUE]}

Submit ==
  /\ ~ stale
  /\ dialog # None
  /\ \/ /\ dialog.mode = "login"
        /\ Ask("login", None)
        /\ UNCHANGED saved
     \/ /\ dialog.mode = "register"
        /\ Ask("register", dialog.from)
        /\ UNCHANGED saved
     \/ /\ dialog.mode = "forgot-password"
        /\ Ask("forgot", None)
        /\ saved' = dialog.from
  /\ UNCHANGED <<place, dialog, verified, account, form, left>>

Refused(f) ==
  /\ f.kind # "window"
  /\ flights' = flights \ {f}
  /\ UNCHANGED <<place, dialog, verified, account, saved, form, left>>

\* A password or Google lets the visitor in: the dialog he asked from closes
\* and leads back (complete).
SignedIn(f, who) ==
  /\ f.kind \in {"login", "google"}
  /\ Accept(who)
  /\ saved' = None
  /\ IF f.live THEN SetDialog(None, f) ELSE Landed(f)
  /\ IF f.live /\ dialog.from # shown.path
     THEN entry' = Plain(dialog.from) /\ moving' = TRUE
     ELSE UNCHANGED <<entry, moving>>
  /\ left' = IF left # None /\ f.live /\ who = "same" /\ dialog.from = left.page
             THEN left ELSE None
  /\ UNCHANGED <<shown, verified>>

Registered(f) ==
  /\ f.kind = "register"
  /\ saved' = f.from
  /\ IF f.live THEN SetDialog([dialog EXCEPT !.mode = "check-email"], f)
     ELSE Landed(f)
  /\ UNCHANGED <<place, verified, account, form, left>>

LinkMailed(f) ==
  /\ f.kind = "forgot"
  /\ IF f.live THEN SetDialog([dialog EXCEPT !.keep = TRUE], f) ELSE Landed(f)
  /\ UNCHANGED <<place, verified, account, saved, form, left>>

\* Continue with Google: in a window, or in this tab when there can be none.
StartGoogle ==
  /\ ~ stale
  /\ dialog # None /\ dialog.mode \in {"login", "register"}
  /\ Ask("window", None)
  /\ saved' = dialog.from
  /\ UNCHANGED <<place, dialog, verified, account, form, left>>

StartGoogleHere ==
  /\ ~ stale
  /\ dialog # None /\ dialog.mode \in {"login", "register"}
  /\ saved' = dialog.from
  /\ Fresh
  /\ entry' = Plain("google")
  /\ shown' = Plain("google")
  /\ flights' = {[kind |-> "here", from |-> None, live |-> TRUE]}

\* The window says that Google let the visitor in, ...
WindowCompletes(f) ==
  /\ f.kind = "window"
  /\ flights' = (flights \ {f}) \union {[f EXCEPT !.kind = "google"]}
  /\ UNCHANGED <<place, dialog, verified, account, saved, form, left>>

\* ... that it did not, or that a mail was sent, ...
WindowResult(f, mode) ==
  /\ f.kind = "window"
  /\ SetDialog([dialog EXCEPT !.mode = mode], f)
  /\ UNCHANGED <<place, verified, account, saved, form, left>>

\* ... or is closed.
WindowClosed(f) ==
  /\ f.kind = "window"
  /\ Landed(f)
  /\ UNCHANGED <<place, verified, account, saved, form, left>>

\* GoogleCompletePage, in this tab
SignedInHere(f, who) ==
  /\ f.kind = "here"
  /\ Accept(who)
  /\ entry' = Plain(Home)
  /\ moving' = TRUE
  /\ saved' = None
  /\ Landed(f)
  /\ left' = None
  /\ UNCHANGED <<shown, verified>>

\* VerifyEmailPage
SubmitVerify ==
  /\ ~ stale
  /\ shown.path = "verify" /\ ~ verified
  /\ Ask("verify", None)
  /\ UNCHANGED <<place, dialog, verified, account, saved, form, left>>

Verified(f, who) ==
  /\ f.kind = "verify"
  /\ Accept(who)
  /\ verified' = (shown.path = "verify")
  /\ flights' = flights \ {f}
  /\ left' = None
  /\ UNCHANGED <<place, dialog, saved>>

GoToApp ==
  /\ ~ stale
  /\ verified /\ shown.path = "verify"
  /\ entry' = Plain(IF saved = None THEN "root" ELSE saved)
  /\ moving' = TRUE
  /\ saved' = None
  /\ verified' = FALSE
  /\ UNCHANGED <<shown, dialog, flights, account, form, left>>

Settled == ~ moving /\ ~ stale

Next ==
  \/ Render
  \/ Commit
  \/ Expire
  \/ SignOut
  \/ \E who \in Accounts \union {None} : Restore(who)
  \/ \E p \in Addresses : Follow(p)
  \/ Back
  \/ Reload
  \/ OpenMailedLink
  \/ Type
  \/ \E mode \in {"login", "register"}, from \in Pages : OpenDialog(mode, from)
  \/ Close
  \/ \E mode \in Modes : Switch(mode)
  \/ Submit
  \/ StartGoogle
  \/ StartGoogleHere
  \/ SubmitVerify
  \/ GoToApp
  \/ \E f \in flights :
       \/ Refused(f)
       \/ Registered(f)
       \/ LinkMailed(f)
       \/ WindowCompletes(f)
       \/ \E mode \in {"login", "check-email"} : WindowResult(f, mode)
       \/ WindowClosed(f)
       \/ \E who \in Accounts : \/ SignedIn(f, who)
                                 \/ SignedInHere(f, who)
                                 \/ Verified(f, who)

Spec == Init /\ [][Next]_vars

-----------------------------------------------------------------------------

\* A form never opens on a text of another account, nor on one from before a
\* sign-out: docs/ui.md, "sign-out or an account change clears them".
OwnText ==
  [][form' # None /\ (form = None \/ form.page # form'.page)
       => form'.text \in {"blank", "own"}]_vars

\* A page that has come to rest holds no request in its history entry, so that
\* neither Back nor a reload opens a dialog the visitor has closed.
AskedOnce == Settled => entry.request = None

\* A form that an expiry takes away is not lost sight of.  When the same account
\* has signed in with the dialog that leads back to it, it is on show with what
\* was typed; and until the visitor goes elsewhere there is such a dialog.  The
\* form of a page that guests see too may be left without one: ExpiryIsOffered.
ResumesWork ==
  left # None /\ Settled
    => IF session.user THEN form = left
       ELSE left.page \in Private => dialog # None /\ dialog.from = left.page

\* docs/ui.md: "Session expiry ... offers to sign in again".  Not so for the
\* second expiry on one page, whose history state says it has been handled.
ExpiryIsOffered ==
  [][session.end = "expired" /\ session'.end = "none" /\ ~ session'.user
       => dialog' # None]_vars
=============================================================================
