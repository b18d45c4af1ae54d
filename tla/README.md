# Bakost Numismatics (coinkeeper): verification project

TLA+ models of the backend and the browser client in this repository, checked
with TLC on small instances and, for the core, proved with TLAPS for every
value of the constants. `docs/` says what the program should do; every
definition here is read off the code, and the two are compared where they
differ (section "Where the code and the documentation differ").

## 1. Inventory

The system is a FastAPI application (`backend/app`) on PostgreSQL, Redis and an
S3 bucket, with a React client (`frontend/src`). Each HTTP request runs in one
database session that commits when the route returns, before the response is
sent, and rolls back on any exception (`db/session.py`). The isolation level is
PostgreSQL's default, READ COMMITTED: every statement has a snapshot of its
own, and an UPDATE or `SELECT ... FOR UPDATE` waits for the row and looks at it
again. Several workers serve requests at once, so two requests interleave at
every `await`. Background tasks run after the commit in sessions of their own.

| Component | State | Operations | Hard because |
|---|---|---|---|
| Sign-in sessions: `services/auth.py`, `repositories/users.py` | `refresh_tokens`, the cookie of each browser | sign-in, refresh (rotation, grace hand-back, reuse), sign-out, reset, change | concurrent refreshes, lost answers, revocation racing rotation, row-lock cycles |
| Credentials and email links: same files | `users.password_hash`, `email_verified`, `auth_tokens` | register, verify, login, forgot, reset, change, set | rows read before a tenth of a second of hashing and used after it |
| Google sign-in: `services/google_auth.py` | one-use state in Redis, `auth_identities` | start, callback, link | callback twice, first sign-in twice |
| Browser session client: `shared/api/client.ts`, `AuthProvider.tsx` | access token per tab, shared cookie, Web Lock | api call, refresh with retry, sign-in, sign-out | tabs, answers after sign-out, lost answers |
| Administrator roles: `services/admin_users.py`, `scripts/promote_admin.py` | `users.role` | promote, demote | two administrators demoting each other |
| Purchases and expenses: `services/collection.py`, `expenses.py` | `collection_items`, `expenses` | buy, edit, delete; supporting expenses | one purchase is two rows that must agree; PATCH writes only changed columns |
| Catalog lifecycle: `services/catalog.py` | `catalog_items` status and archive | draft, publish, reject, archive, delete, translate | check-then-act without locks, background write-back |
| Listings: `features/catalog`, `collection`, `expenses`, `completeness` | filters in the address, a draft in a drawer, the search box | click, apply, page, search, Back | a click starts from what was last rendered; a timer writes later |
| Query cache: `app/App.tsx`, every page's queries and mutations | answers, marks, requests under way | ask, save, sign in and out, change language | late answers, keys a save does not mark |
| Sign-in dialog and drafts: `features/auth` | the dialog, history entries, drafts of forms | ask, sign in, expire, Back, reload, mailed links | renders, effects and answers in any order |
| Forms and controls: `features/collection/add`, `settings`, `expenses`, `catalog/card`, `shared/ui` | fields, rows, chosen files, menus, requests | type, choose, switch, save, cut a picture | answers out of order under fields that go on changing |
| Sums on a coin's card: `CoinCardPage.tsx`, `InstancesList.tsx`, `catalog.py` | purchases, expenses, rates, settings | buy, edit, delete, reprice | two sums of the same money by different links |
| Photos and avatars: `collection_photos.py`, `catalog_photos.py`, `avatars.py` | `media_files`, objects in the bucket | upload, replace, remove | bucket and database are not one transaction |
| Storage locations: `storage_locations.py` | `storage_locations` | find or create, translate, delete | no unique constraint |
| Support inbox: `services/support.py` | tickets, topics, link tokens | Telegram updates | redelivered updates, calls failing between steps |
| Telegram notifications: `services/telegram.py` | recipients, link codes | link, unlink, broadcast | one-time codes |
| Job runs: `services/jobs.py` | `job_runs` | open, finish, watchdog | finish after finish |
| Rate limits: `core/rate_limit.py` | counters in Redis | hit, reset | fixed windows |
| Completeness, dashboard, series, reference data | none of their own | read-only queries | counting rules over the same rows |

How they interact: the browser client calls the session endpoints with the
cookie the last answer set; credentials decide who gets a sign-in and password
events end sign-ins (`revoke_all_for_user`); purchases reference catalog items
and write expenses in the same transaction; deleting a catalog item cascades
to purchases or is refused because of them; completeness and the dashboard sum
over all of these. In the browser every page reads through one cache and writes
by mutations that mark parts of it out of date; a change of account or language
empties it; filters live in the address, and the dialog in history entries.

## 2. Plan

In this order, the most important behaviour first. All of it is done:

1. `SignIns` (what is promised), `RefreshSessions` (the token protocol,
   statement by statement) and its proofs.
2. `Credentials`, `AdminRoles`, `Purchases` and their proofs.
3. `BrowserSession` on top of the sessions' promise.
4. The pages, from what surrounds them to what is on them: `Listing`,
   `PageCache`, `AuthDialog`, then the forms and controls, one module each:
   `AddForm`, `Menus`, `PeriodPicker`, `StorageField`, `Profile`,
   `ExpensesJournal`, `CoinPhotos`, `ChartPeriod`, `CoinMoney`.
5. `Proposals` and `Photos`, each with both sides of the wire.
6. Proofs about the browser: `BrowserSession`, then the pages (`Listing`,
   `PageCache`, `AuthDialog`) and what is on them, gathered in three modules:
   `Pages_proofs`, `Forms_proofs`, `Catalog_proofs`.

What would come next: the support inbox, whose promises would have to be agreed
on first; the creation and translation of catalog items.

`MCPages` and `MCParts` put several modules that share no state into one
instance. A behaviour moves one of them, chosen at the start, and the others stay
in an initial state: the states reached are those of the modules side by side,
not their product, so nothing is said of one interfering with another, and
nothing is lost either, as they have no variable in common.

## 3. The modules

### SignIns

What the backend promises about a sign-in: it is opened once, stays open
without interruption however often its token rotates, and once ended never
comes back; one transaction touches the sign-ins of one account. `RefreshSessions`,
`Credentials` and `BrowserSession` each implement it (`Abstract`, `Promised`).

### RefreshSessions (`services/auth.py`, `repositories/users.py`)

The table `refresh_tokens` at the grain of single SQL statements. The tokens of
a family are `<<f, 0>>, <<f, 1>>, ...`, because a token has one possible
successor (`derive_successor_token`, unique in the table). `state[t]` is
`revoke_reason` with "live" for a token not revoked; `req[r]` is a transaction
in flight with the rows it holds.

| Action | Code |
|---|---|
| `SignIn` | `_issue_session` with no parent |
| `StartRefresh`, `LockPresented` | `refresh_session` up to the row lock and the branch it leads to; `now` is taken before the lock, as in the code |
| `CommitRotation` | revoke with `rotated`, insert the successor |
| `LockSuccessor`, `CommitHandBack` | the grace window: the successor locked and handed back again |
| `CheckFamily` | `family_is_live`, then reuse |
| `StartLogout`, `StartPasswordReset`, `StartPasswordChange` | what begins a revocation |
| `LockScan`, `UpdateScan`, `VisitRow`, `CommitRevocation` | `_lock_live` and the UPDATE of `revoke_family` / `revoke_all_for_user`, row by row in index order |
| `Abort`, `BreakDeadlock` | a lost connection; PostgreSQL's deadlock detector |

### Credentials (`services/auth.py`, `api/v1/auth.py`)

One account: its password, verification, links, sign-ins and the requests that
have read it. A request reads the account, hashes, and commits; the model keeps
what was read apart from what is stored, so everything that can go stale does.
Refused requests change nothing and do not appear.

### AdminRoles (`services/admin_users.py`, `scripts/promote_admin.py`)

`users.role` and the row locks around it. To demote, a request locks every
administrator in the order of ids before it counts them; to promote, it locks
the one row. The actor is read at authorisation without a lock and stays in the
session as read.

| Action | Code |
|---|---|
| `StartSetRole` | `require_admin`, then `set_role` |
| `ScanAdmins`, `LockAdmin`, `FindTarget` | `lock_admins`: a snapshot, its rows locked one by one, those no longer an administrator's left out |
| `LockTarget` | `lock_user` |
| `Refuse`, `CommitRole` | the four refusals; the update and its audit row, whose foreign key needs the actor's row |
| `StartScript`, `CommitScript` | the script: a plain read and a plain write |
| `Abort`, `BreakDeadlock` | a lost connection; PostgreSQL's deadlock detector |

The script may demote the last administrator, as it is meant to be run by hand;
`KeepsAnAdmin` therefore speaks of changes made in the admin section only.

### Purchases (`services/collection.py`, `expenses.py`, `catalog.py`)

A coin and its purchase expense are two rows written by one transaction. `pay`
holds the columns about money of either. A request keeps what it has loaded
(`loaded`, `entry`) and writes only the columns it changed, so two edits of one
purchase can mix. Constraints are part of the actions: a foreign key is a guard
of the insert, ON DELETE SET NULL is `Delete`, an UPDATE of a row that has gone
fails the request and a DELETE of one is ignored.

| Action | Code |
|---|---|
| `StartBuy`, `CommitBuy`, `BuyNew` | `create`, with a catalog item chosen or entered on the spot |
| `StartUpdate`, `ReadExpense`, `CommitUpdate` | `update`: the coin, then its expense, then both written |
| `StartDelete`, `CommitDelete` | `delete` |
| `StartAdd` ... `CommitRemove` | expenses entered by hand, edited, removed |
| `CreatePersonal`, `Archive`, `Unarchive` | `catalog_items` as far as purchases see them |
| `StartDeletePersonal`, `CommitDeletePersonal` | a personal item with its coins and their expenses |
| `StartDeleteShared`, `CountCoins`, `CountExpenses`, `CommitDeleteShared` | the conditions of a physical deletion, one statement each |

Left out: names, grades, sellers and notes; a second currency (one foreign
currency and its rate are enough to go stale); and the amounts of supporting
expenses, which nothing is derived from.

### BrowserSession (`shared/api/client.ts`, `features/auth/AuthProvider.tsx`)

Tabs of one browser. `cookie` and the flags in `remembered` are shared; `page[b]`
is a tab's access token, the user it shows, `signingOut`, and whether it shows
the page of a verification link. At most one refresh, one API call and one
sign-out of a tab are in flight (`refresh[b]`, `call[b]`, `out[b]`). `queue` is
the Web Lock `ck-refresh`, granted in the order of requests. Instead of counting
`sessionVersion` the model marks what is in flight when it changes, because the
code only compares for equality. The server takes each request whole, as
`SignIns` promises; what a request does when its answer is lost is decided in
`Unheard`. `abandoned` and `closed` are history, read by the properties only.

| Action | Code |
|---|---|
| `StartCall`, `EndCall`, `Unauthorised`, `UnauthorisedAgain` | `api`: the first attempt, what a 401 leads to, the second attempt |
| `SendRefresh`, `AnswerRefresh`, `LimitRefresh`, `FailRefresh` | `requestRefresh` under the lock: an answer, a 429, an attempt lost and repeated or given up |
| `Settle` | the rest of `tryRefresh` and of who waited for it |
| `SignIn` | `login` or `verifyEmail`, then `acceptSession` |
| `SignOut`, `SendLogout`, `AnswerLogout`, `FailLogout` | `signOut` |
| `Receive` | the message on `ck-auth` |
| `Open`, `Restored` | a page loaded: what was in flight is lost, a remembered session is restored |
| `EndElsewhere`, `Elapse` | a sign-in ended on another device; the end of a grace window |

An answer with the cookie sets it when it arrives, and the page reads the answer
later (`Settle`); a message is delivered at any time. Left out: Google's popup,
the new session a change of password hands out, drafts, and browsers without Web
Locks.

### Listing (`features/catalog`, `collection`, `expenses`, `completeness`)

`url` is the address, `shown` the filters the page was last rendered with; the
router brings one after the other in a transition (`Commit`). A click computes
from `shown`. On a desktop the panel writes at once and its search box 400 ms
later (`SearchFires`); on a phone a drawer edits `draft`, which Apply copies.
`series` stands for the three lists a country narrows, `rest` for the filters
that depend on nothing.

### PageCache (`app/App.tsx`, the queries and mutations of all pages)

One query is followed, `watched`, any of the application's 24: its answer, its
mark, its age, its request. `fact` is the version of the data on the server; an
answer carries the version, account and language it was read in. `Mutation` says
of each kind of save what it changes and what it marks, read from the pages;
`LeftStale` names what a save changes and its page does not mark (section 6).
The cache is a library, modelled from how the pages use it.

### AuthDialog (`features/auth`)

One tab: `entry` is the current history entry, `shown` the page on screen,
`form` and `left` what is typed and what an expiry took away. A change of place
is rendered in a transition, a change of the session at once; effects run in the
order React gives them (`RequestEffect`, `EndEffect`, ...). Sign-in, Google,
expiry, sign-out, Back, reload, mailed links.

### AddForm, CoinPhotos, CoinMoney (`features/collection`, `features/catalog/card`)

`AddForm` is the page that records a purchase or another expense: one form that
changes shape with its type and its coin, saved in steps (`SubmitPurchase`,
`Created`, `Upload`, `Uploaded`, `Finish`). `CoinPhotos` has the two photos of
the edit page: picked, framed, encoded (`Encoding`, which outlives its dialog),
checked for blur, sent. `CoinMoney` has the sums of a coin's card: `CopyRow` is a
row of the table, `Strip` the sums above it, from what the server adds up by coin
(`SupportingUah`) and by purchase (`ExtrasOf`). The server divides decimals and
the page rounds only what it shows; the model has whole numbers, so
`MoneyAssumption` asks that the amounts, and nothing else, divide evenly by the
rates.

### Menus, PeriodPicker, ChartPeriod (`shared/ui`, `shared/lib`, `features/expenses`)

The two drop-down menus with their keys, clicks and search (`Filter` is
JavaScript's); the period filter
with its three modes, the bounds a country sets and the address; the period of
the charts and the calendar arithmetic of both sides (`ShiftMonths` of the
browser, `ServerShift` of the server).

### StorageField, Profile (`features/settings`)

The settings page: a Combobox that saves when it is left, and the other fields,
each with requests of its own that overtake each other. `profile`, `settings`
and `stored` are what the server keeps; `user`, `knownSettings` and `Value` what
the page has.

### ExpensesJournal (`features/expenses/ExpensesPage.tsx`)

The forms and dialogs of the rows, `calls` in flight with the visit they belong
to, and the draft an expiry leaves (`left`, `taken`).

### Proposals (`features/catalog/card`, `shared/ui/Modal.tsx`, `api/v1/admin.py`)

One proposed coin: the bar, the editor with its crop dialog, the confirmation
and the enlarged photo with the lock each puts on the page's scrolling, and the
server's handlers, each a read and a later write. A rival administrator uses the
same handlers.

### Photos (`services/collection_photos.py`, `catalog_photos.py`, `avatars.py`)

One picture in three services: a request puts its object, changes its rows,
deletes the objects of the rows it replaced, and only then commits; it may fail
or the process stop between any two steps. `slotRows` is what is committed,
`objects` the store, `written` its history.

## 4. What the runs check

| Run | Instance | What it shows |
|---|---|---|
| `refresh_two_users` | 2 accounts with a sign-in each, 1 rotation, 2 requests, 2 instants, a grace window and a lifetime that end | the inductive invariant; a family never forks; answers are live; a revocation reaches the successor; the protocol implements `SignIns` |
| `refresh_two_sign_ins` | one account with 2 sign-ins, 1 rotation, 2 requests | every request is answered, deadlocks included |
| `refresh_double_rotation` | one sign-in, 2 rotations | counterexample, section 6 |
| `credentials_races` | 3 links, 2 sign-ins, 2 passwords, 2 requests | the inductive invariant; links work once; password events end open sign-ins |
| `credentials_login_race` | 2 links, 2 sign-ins | counterexample, section 6 |
| `admin_roles_races` | 3 users, 2 role changes or script runs | the inductive invariant; an administrator is left; audit rows tell the truth; every request is answered |
| `purchases_races` | 2 coins, 2 expenses, a shared and a personal item, 2 requests | the inductive invariant (one purchase expense per coin, no dangling reference); supporting expenses survive; an edit nobody overtook repairs the pair |
| `browser_tabs` | 2 tabs, 2 sign-ins of one rotation each | the lock is held by those who should; a tab that signed out does not get its token back, nor the browser the cookie; a user shown has a token; the server sees a replay only after an answer was lost for good |
| `listing_filters` | 2 countries, a series of one, 1 text, 2 pages | a page is only asked of the filters on show; no filter without a chip; the drawer changes nothing before Apply; the search box settles |
| `pages_settle` | 2 accounts, one an administrator; 2 changes; 2 addresses with a form, 1 answer in flight; one of `PageCache` and `AuthDialog` moves | nothing of another account stays; a change acknowledged is shown; one language; a dialog is asked for once; what an expiry takes from a form is offered again and comes back, to its owner only |
| `single_parts` | one of eleven modules moves (below) | types; purchases are whole and what is typed survives switching; a menu chooses one; fields and pages settle on what the server keeps; the last save stands, what was abandoned stays so; a file is sent once and to its side; the sums of a card agree |
| `photos_missing_file` | 2 pictures, 3 requests | counterexample, section 6 |

Bounds. Every hazard listed is a race of two requests over the same rows, so two
requests in flight show it; a third that comes later reuses an idle one. One
rotation is the least for which a revocation can miss a successor, and two the
least for which the successor has one (`refresh_double_rotation`). Three users
are the least for which two administrators are demoted at once by a third or by
each other. Two coins and two expenses let a deletion find one coin and miss
another, and a coin keep a supporting expense. A second sign-in replaces the
cookie of the first under the feet of a refresh, and one rotation is enough for
a cookie to be outdated. `MaxRotations` and `MaxClock` cap
counters in the guards of `StartRefresh`, `Judge` and `Tick`. Three instants are the
least at which a rotated token is first handed back, then replayed after the grace
window: `refresh_two_users` reaches the alarm (`CheckFamily`). `refresh_two_sign_ins`
is about waiting for rows and keeps to one instant, so it does not. One password is
enough in `credentials_races`: nothing it checks compares two, and
`credentials_login_race`, which does, has two. Requests, passwords, coins, expenses,
tabs, sign-ins and, each with what is its own, accounts are symmetric where no
liveness property is checked.

`single_parts` has a bound per module. `AddForm`: five edits of one visit (a row
or a photo, a switch and back, and a field; a photo cut to size is an edit), one
extra row (opening the block of expenses starts one, so `MaxRows` is at least 1),
two keys of rows and photos together, one coin, two countries. `Menus`: three options, one of them
barred, a search that finds two, one or none. `PeriodPicker`: two countries with
different years, one year and one date to type. `StorageField`: two names, two
questions, two saves; `Profile`: two names, two themes, one avatar, two saves.
`Proposals`: two contents, one picture and one side, two decisions, one rival.
`Photos`: two pictures, three requests. `ExpensesJournal`: two expenses and a
purchase, two wordings, two calls, two exits. `CoinPhotos`: both sides, two
files, three encodings, one removal. `ChartPeriod`: the last days of February in
a leap year, of March and of May. `CoinMoney`: two purchases of one or two pieces
on a day with rates and a day before any, two expenses. Two saves are the least
that overtake each other, and a third finds nothing new.

In `pages_settle` two changes are the least for which an answer is read between
them, and two accounts with a guest are all `NothingOfAnother` can tell apart.
`MaxFlights` is one answer on its way to a place the visitor may have left.

Modules that only one run instantiates beside others keep their own type
invariants (`Listing.TypeOK`, `PageCache.CacheTypeOK`, `AuthDialog.TypeOK`): they
hold when checked, and no run lists them, as the properties listed cannot be
evaluated without them.

Fairness. `RefreshSessions` and `AdminRoles` assume strong fairness of a
request's own steps (PostgreSQL queues the waiters of a row, so a waiter is not
overtaken for ever) and weak fairness of the deadlock detector. Nothing is
assumed of clients: nobody must refresh, sign out or come back. `BrowserSession`
assumes one thing about time, in the guard of `Elapse`: an attempt to refresh and
its retry (1 s later, each within 15 s) reach the server within the 30 s of the
grace window. A retry that takes its whole 15 s may miss it by a second.
`Listing` assumes that a transition of the router ends (`Commit`) and that a
timer fires (`SearchFires`): weak fairness of each, which React and the browser
give. `SearchSettles` says nothing of a visitor who clicks for ever, nor of one
whose click takes back a search not rendered yet (section 6). The other
modules assume no fairness: their properties speak of the moments when nothing
is under way.

`CHECK_DEADLOCK FALSE` is set where the numbered families, links, coins or ticks
run out, or where a visitor may do nothing more within the bounds.

## 5. What is proved

### The server

`RefreshSessions_proofs` proves, for any numbers of accounts, families,
rotations and requests, any clock and any grace window: the inductive invariant
`IInv`, and from it `NeverForks`, `HandsOutLiveTokens`,
`RevocationReachesSuccessor` and that the specification implements `SignIns`.
The argument: by `Chain` a token has a successor row exactly when it was
rotated, so the newest token is the only one that can be live; row locks are
exclusive, so what a transaction has judged under a lock stays true until it
commits (`RefreshKnows`); and a revocation that has taken its second snapshot
either holds a live row it saw, or the row was rotated before that snapshot, so
the successor is in it (`RevocationKnows`). `Chain` alone is not inductive
without the other two.

`Credentials_proofs` proves `IInv`, `SingleUse` and `EventsEndSignIns`: a link
somebody holds is unused and held by nobody else (`HeldLinks`), and a live row a
request holds stays live and is held by nobody else (`HeldSignIns`). `SeenSignIns`
follows a sign-in the request saw at its start and which is still open through the
two statements: to be visited or held, or rotated during the first and then to be
visited or held by the second, or rotated during that one too. The last is the only
way past a reset or a change; the property names it (`missed`) and
`refresh_double_rotation` shows it in the code. And it proves that the account
implements `SignIns` (`AccountKeepsThePromise`, for `MovesAsPromised`): a request
opens one sign-in at most, and what it ends as it commits is open until then, by
`HeldSignIns`.

`AdminRoles_proofs` proves `IInv`, `KeepsAnAdmin` and `AuditTellsTruth` for any
finite set of users and any number of requests. Locks are exclusive, so the
administrators a request has counted are administrators until it commits
(`Knows`); more than one of them leaves another when one is demoted, and the
target's row is held from the moment its role is read. Only the actor's own role
may be out of date, which is why `Knows` treats a change of oneself apart: it is
refused whichever way.

`Purchases_proofs` proves `IInv`, `SupportingSurvive` and `UpdateHeals` for any
coins, expenses, items, prices and requests. "One purchase expense per coin"
(`Booked`) is not inductive alone: a deletion writes by what it read several
statements before. `Found` says what such a reading is still worth: the expense
found is that of one of the request's coins or has gone, and nobody can have
booked another in the meantime, because a coin that exists has one already.
`References` is needed for the items that coins and expenses share.

The assumptions on constants are the `ASSUME`s of the modules: which account a
family belongs to, that a null value is no value, that users and money are
numbers, and that the bounds are; of a coin's card, that its amounts divide
evenly by the rates (`MoneyAssumption`).

### The browser session

`BrowserSession_proofs` proves, for any tabs, any sign-ins, any rotations: `IInv`,
and from it `SignOutStands`, `ShownHasToken` and `AlarmsOnlyAbandoned`. What a tab
may not get back depends on seven things, and `IInv` has a conjunct for each.
The queue of the lock agrees with who asks and who works (`LockHeld`),
so a refresh asked for after a logout stands behind it. A call waits only for a
refresh of its own tab (`CallsWait`). What has been handed out is of a sign-in
the server has opened (`HandedOut`): a new sign-in is therefore none of those on
their way. A tab that is leaving gets nothing by what it asked for before
(`LeavesForGood`); `signingOut` is set only while a sign-out runs, and a session
being restored has its token (`RestoresWithToken`).
`ClosedIsOver` adds that no answer with the cookie of a closed sign-in is still to
be read; `KeepsUp` that a cookie is the newest, or one behind in the grace window
while the refresh that made it so is repeated. `SignOutStands` needs the first
six, `AlarmsOnlyAbandoned` the last.

`TabsKeepThePromise` closes the circle with the server's side: what the tabs make
the server do, with answers lost, late and repeated, implements `SignIns` too,
each sign-in on its own. `ServerSteps` says of every action that it opens or ends
one sign-in at most (`AtMostOne`); a retry or a late answer neither opens an ended
one again nor interrupts an open one. `RefreshSessions`, `Credentials` and
`BrowserSession` thus agree on what a sign-in does, which is what lets each
leave out what the others have. This refinement and that of `Credentials` are
proved and no run repeats them.

### The pages

`Catalog_proofs` proves of `Listing`, for any countries, series, texts and pages:
`PagesOfShown`, `NoHiddenSeries` and `OnlyApplyReachesListing`. The lemmas say what
the code's three translations of filters do: reading what was written gives the
filters back (`ParseSerialize`), a change starts from page 1 on the pages that
start over, unless it is a change of page (`UpdateIs`), and a change a panel or a chip offers keeps the series inside
one country (`PanelChanges`, `ChangeLeads`). Neither invariant is inductive alone:
a click starts from `shown`, which the router brings later, so the invariant
(`ListInv`) says both of `shown` and of the address, and which filters a page has
at all (`OfScreen`), which has drawers (`DrawersHere`).

`Pages_proofs` proves of `PageCache`, for any number of changes and answers:
its type, `NothingOfAnother`, `InOneLanguage` and `ChangeIsShown`. The first two
follow from what is kept being of this visit (`OfThisVisit`), a placeholder being
replaced soon (`PlaceholderComes`), and the one exception, the card a guest read
when he signed in (`GuestsCard`). The third is an argument about time: what is
read after a change tells of it, what was being read when it came was overtaken
(`ReadAfter`); what is kept from before is marked (`MarkedOrTells`); what is
marked and on show is asked for again, or its request has failed (`MarkedComes`).

Of `AuthDialog` it proves the type, `AskedOnce`, `OwnText` and `ResumesWork`.
`DialogInv` has the type, that a window or an answer implies its dialog, that a
place on screen holds no request, and that no draft is of another account. For
`ResumesWork` the invariant follows the work an expiry took away through the
phases it passes: the expiry not rendered yet (`Leaving`), a guest on the public
page (`Staying`), sent to another (`Sent`), offered to sign in (`Offered`), signed
in and on the way back (`BackAtWork`); every step leads from one of them to one
of them, or gives the work up as the code does.

### The forms

`Forms_proofs` proves of each the property the run checks, and an invariant:

| Module | Proved | The invariant, and what it adds |
|---|---|---|
| `AddForm` | type, `WholePurchase`, `SurvivesSwitching` | `AddInv`: the form's amount is the page's (`AmountsTell`), a series is of its country (`SeriesFits`), nothing is stored before the purchase (`StoredAfter`), and a photo being cut has a key left (`RoomToCrop`). The type alone is not inductive without the last two |
| `ExpensesJournal` | type, `LastSaveStands`, `AbandonedStaysAbandoned` | `JournalInv`: the drafts are those of the form on show, elsewhere those of the last expiry (`DraftsTell`); one save is awaited at a time, and apart from the rows changed without a report a row says what its save asked once the server has it, and otherwise what the page was last told (`SavesCarry`) |
| `Profile` | type, `PageSettles` | `ProfileInv`: saves have numbers of their own; unless something went amiss, answers come in turn (`InTurn`), the last one on its way is what the server keeps (`LastAnswerTells`), and the locale changes only where it was asked to (`LocalesFollow`) |
| `StorageField` | type, `FieldSettles` | `StorageInv`: requests have numbers of their own; unless something went amiss, a text left in the field was read or saved last (`DraftIsSaved`), and the value is asked for again after a save (`DefaultAsked`) |
| `PeriodPicker` | type, `AsksWhatIsShown`, `ClicksOrder`, `YearsFollowCountry` | the bounds of the years are the least and largest of a finite set (`Largest`, by taking a smallest subset that bounds it) |
| `ChartPeriod` | `ShiftAgrees`, `LitPresetIsAsked` | for every day and number of months, before or after, the browser's arithmetic, with a remainder that takes the sign of what is divided, gives a day of the calendar in the very month the server's gives |
| `Menus` | type, `ChoosesOne`, `OpensWhole` | `MenuInv`: nothing is chosen twice. What a filter leaves (`FilterFacts`, `FilterAll`) is found by induction over the positions of the array |

Three of these properties name exceptions, which are what the code does not mend.
`PageSettles`: after a request about the profile that overtook an earlier one or
lost its answer, nothing is promised of the profile; after a settings answer that
was lost, or a question that failed, nothing of the settings until they are asked
for again. Saves of settings and questions in any order are not exceptions.
`FieldSettles`: the same of the settings, and of the text in the field also after
a save that overtook another or failed, or a deletion of a location.
`LastSaveStands`: it speaks of what the page was told. A save of an earlier visit,
or one whose connection broke, may be applied after a later one that was answered,
and nothing tells the page; `NothingUnreported`, without the exception, fails
(section 6). What it does say, for all forms of a visit and however often they are
closed, rests on one save being awaited at a time.

`JournalAssumption` asks that no form is taken for a draft or for its absence;
in the code they are of different types.

### The catalog and its photos

`Catalog_proofs` proves of `Proposals` the type, `FrozenBehind`,
`DecidedOnceAlone` and `EditPublishesWhole`. `Stacked` lists the five stacks of
overlays that exist, and ties the scroll lock to them; `Alone` says what an
unanswered decision can have done; `EditGoesOn` that what an edit has not sent
yet is what is still to be sent.

Of `Photos` the type, `NothingUnwritten` (a request that is about to change its
rows has put its object, `PutFirst`) and `OnePicture`: requests that come one at a
time and do not fail leave one row at most and no object it does not name, and its
object too unless the picture on show was uploaded again, when it may be gone
(section 6). The store is what the rows name, up to what the request under way has
done so far (`Calm`).

Of `CoinPhotos` the type and `SentAsPicked`: a file that can still be sent was not
sent before (`Sendable`), and what was sent was chosen for that side
(`SentWasChosen`), though an encoding outlives the dialog that began it.

Of `CoinMoney` the type and `ChangesAddUp`, for any purchases, expenses, prices and
rates. The two sides of the card add up the same expenses in different orders and
groups, so the lemmas are about sums: SQL's SUM is a fold over a set, which
takes its elements in some order; its value is that of any element and the rest
(`SumPicks`), of two parts (`SumDisjoint`), of groups (`SumByGroup`) and of parts
converted one by one (`SumScaled`). Then the expenses of a coin are those of its
purchases and those of none (`SpentSplit`), because deleting a purchase leaves
its expenses to the coin. `MoneyAssumption` serves the second currency: converting
a sum is the sum of what is converted only while nothing is rounded.

The library's induction theorems take an operator as a parameter and cannot be
used here. `SubsetInduction` and `CountInduction` say the same of the set `Good`
of the subsets, or the numbers, of which something holds, and follow from
`WFMin`: proper inclusion and the order of the numbers are well founded, so a
least exception would exist.

### What is only model-checked

`EventuallyAnswered` and `SearchSettles`: liveness under fairness, which the
prover cannot do. `PartsTypeOK`, which puts the types of the eleven modules of
`single_parts` side by side: each is proved above for its own module. And all
counterexamples.

## 6. Where the code and the documentation differ

Three have a run of their own that finds the counterexample; `PROJECT.json`
quotes the sentence each contradicts.

* `refresh_double_rotation`: a sign-out overtaken by two rotations of the same
  family between its two statements leaves the newest token live.
* `credentials_login_race`: a sign-in under way during a password change is
  opened with the old password and survives it; a second change under way does
  the same.
* `photos_missing_file`: the photo of a coin or of a catalogue record is replaced
  by another, with nothing else going on. The old objects are deleted with the
  old row (`collection_photos.py:149`, `catalog_photos.py:109`) and the commit
  comes later (`db/session.py:34-43`), so a failure in between brings the row back
  and not the files, against `docs/media.md:122-124`. Two more things of these
  services have no run: the picture on show uploaded again is deleted with the row
  it replaces, whose keys it shares (`collection_photos.py:111-112`), and two
  first uploads at once leave two rows, on which `scalar_one_or_none` fails from
  then on (`collection_photos.py:143`). The avatar's service compares the keys
  first (`avatars.py:89`).

The others have a configuration that TLC runs to a counterexample (a
configuration with several properties stops at the first; remove it to see the
next):

| Configuration (module) | Shows |
|---|---|
| `CredentialsRehash` (`MCCredentials`) | the re-hash of a sign-in under way restores the old password (`docs/auth.md:83-85`) |
| `PurchasesGaps` (`MCPurchases`) | two edits of one purchase leave an expense that is not price times quantity (`docs/business-rules.md:96`); a shared item restored while it is being deleted goes all the same (`:289-294`) |
| `BrowserSignOutMissed` (`MCBrowserSession`) | a tab restoring its session ignores a message about a sign-out and shows the user afterwards (`docs/auth.md:234-235`) |
| `ListingGaps` (`MCListing`) | filters changed in the drawer are applied with the page it was opened on (`useCatalogFilters.ts:141`: every change starts from the first); a search typed is never made when a click on the current tab or page falls between the timer and the render (`Tabs.tsx:27`, `Pagination.tsx:46-52`): the address is taken back, the filters have not changed, so the debounce does not run again (`FiltersPanel.tsx:50-54`) |
| `PageCacheGaps` (`PageCache`) | a visitor who signs in on a coin's card keeps the guest's card (`App.tsx:137`, `CoinCardPage.tsx:54-64`; `docs/ui.md:56`); saves that leave keys unmarked (below) |
| `AuthDialogGaps` (`AuthDialog`) | the second expiry on one page is not offered a sign-in |
| `AddFormGaps` (`AddForm`) | a refused save with its error inside a folded block shows nothing (`AddPage.tsx:347`) |
| `ProposalsGaps` (`Proposals`) | two administrators decide one draft (`docs/api.md:752-753`); scrolling stays locked after Escape over editor and crop dialog (`pageScroll.ts:29`) |
| `ExpensesJournalGaps` (`ExpensesJournal`) | the answer for one row closes the form of another and drops its text (`ExpensesPage.tsx:140-153`); a save of an earlier visit, or one whose connection broke, is applied after a later one the page was told of (`NothingUnreported`) |
| `CoinPhotosGaps` (`CoinPhotos`) | photo answers out of order leave an earlier state on show (`PurchaseFormPage.tsx:60-96`) |

What a save changes and does not mark (`LeftStale`): completeness after a purchase
changes (`model.ts:1`, `docs/ui.md:356`); the catalog's and the collection's sums
after an expense changes (`ExpensesPage.tsx:58`, `AddPage.tsx:249`,
`docs/backlog.md:201`); the pictures elsewhere after a photo on the edit page
changes (`PurchaseFormPage.tsx:70-96`); a proposal after a decision on it
(`ProposalActions.tsx:36-41`); a deleted storage location on the coins that had it
(`SettingsPage.tsx:151-162`). A save whose commit happened but whose answer was lost
marks nothing, and a save that finishes after the visitor has left still navigates
(`AddPage.tsx:241`, `PurchaseFormPage.tsx:137`).

Seen while modelling, without a configuration:

* Listing: a click within the router's transition overwrites the change before
  it; a search typed less than 400 ms before Apply is lost (`docs/ui.md:220-222`);
  Reset does not cancel a pending search; a page beyond the results has no pager.
* Cards: the strip's second currency leaves out the cost of a purchase without a
  rate and counts its value (`repositories/catalog.py:490`), while its row says
  "no data"; `ChangesAddUp` is stated for purchases that have one.
* The add form: after a save the form stays enabled until the page has gone, so a
  purchase can be sent twice (`AddPage.tsx:241`); a photo chosen while others
  upload is shown and then dropped (`:228`).
* Pictures: `CropDialog.save` goes on after Escape, so a cancelled picture is
  still sent (`CropDialog.tsx:88-107`), on the settings page closing the dialog of
  another file (`AvatarSection.tsx:35-43`).
* The journal: the error of one form is shown in the next (`ExpensesPage.tsx:537`).
* Charts: `period.ts:13-18` says the server clamps to the last day of a month; it
  returns the first (`services/expenses.py:39-42`). A cleared first date asks
  without one and is refused (`docs/ui.md:615-618`).
* Menus: a list reopened after a search is highlighted by the shortened one
  (`Select.tsx:128-139`); Space in the search box chooses (`:183-186`).
* Period: leaving a mode keeps its fields on screen only until the address is
  read again (`periodFilter.ts:49-61`, `docs/ui.md:250`); removing a country's
  chip does not bound the years (`CollectionPage.tsx:176-179`, `docs/ui.md:256-257`).
* Settings: Enter and leaving the name field send it twice; a late answer puts an
  earlier profile back; the theme follows an answer asked before it was picked
  (`ThemeSettingsSync.tsx:34-39`); a storage location half typed is saved when the
  field is left (`SettingsPage.tsx:392-397`, `docs/ui.md:662`).
* Photos of a coin: `PATCH` of a proposal does not check that it is still one.

The models of the server contain four more: `set_password` twice at once
(`CommitSet`), two links of a kind issued at once and both usable
(`CommitIssue`, against `docs/auth.md`), an administrator demoted while his own
request waits (`CommitRole`), and a supporting expense of one coin moved to
another coin's item (`CommitEdit`, against BR-4). A sign-in does not take the Web
Lock, so a refresh answered after it overwrites its cookie
(`AuthProvider.tsx:128`).

## 7. What is not modelled

On the server: password hashing, token generation and signatures (a token is a
name nobody can guess), email delivery, formatting of answers and errors,
logging, SQL query plans, the listings and their counting rules, the creation
and translation of catalog items, storage locations beyond what one page does to
them, the support inbox and Telegram, job runs, rate limits, migrations, and the
parsers of the sibling project `coin-parser`. In the browser: the landing page
and the legal pages, the frame and its navigation, the drawing of charts and
tables, the onboarding, the admin lists, the pixels of a picture (framing,
rotation, the measure of blur), the generated client of the API and the words of
the interface. `PROJECT.json` gives every component its status and the reason.
