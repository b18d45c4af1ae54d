------------------------------- MODULE PageCache -------------------------------
(***************************************************************************)
(* What the pages show of the server: the query cache of the application   *)
(* (App.tsx) and the queries and mutations of its pages.                   *)
(*                                                                         *)
(* One query is followed, `watched`, any of them: an answer of one never   *)
(* changes that of another.  Its entry in the cache holds the last answer, *)
(* whether a mutation has marked it out of date, whether its 30 seconds    *)
(* have passed, and the request under way.  An answer carries the account  *)
(* and the language it was asked in and the version of the data it was     *)
(* read from; `fact` is the server's version, and only this tab changes it. *)
(*                                                                         *)
(* A change of account or language empties the cache under the pages: a    *)
(* page rendered again asks anew, another stays with the query it had      *)
(* (`attached`).  The cache itself is a library, modelled from how the     *)
(* pages use it.                                                           *)
(***************************************************************************)
EXTENDS Naturals, FiniteSets, TLC

CONSTANTS
  Users,
  Admins,      \* those of them with the role
  Guest,       \* nobody is signed in
  Nothing,
  Unread,      \* a request the server has not read yet
  MaxChanges   \* bound: changes made on the server

ASSUME AccountAssumption == Admins \subseteq Users /\ Guest \notin Users
ASSUME ChangesAssumption == MaxChanges \in Nat \ {0}

Languages == {"uk", "en"}

VARIABLES
  watched, page, user, language,
  fact,      \* how often the watched data changed on the server
  cached,     \* the cache's entry for `watched`
  attached,  \* the page's observer is on that cached
  held,      \* what an observer has from an cached that was removed
  saving,    \* the mutation under way, or Nothing
  due        \* history: the last change acknowledged that no answer has brought yet

visit == <<page, user, language>>
observed == <<cached, attached, held>>
cacheVars == <<watched, visit, fact, observed, saving, due>>

-----------------------------------------------------------------------------
(***************************************************************************)
(* The queries, by the first part of their key, and the pages that hold    *)
(* them                                                                    *)
(***************************************************************************)

CatalogQueries == {"catalog list", "catalog summary", "card", "prices", "instances", "lookup"}
CollectionQueries == {"positions", "collection summary", "item", "locations"}
ExpenseQueries == {"journal", "expense totals", "chart"}
SeriesQueries == {"series"}
CompletenessQueries == {"groups", "group", "group items"}
AdminQueries == {"jobs", "users", "proposals", "proposal", "telegram"}

Queries == {"bootstrap", "countries"} \union CatalogQueries \union CollectionQueries
  \union ExpenseQueries \union SeriesQueries \union CompletenessQueries \union AdminQueries

\* Asked for once: staleTime is infinite.
Eternal == {"countries"}

\* Their last rows stay on show while those of another key are fetched.
KeepsPrevious == {"catalog list", "catalog summary", "positions", "collection summary",
                  "journal", "chart", "groups", "group items", "jobs"}

PublicPages == {"landing", "overview", "catalog", "card", "coins", "groups", "money"}
PrivatePages ==
  {"add", "edit", "group", "settings", "admin jobs", "admin users", "admin proposals"}

GuestPage(p) ==
  CASE p \in PublicPages -> p
    [] p \in {"add", "edit"} -> "coins"
    [] p = "group" -> "groups"
    [] OTHER -> "landing"

CardQueries(u) ==
  {"card"} \union (IF u = Guest THEN {} ELSE {"prices", "instances"})
           \union (IF u \in Admins THEN {"proposal"} ELSE {})
CatalogPageQueries(u) ==
  {"catalog list", "series"} \union (IF u = Guest THEN {} ELSE {"catalog summary"})
CollectionPageQueries == {"positions", "collection summary", "card"}
ExpensesPageQueries == {"journal", "expense totals", "chart"}
GroupPageQueries == {"group", "group items", "series"}
AddPageQueries == {"card", "locations", "lookup", "series", "countries"}
EditPageQueries == {"item", "card", "locations"}

\* A guest sees the introduction in place of a collection page.
PageQueries(p, u) ==
  CASE p = "card" -> CardQueries(u)
    [] p = "catalog" -> CatalogPageQueries(u)
    [] u = Guest -> {}
    [] p = "coins" -> CollectionPageQueries
    [] p = "money" -> ExpensesPageQueries
    [] p = "groups" -> {"groups"}
    [] p = "group" -> GroupPageQueries
    [] p = "add" -> AddPageQueries
    [] p = "edit" -> EditPageQueries
    [] p = "settings" -> {"locations"}
    [] p = "admin jobs" -> {"jobs", "telegram"}
    [] p = "admin users" -> {"users"}
    [] p = "admin proposals" -> {"proposals"}
    [] OTHER -> {}

\* The theme of the account is read on every page, and with it all of bootstrap.
Mounts(p, u) == PageQueries(p, u) \union (IF u = Guest THEN {} ELSE {"bootstrap"})

\* Components whose queries are rendered again when the account changes; the
\* card page itself reads no account, only the body below it does.
FollowsAccount(p, q) == ~(p = "card" /\ q = "card")

-----------------------------------------------------------------------------
(***************************************************************************)
(* The mutations: the pages they are made on, what the server changes by   *)
(* them, which entries the page then marks, and the page it leaves for     *)
(***************************************************************************)

\* Mutant of CollectionDependent: the key of the expenses was left out.
CollectionDependentNoExpenses ==
  CollectionQueries \union {"bootstrap"} \union CatalogQueries \union SeriesQueries

CollectionDependent ==
  CollectionQueries \union {"bootstrap"} \union CatalogQueries \union ExpenseQueries
                    \union SeriesQueries

\* An instance appears, changes or disappears: its money, the ownership of the
\* coin everywhere it is listed, the places it is kept in.
InstanceData ==
  {"bootstrap", "catalog list", "catalog summary", "card", "instances", "lookup"}
  \union CollectionQueries \union ExpenseQueries \union CompletenessQueries

\* The sums of supporting expenses go with the coin they are linked to.
ExpenseData == {"bootstrap", "catalog list", "card", "positions", "collection summary"}
               \union ExpenseQueries

PhotoData == {"catalog list", "card", "instances", "positions", "item", "group items"}

RecordCoin ==
  [on |-> {"add"}, changes |-> InstanceData, marks |-> CollectionDependent,
   to |-> {"card", "catalog", "group"}]
EditCoin ==
  [on |-> {"edit"}, changes |-> InstanceData, marks |-> CollectionDependent,
   to |-> {"card", "money"}]
DeleteCoin ==
  [on |-> {"card", "money"}, changes |-> InstanceData, marks |-> CollectionDependent, to |-> {}]
EditPhoto ==
  [on |-> {"edit"}, changes |-> PhotoData, marks |-> {}, to |-> {}]
RecordExpense ==
  [on |-> {"add"}, changes |-> ExpenseData, marks |-> ExpenseQueries \union {"bootstrap"},
   to |-> {"money"}]
EditExpense ==
  [on |-> {"money"}, changes |-> ExpenseData, marks |-> ExpenseQueries \union {"bootstrap"},
   to |-> {}]
ReviewProposal ==
  [on |-> {"card"}, changes |-> {"proposals", "proposal", "catalog list", "card", "lookup"},
   marks |-> {"proposals"} \union CatalogQueries, to |-> {"admin proposals"}]
SetRole ==
  [on |-> {"admin users"}, changes |-> {"users"}, marks |-> {"users"}, to |-> {}]
UnlinkTelegram ==
  [on |-> {"admin jobs"}, changes |-> {"telegram"}, marks |-> {"telegram"}, to |-> {}]
RememberView ==
  [on |-> {"catalog", "coins", "settings"}, changes |-> {"bootstrap"}, marks |-> {"bootstrap"},
   to |-> {}]
ShowPackaging ==
  [on |-> {"settings"}, changes |-> {"bootstrap", "catalog list", "catalog summary"},
   marks |-> {"bootstrap"} \union CatalogQueries, to |-> {}]
ChangeSetting ==
  [on |-> {"settings"}, changes |-> {"bootstrap"}, marks |-> {"bootstrap"}, to |-> {}]
NameLocation ==
  [on |-> {"settings"}, changes |-> {"bootstrap", "locations"},
   marks |-> {"bootstrap", "locations"}, to |-> {}]
DeleteLocation ==
  [on |-> {"settings"}, changes |-> {"bootstrap", "locations", "instances", "item"},
   marks |-> {"bootstrap", "locations"}, to |-> {}]

Mutation ==
  [recordCoin |-> RecordCoin, editCoin |-> EditCoin, deleteCoin |-> DeleteCoin,
   editPhoto |-> EditPhoto, recordExpense |-> RecordExpense, editExpense |-> EditExpense,
   reviewProposal |-> ReviewProposal, setRole |-> SetRole, unlinkTelegram |-> UnlinkTelegram,
   rememberView |-> RememberView, showPackaging |-> ShowPackaging, changeSetting |-> ChangeSetting,
   nameLocation |-> NameLocation, deleteLocation |-> DeleteLocation]

\* What a mutation changes and its page is known not to mark (README, section 6).
LeftStale(m) ==
  CASE m \in {"recordCoin", "editCoin", "deleteCoin"} -> CompletenessQueries
    [] m = "editPhoto" -> PhotoData
    [] m \in {"recordExpense", "editExpense"} ->
         {"catalog list", "card", "positions", "collection summary"}
    [] m = "reviewProposal" -> {"proposal"}
    [] m = "deleteLocation" -> {"instances", "item"}
    [] OTHER -> {}

-----------------------------------------------------------------------------
(***************************************************************************)
(* The entry                                                               *)
(***************************************************************************)

Empty ==
  [data |-> Nothing, invalid |-> FALSE, old |-> FALSE, failed |-> FALSE, flight |-> Nothing]

\* `overtaken`: read before a change that was acknowledged while it was under way.
Answers == [of : Users \union {Guest}, lang : Languages, version : 0..MaxChanges,
            overtaken : BOOLEAN]
Flights == [of : Users \union {Guest}, lang : Languages,
            version : (0..MaxChanges) \union {Unread}, overtaken : BOOLEAN]

Entries == [data : Answers \union {Nothing}, invalid : BOOLEAN, old : BOOLEAN,
            failed : BOOLEAN, flight : Flights \union {Nothing}]
Savings == [what : DOMAIN Mutation, at : {"sent", "committed", "marked"}]
Dues == [left : BOOLEAN, version : 0..MaxChanges]

ASSUME NothingAssumption == Nothing \notin Answers \union Flights \union Savings \union Dues
ASSUME UnreadAssumption == Unread \notin 0..MaxChanges

CacheTypeOK ==
  /\ watched \in Queries
  /\ page \in PublicPages \union PrivatePages
  /\ user \in Users \union {Guest}
  /\ language \in Languages
  /\ fact \in 0..MaxChanges
  /\ cached \in Entries
  /\ attached \in BOOLEAN
  /\ held \in Answers \union {Nothing}
  /\ saving \in Savings \union {Nothing}
  /\ due \in Dues \union {Nothing}
  /\ due # Nothing => due.version <= fact
  /\ user = Guest => page \in PublicPages

\* Mounts, as a function.
MountsOf ==
  [p \in PublicPages \union PrivatePages |-> [u \in Users \union {Guest} |-> Mounts(p, u)]]

On(p, u) == watched \in MountsOf[p][u]
OnShow == On(page, user)

Shown ==
  IF ~OnShow \/ cached.failed THEN Nothing
  ELSE IF attached /\ cached.data # Nothing THEN cached.data
  ELSE held

AskAgain(e, u, l) ==
  [e EXCEPT !.flight = [of |-> u, lang |-> l, version |-> Unread, overtaken |-> FALSE],
            !.failed = e.failed /\ e.data # Nothing]

\* A page that opens asks for what is missing, marked or old.
Mount(e, u, l) ==
  IF e.flight # Nothing \/ (e.data # Nothing /\ ~e.invalid /\ ~e.old) THEN e
  ELSE AskAgain(e, u, l)

\* Marked by a mutation.  What is on show is asked for again, in place of a
\* request under way, unless that is the first one; other entries wait.
Marked(e) ==
  IF OnShow /\ attached
  THEN IF e.data = Nothing /\ e.flight # Nothing
       THEN [e EXCEPT !.invalid = TRUE]
       ELSE AskAgain([e EXCEPT !.invalid = TRUE], user, language)
  ELSE [e EXCEPT !.invalid = e # Empty]

Open(p, u) ==
  /\ page' = p
  /\ user' = u
  /\ cached' = IF On(p, u) THEN Mount(cached, u, language) ELSE cached
  /\ attached' = TRUE
  /\ held' = Nothing

\* Rendered again over an emptied cache; placeholders outlive it.
RenderAgain(p, u, l) ==
  /\ cached' = IF On(p, u) THEN AskAgain(Empty, u, l) ELSE Empty
  /\ attached' = TRUE
  /\ held' = IF watched \in KeepsPrevious /\ p = page /\ On(p, u) THEN Shown ELSE Nothing

CacheInit ==
  /\ watched \in Queries
  /\ page = "landing"
  /\ user = Guest
  /\ language = "uk"
  /\ fact = 0
  /\ cached = Empty
  /\ attached = TRUE
  /\ held = Nothing
  /\ saving = Nothing
  /\ due = Nothing

-----------------------------------------------------------------------------
(***************************************************************************)
(* The visitor                                                             *)
(***************************************************************************)

\* A private address leads a guest to the public one before it; the landing
\* leads an account to its overview, and the admin pages want the role.
Reaches(p, u) ==
  IF u = Guest THEN GuestPage(p)
  ELSE IF p = "landing" THEN "overview"
  ELSE IF p \in {"admin jobs", "admin users", "admin proposals"} /\ u \notin Admins
  THEN "overview" ELSE p

Navigate ==
  /\ \E p \in PublicPages \union PrivatePages :
       Reaches(p, user) # page /\ Open(Reaches(p, user), user)
  /\ UNCHANGED <<watched, language, fact, saving, due>>

\* Through the dialog, over the page it was opened on: the cache is emptied,
\* and what follows the account asks again.
SignIn ==
  /\ user = Guest
  /\ \E u \in Users :
       /\ user' = u
       /\ page' = Reaches(page, u)
       /\ IF page' # page \/ FollowsAccount(page, watched)
          THEN RenderAgain(page', u, language)
          ELSE cached' = Empty /\ attached' = FALSE /\ held' = Shown
  /\ UNCHANGED <<watched, language, fact, saving, due>>

\* Mutant of EndSession: the cache is kept for whoever comes next.
EndSessionKeepsCache ==
  /\ user # Guest
  /\ Open(GuestPage(page), Guest)
  /\ UNCHANGED <<watched, language, fact, saving, due>>

\* Signed out here or in another tab, or expired: the same, and the router
\* goes to the public page before this one, which renders everything.
EndSession ==
  /\ user # Guest
  /\ user' = Guest
  /\ page' = GuestPage(page)
  /\ RenderAgain(page', Guest, language)
  /\ UNCHANGED <<watched, language, fact, saving, due>>

\* Mutant of ChangeLanguage: the cache is left alone.
ChangeLanguageKeepsCache ==
  /\ \E l \in Languages \ {language} : language' = l
  /\ UNCHANGED <<watched, page, user, fact, observed, saving, due>>

\* In the header, or in the settings once the server has the new one.
ChangeLanguage ==
  /\ \E l \in Languages \ {language} : language' = l /\ RenderAgain(page, user, l)
  /\ UNCHANGED <<watched, page, user, fact, saving, due>>

-----------------------------------------------------------------------------
(***************************************************************************)
(* Requests                                                                *)
(***************************************************************************)

ServerReads ==
  /\ cached.flight # Nothing
  /\ cached.flight.version = Unread
  /\ cached' = [cached EXCEPT !.flight.version = fact]
  /\ UNCHANGED <<watched, visit, fact, attached, held, saving, due>>

Answered ==
  /\ cached.flight # Nothing
  /\ cached.flight.version # Unread
  /\ cached' = [Empty EXCEPT !.data = cached.flight]
  /\ held' = IF attached THEN Nothing ELSE held
  /\ due' = IF /\ due # Nothing
               /\ cached.flight.overtaken \/ cached.flight.version >= due.version
            THEN Nothing ELSE due
  /\ UNCHANGED <<watched, visit, fact, attached, saving>>

\* After the one retry: the page offers another try.
Fails ==
  /\ cached.flight # Nothing
  /\ cached' = [cached EXCEPT !.flight = Nothing, !.failed = TRUE]
  /\ held' = IF attached THEN Nothing ELSE held
  /\ UNCHANGED <<watched, visit, fact, attached, saving, due>>

TryAgain ==
  /\ OnShow /\ attached
  /\ cached.failed /\ cached.flight = Nothing
  /\ cached' = AskAgain(cached, user, language)
  /\ UNCHANGED <<watched, visit, fact, attached, held, saving, due>>

\* Thirty seconds pass; after five minutes off every page the cached is dropped.
GrowsOld ==
  /\ cached.data # Nothing
  /\ watched \notin Eternal
  /\ ~cached.old
  /\ cached' = [cached EXCEPT !.old = TRUE]
  /\ UNCHANGED <<watched, visit, fact, attached, held, saving, due>>

IsCollected ==
  /\ cached # Empty
  /\ cached.flight = Nothing
  /\ ~OnShow
  /\ cached' = Empty
  /\ UNCHANGED <<watched, visit, fact, attached, held, saving, due>>

-----------------------------------------------------------------------------
(***************************************************************************)
(* Mutations                                                               *)
(***************************************************************************)

\* Any that concerns the watched query: the others leave its cached alone.
Save ==
  /\ saving = Nothing
  /\ user # Guest
  /\ fact < MaxChanges
  /\ \E m \in DOMAIN Mutation :
       /\ watched \in Mutation[m].changes \union Mutation[m].marks
       /\ page \in Mutation[m].on
       /\ m = "reviewProposal" => user \in Admins
       /\ saving' = [what |-> m, at |-> "sent"]
  /\ UNCHANGED <<watched, visit, fact, observed, due>>

ServerCommits ==
  /\ saving # Nothing
  /\ saving.at = "sent"
  /\ fact' = IF watched \in Mutation[saving.what].changes THEN fact + 1 ELSE fact
  /\ saving' = [saving EXCEPT !.at = "committed"]
  /\ UNCHANGED <<watched, visit, observed, due>>

\* The form shows the error and marks nothing, whether the server has it or not.
SaveFails ==
  /\ saving # Nothing
  /\ saving.at \in {"sent", "committed"}
  /\ saving' = Nothing
  /\ UNCHANGED <<watched, visit, fact, observed, due>>

Overtake(e) ==
  IF e.flight # Nothing /\ e.flight.version \notin {Unread, fact}
  THEN [e EXCEPT !.flight.overtaken = TRUE] ELSE e

Acknowledged ==
  /\ saving # Nothing
  /\ saving.at = "committed"
  /\ cached' = IF watched \in Mutation[saving.what].marks
               THEN Overtake(Marked(cached)) ELSE cached
  /\ saving' = [saving EXCEPT !.at = "marked"]
  /\ due' = IF watched \in Mutation[saving.what].changes
            THEN [left |-> watched \in LeftStale(saving.what), version |-> fact] ELSE due
  /\ UNCHANGED <<watched, visit, fact, attached, held>>

\* When what was on show is back, the form closes and leads on, wherever the
\* visitor has gone by then.
Finish ==
  /\ saving # Nothing
  /\ saving.at = "marked"
  /\ watched \in Mutation[saving.what].marks /\ OnShow => cached.flight = Nothing
  /\ saving' = Nothing
  /\ IF Mutation[saving.what].to = {} THEN UNCHANGED <<page, user, observed>>
     ELSE \E p \in Mutation[saving.what].to :
            IF Reaches(p, user) = page THEN UNCHANGED <<page, user, observed>>
            ELSE Open(Reaches(p, user), user)
  /\ UNCHANGED <<watched, language, fact, due>>

CacheNext ==
  \/ Navigate \/ SignIn \/ EndSession \/ ChangeLanguage
  \/ ServerReads \/ Answered \/ Fails \/ TryAgain \/ GrowsOld \/ IsCollected
  \/ Save \/ ServerCommits \/ SaveFails \/ Acknowledged \/ Finish

CacheSpec == CacheInit /\ [][CacheNext]_cacheVars

-----------------------------------------------------------------------------
(***************************************************************************)
(* Properties                                                              *)
(***************************************************************************)

Coming == attached /\ cached.flight # Nothing

\* Nothing of an account that has left stays on a screen, for a guest or for the
\* next account: at most as a placeholder while its replacement is on the way
\* (AuthCacheReset, App.tsx:133-140; CatalogPage.tsx:123,137).
NothingOfAnother ==
  Shown # Nothing /\ Shown.of \notin {Guest, user} => Coming

\* Once a change is acknowledged, no page shows what was there before it, the
\* page it was made on, one opened later or one left and returned to: but for the
\* keys known to be left out, and for an answer read before the change that came
\* after it (COLLECTION_DEPENDENT_KEYS and its users; the settings).
ChangeIsShown ==
  Shown # Nothing /\ due # Nothing /\ ~due.left =>
    ~attached \/ Coming \/ Shown.overtaken \/ Shown.version >= due.version

\* Everything on show is in the language of the interface or about to be: no
\* query has the language in its key (LocaleCacheReset, App.tsx:101-118).
InOneLanguage ==
  Shown # Nothing /\ Shown.lang # language => Coming

\* A page a visitor stays on while signing in shows the account's own answers
\* next ("A normal sign-in keeps the user on the same page", docs/ui.md:56).
SignedInSeesOwn ==
  Shown # Nothing /\ Shown.of # user => Coming

\* "Deleting an instance or a purchase invalidates the same set of queries
\* [...], so every aggregate refreshes together" (docs/ui.md:356).
AggregatesRefresh ==
  watched \in CompletenessQueries /\ Shown # Nothing /\ due # Nothing =>
    ~attached \/ Coming \/ Shown.overtaken \/ Shown.version >= due.version
=============================================================================
