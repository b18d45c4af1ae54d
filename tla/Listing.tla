------------------------------- MODULE Listing -------------------------------
(***************************************************************************)
(* The pages that list things: the catalog, the collection, the expenses,  *)
(* the completeness groups and one group (features/catalog,                *)
(* features/collection, features/expenses, features/completeness).         *)
(*                                                                         *)
(* The filters live in the address.  A click computes the next address     *)
(* from the filters the page was last rendered with; the router renders    *)
(* the new ones in a transition of their own (Commit), and until then a    *)
(* second click, or the timer of the search box, starts from the old ones. *)
(* On a desktop the panel writes to the address at once; on a phone it     *)
(* edits a draft in a drawer, copied across by its Apply button.           *)
(*                                                                         *)
(* `series` stands for the three lists a country narrows (series,          *)
(* denominations, materials), `rest` for every filter that depends on no   *)
(* other, `sort` for field and direction.  Which view was remembered, how  *)
(* many pages an answer has and whether the narrowed lists have come yet   *)
(* is left open at each click.                                             *)
(***************************************************************************)
EXTENDS Naturals, FiniteSets

CONSTANTS
  Countries,
  Series,
  Home,       \* the country of a series
  Texts,      \* what may be typed into the search box
  NoText,     \* the empty box
  Closed,     \* no drawer
  MaxPages    \* bound: pages of results

ASSUME HomeAssumption == Home \in [Series -> Countries]
ASSUME TextAssumption == NoText \in Texts
ASSUME PagesAssumption == MaxPages \in Nat \ {0}

Screens == {"catalog", "collection", "expenses", "completeness", "group"}
Panelled == {"catalog", "collection"}   \* with a filter panel, a search and views

VARIABLES
  screen,     \* the page on show
  device,     \* "desktop" | "phone": which of bar and drawer the layout shows
  url,        \* the query string of the address
  reverted,   \* not code: a click on what is on show took back an address that
              \* had not been rendered, and no filter has been rendered since
  shown,      \* the filters the page was last rendered with
  typed,      \* the text in the search box of the panel in use
  timer,      \* the bar's 400 ms timer is running
  localPage,  \* the page of a completeness group, which is not in the address
  draft       \* what the open drawer holds

route == <<screen, device>>
address == <<url, reverted>>
panel == <<typed, timer, draft>>
vars == <<route, address, shown, panel, localPage>>

Filters == [q : Texts, countries : SUBSET Countries, series : SUBSET Series,
            rest : BOOLEAN, sort : BOOLEAN, page : 1..MaxPages,
            view : {"cards", "table"}]

Default == [q |-> NoText, countries |-> {}, series |-> {}, rest |-> FALSE,
            sort |-> FALSE, page |-> 1, view |-> "cards"]

\* The object spread {...f, ...changes}.
With(f, changes) ==
  [k \in DOMAIN f \union DOMAIN changes |-> IF k \in DOMAIN changes THEN changes[k] ELSE f[k]]

\* What equals its default stays out of the address; what is absent is default.
Serialize(f) == [k \in {k \in DOMAIN f : f[k] # Default[k]} |-> f[k]]
Parse(u) == With(Default, u)

\* A list is narrowed by one country, never by two.
Belongs(s, f) == \A c \in Countries : f.countries = {c} => Home[s] = c
Offered == {s \in Series : Belongs(s, shown)}

TypeOK ==
  /\ screen \in Screens
  /\ device \in {"desktop", "phone"}
  /\ Parse(url) \in Filters
  /\ reverted \in BOOLEAN
  /\ shown \in Filters
  /\ typed \in Texts
  /\ timer \in BOOLEAN
  /\ localPage \in 1..MaxPages
  /\ draft \in Filters \union {Closed}

\* A page is opened by a plain link, by one to a series, or by one to a country.
Links == {Default} \union {[Default EXCEPT !.series = {s}] : s \in Series}
                   \union {[Default EXCEPT !.countries = {c}] : c \in Countries}

Init ==
  /\ screen \in Screens
  /\ device \in {"desktop", "phone"}
  /\ shown \in IF screen \in Panelled THEN Links ELSE {Default}
  /\ url = Serialize(shown)
  /\ reverted = FALSE
  /\ typed = NoText
  /\ timer = FALSE
  /\ localPage = 1
  /\ draft = Closed

-----------------------------------------------------------------------------
(***************************************************************************)
(* The address                                                             *)
(***************************************************************************)

FirstPage(f) == [f EXCEPT !.page = 1]

\* Mutant of CatalogUpdate: the reset to the first page was left out.
CatalogUpdateKeepsPage(changes) == Serialize(With(shown, changes))

CatalogUpdate(changes) ==
  Serialize(With(IF "page" \in DOMAIN changes THEN shown ELSE FirstPage(shown), changes))

CollectionUpdate(changes) ==
  IF "countries" \in DOMAIN changes /\ "series" \notin DOMAIN changes
  THEN CatalogUpdate(With([series |-> {}], changes))
  ELSE CatalogUpdate(changes)

\* Of the expenses: only paging itself keeps the page.
SetFilter(changes) ==
  Serialize(With(IF "page" \in DOMAIN changes THEN shown ELSE FirstPage(shown), changes))

CompletenessUpdate(changes) == Serialize(With(shown, changes))
GroupUpdate(changes) == Serialize(With(shown, changes))

Update(changes) ==
  CASE screen = "catalog" -> CatalogUpdate(changes)
    [] screen = "collection" -> CollectionUpdate(changes)
    [] screen = "expenses" -> SetFilter(changes)
    [] screen = "completeness" -> CompletenessUpdate(changes)
    [] screen = "group" -> GroupUpdate(changes)

\* A click that asks for what is on show (the tab, the page, the option chosen)
\* navigates like any other, also when another address waits to be rendered.
Navigate(u) ==
  /\ url' = u
  /\ reverted' = (reverted \/ (u = Serialize(shown) /\ u # url))

\* Mutant of SearchAfter: the timer is not restarted when `update` changes.
SearchAfterOnce(f) ==
  /\ typed' = IF f.q # shown.q THEN f.q ELSE typed
  /\ timer' = FALSE

\* The effects of the search box: it follows the filter, and any other new
\* filters start its timer again.
SearchAfter(f) ==
  /\ typed' = IF f.q # shown.q THEN f.q ELSE typed
  /\ timer' = (f.q = shown.q /\ typed # f.q)

\* The router has rendered the address.  An open drawer has a box of its own.
Commit ==
  LET f == Parse(url) IN
  /\ f # shown
  /\ shown' = f
  /\ reverted' = FALSE
  /\ IF draft = Closed THEN SearchAfter(f) ELSE UNCHANGED <<typed, timer>>
  /\ UNCHANGED <<route, url, draft, localPage>>

\* What opens when the address says nothing of a view.
Resolved(f) ==
  IF screen \in Panelled /\ f.view = Default.view
  THEN {f, [f EXCEPT !.view = "table"]} ELSE {f}

\* The page loaded anew from its address.
Reload ==
  LET f == Parse(url) IN
  /\ shown' = f
  /\ \E g \in Resolved(f) : url' = Serialize(g)
  /\ reverted' = FALSE
  /\ typed' = f.q
  /\ timer' = FALSE
  /\ draft' = Closed
  /\ localPage' = 1
  /\ UNCHANGED route

-----------------------------------------------------------------------------
(***************************************************************************)
(* The filters: what a control, or the cross of a chip, would change       *)
(***************************************************************************)

\* A row of a multiple choice, or the row that clears it.
Toggles(chosen, options) ==
  {(chosen \union {o}) \ (chosen \intersect {o}) : o \in options} \union {{}}

\* Mutant of CatalogPanel: the lists a country narrows keep what was chosen.
PanelKeepsSeries(f) ==
  {[countries |-> cs] : cs \in Toggles(f.countries, Countries)}
  \union {[series |-> ss] : ss \in Toggles(f.series, Offered)}
  \union {[rest |-> r] : r \in BOOLEAN}

CatalogPanel(f) ==
  {[countries |-> cs, series |-> {}] : cs \in Toggles(f.countries, Countries)}
  \union {[series |-> ss] : ss \in Toggles(f.series, Offered)}
  \union {[rest |-> r] : r \in BOOLEAN}

CollectionPanel(f) == CatalogPanel(f)

PanelOf(f) == IF screen = "catalog" THEN CatalogPanel(f) ELSE CollectionPanel(f)

\* No chip for a series that is not in the list the page has.
CatalogChips(f) ==
  {[q |-> NoText] : t \in {f.q} \ {NoText}}
  \union {[countries |-> f.countries \ {c}, series |-> {}] : c \in f.countries}
  \union {[series |-> f.series \ {s}] : s \in f.series \intersect Offered}
  \union {[rest |-> FALSE] : r \in {f.rest} \ {FALSE}}

CollectionChips(f) == CatalogChips(f)

ChipsOf(f) == IF screen = "catalog" THEN CatalogChips(f) ELSE CollectionChips(f)

-----------------------------------------------------------------------------
(***************************************************************************)
(* A desktop: the bar applies at once                                      *)
(***************************************************************************)

Bar == device = "desktop" /\ screen \in Panelled

UseBar ==
  /\ Bar
  /\ \E changes \in PanelOf(shown) \union ChipsOf(shown) : Navigate(Update(changes))
  /\ UNCHANGED <<route, shown, panel, localPage>>

ResetBar ==
  /\ Bar
  /\ ChipsOf(shown) # {}
  /\ Navigate(Serialize(Default))
  /\ UNCHANGED <<route, shown, panel, localPage>>

TypeSearch ==
  /\ Bar
  /\ \E t \in Texts \ {typed} : typed' = t /\ timer' = (t # shown.q)
  /\ reverted' = FALSE
  /\ UNCHANGED <<route, url, shown, draft, localPage>>

SearchFires ==
  /\ Bar
  /\ timer
  /\ Navigate(Update([q |-> typed]))
  /\ timer' = FALSE
  /\ UNCHANGED <<route, shown, typed, draft, localPage>>

-----------------------------------------------------------------------------
(***************************************************************************)
(* A phone: the drawer and its draft.  Its timer runs whenever the box     *)
(* differs from the draft.                                                 *)
(***************************************************************************)

\* Opened from a page that has been rendered.
OpenDrawer ==
  /\ device = "phone"
  /\ screen \in Panelled
  /\ draft = Closed
  /\ url = Serialize(shown)
  /\ draft' = shown
  /\ typed' = shown.q
  /\ timer' = FALSE
  /\ UNCHANGED <<route, address, shown, localPage>>

\* The box follows the draft's text when that changes, and only then.
Redraft(f) ==
  /\ draft' = f
  /\ typed' = IF f.q # draft.q THEN f.q ELSE typed
  /\ UNCHANGED <<route, shown, timer, localPage>>

\* Mutant of EditDraft: the drawer's panel is given the page's own `update`.
EditDraftAtOnce ==
  /\ draft # Closed
  /\ \E changes \in PanelOf(draft) \union ChipsOf(draft) :
       /\ Redraft(With(draft, changes))
       /\ Navigate(Update(changes))

EditDraft ==
  /\ draft # Closed
  /\ \E changes \in PanelOf(draft) \union ChipsOf(draft) : Redraft(With(draft, changes))
  /\ UNCHANGED address

ResetDraft ==
  /\ draft # Closed
  /\ ChipsOf(draft) # {}
  /\ Redraft(Default)
  /\ UNCHANGED address

TypeDraft ==
  /\ draft # Closed
  /\ \E t \in Texts : typed' = t
  /\ UNCHANGED <<route, address, shown, timer, draft, localPage>>

DraftSearchFires ==
  /\ draft # Closed
  /\ typed # draft.q
  /\ Redraft([draft EXCEPT !.q = typed])
  /\ UNCHANGED address

\* The outside press, the cross, Escape.
CloseDrawer ==
  /\ draft # Closed
  /\ draft' = Closed
  /\ typed' = shown.q
  /\ UNCHANGED <<route, address, shown, timer, localPage>>

ApplyDraft ==
  /\ draft # Closed
  /\ Navigate(Update(draft))
  /\ draft' = Closed
  /\ typed' = shown.q
  /\ UNCHANGED <<route, shown, timer, localPage>>

-----------------------------------------------------------------------------
(***************************************************************************)
(* Around the list                                                         *)
(***************************************************************************)

\* The numbers a pager of `count` pages offers; the gaps between them are layout.
PageItems(page, count) == {1, count, page - 1, page, page + 1} \intersect (1..count)

\* There is a pager from two pages on; its arrows stop at the ends.
Pager(page, count) ==
  PageItems(page, count) \union {p \in {page - 1} : page > 1}
                         \union {p \in {page + 1} : page < count}

Reachable(page) == UNION {Pager(page, count) : count \in 2..MaxPages}

GoToPage ==
  /\ draft = Closed
  /\ screen \in {"catalog", "collection", "expenses"}
  /\ \E p \in Reachable(shown.page) : Navigate(Update([page |-> p]))
  /\ UNCHANGED <<route, shown, panel, localPage>>

GoToGroupPage ==
  /\ screen = "group"
  /\ localPage' \in Reachable(localPage)
  /\ UNCHANGED <<route, address, shown, panel>>

SwitchView ==
  /\ draft = Closed
  /\ screen \in Panelled
  /\ \E v \in {"cards", "table"} : Navigate(Update([view |-> v, page |-> shown.page]))
  /\ UNCHANGED <<route, shown, panel, localPage>>

\* The toolbar of the catalog and the collection, the headers of their tables.
SortBy ==
  /\ draft = Closed
  /\ screen \in Panelled
  /\ Navigate(Update([sort |-> ~shown.sort]))
  /\ UNCHANGED <<route, shown, panel, localPage>>

SortExpenses ==
  /\ screen = "expenses"
  /\ Navigate(Update([sort |-> ~shown.sort]))
  /\ UNCHANGED <<route, shown, panel, localPage>>

PickCategory ==
  /\ screen = "expenses"
  /\ Navigate(Update([rest |-> ~shown.rest]))
  /\ UNCHANGED <<route, shown, panel, localPage>>

\* Country, and then grouping, metal and scope, and the order of the groups.
NarrowGroups ==
  /\ screen = "completeness"
  /\ \/ \E cs \in {{}} \union {{c} : c \in Countries} : Navigate(Update([countries |-> cs]))
     \/ Navigate(Update([rest |-> ~shown.rest]))
     \/ Navigate(Update([sort |-> ~shown.sort]))
  /\ UNCHANGED <<route, shown, panel, localPage>>

FilterGroup ==
  /\ screen = "group"
  /\ \/ \E cs \in {{}} \union {{c} : c \in Countries} : Navigate(Update([countries |-> cs]))
     \/ Navigate(Update([rest |-> ~shown.rest]))
  /\ localPage' = 1
  /\ UNCHANGED <<route, shown, panel>>

Click ==
  \/ UseBar \/ ResetBar \/ TypeSearch
  \/ OpenDrawer \/ EditDraft \/ ResetDraft \/ TypeDraft \/ CloseDrawer \/ ApplyDraft
  \/ GoToPage \/ GoToGroupPage \/ SwitchView \/ SortBy
  \/ SortExpenses \/ PickCategory \/ NarrowGroups \/ FilterGroup \/ Reload

Next ==
  \/ Click \/ Commit \/ SearchFires \/ DraftSearchFires

\* A timer that runs fires, and the router renders what it was given.
Spec ==
  /\ Init
  /\ [][Next]_vars
  /\ WF_vars(Commit)
  /\ WF_vars(SearchFires)

-----------------------------------------------------------------------------
(***************************************************************************)
(* Properties                                                              *)
(***************************************************************************)

Same(f, g) == [f EXCEPT !.page = 1, !.view = "cards"] = [g EXCEPT !.page = 1, !.view = "cards"]

\* A page other than the first is only ever asked for of the filters on show:
\* in whatever order clicks, the search timer and the router come, no result of
\* other filters is opened in its middle ("Any change except paging itself starts
\* from the first page", useCatalogFilters.ts:141; the drawer is held to it by
\* AppliedFromFirstPage).
PagesOfShown ==
  device = "desktop" => Parse(url).page = 1 \/ Same(Parse(url), shown)

\* No filter of the bar narrows the list unseen: once the lists are there, every
\* series applied has a chip to remove it by, however countries and series were
\* picked and removed (FiltersPanel.tsx:103-116, CatalogPage.tsx:201-223).
NoHiddenSeries ==
  device = "desktop" => \A s \in Parse(url).series : Belongs(s, Parse(url))

\* Once the visitor stops, the filters on show and the address agree, and so does
\* the search box: no text stays in it without being searched for, although every
\* other filter re-creates `update` and stops the timer (FiltersPanel.tsx:47-54).
\* One click still loses a text: one on what is on show, between the timer and
\* the render of what it asked for, takes the address back, and nothing the box
\* depends on has changed (SearchAlwaysSettles).
SearchSettles ==
  <>[][~Click]_vars =>
    <>[](url = Serialize(shown) /\ (device = "desktop" => typed = shown.q \/ reverted))

\* While the drawer is open nothing it holds reaches the listing but by Apply,
\* and Apply copies all of it ("only Apply copies it across", CatalogPage.tsx:87-93).
OnlyApplyReachesListing ==
  [][draft # Closed /\ ~Reload =>
       url' = url \/ (draft' = Closed /\ Parse(url') = draft)]_vars

\* Without the exception: what is in the box is what is searched for.
SearchAlwaysSettles ==
  <>[][~Click]_vars => <>[](device = "desktop" => typed = shown.q)

\* "Any change except paging itself starts from the first page"
\* (useCatalogFilters.ts:141), said of the drawer's Apply as well.
AppliedFromFirstPage ==
  [][Same(Parse(url'), shown) \/ Parse(url').page = 1]_url
=============================================================================
