---------------------------- MODULE PeriodPicker ----------------------------
(***************************************************************************)
(* The "period" filter of the catalogue's and the collection's toolbar:    *)
(* one panel with three modes (a year, a range of years, a range of        *)
(* dates), the fields and the calendar of the active mode, and the country *)
(* filter next to it, which bounds the years.                              *)
(*                                                                         *)
(* On a desktop every change goes through the address, which keeps only    *)
(* what serializePeriod writes of it.  On a phone the drawer edits a draft *)
(* that "Apply" writes to the address at once.                             *)
(*                                                                         *)
(* Years and dates are numbers; No stands for an absent one.  A typed date *)
(* is a whole date or a text that parses to none: the buffers fromText and *)
(* toText are only ever written from the value, so they are no state of    *)
(* their own.                                                              *)
(***************************************************************************)
EXTENDS Integers, FiniteSets

CONSTANTS Years, Dates,         \* what may be typed or clicked
          PeriodCountries,            \* the countries of the list
          MinYear, MaxYear      \* functions: the years of a country's coins,
                                \* 0 for a country without any

ASSUME PeriodAssumption ==
    /\ Years \subseteq Nat \ {0}
    /\ Dates \subseteq Nat \ {0}
    /\ IsFiniteSet(PeriodCountries)
    /\ MinYear \in [PeriodCountries -> Nat]
    /\ MaxYear \in [PeriodCountries -> Nat]
    /\ \E c \in PeriodCountries : MinYear[c] # 0
    /\ \A c \in PeriodCountries : MinYear[c] <= MaxYear[c]

No == 0
Modes == {"year", "yearRange", "dateRange"}

Periods == [mode : Modes, year : Nat, yearFrom : Nat, yearTo : Nat,
            dateFrom : Nat, dateTo : Nat]

Empty(m) == [mode |-> m, year |-> No, yearFrom |-> No, yearTo |-> No,
             dateFrom |-> No, dateTo |-> No]

VARIABLES phone,        \* the drawer is used, not the toolbar
          url,          \* the filters the address holds and the list shows
          draft,        \* the filters the drawer edits
          drawer,       \* the drawer is open
          panel,        \* the period's panel is open
          activeField   \* the end of the range the calendar's clicks move

periodVars == <<phone, url, draft, drawer, panel, activeField>>

-----------------------------------------------------------------------------
(* The period in the address and in the request.                            *)

\* The query keys: the active mode's own fields, and the mode's name unless
\* it is the default, "yearRange".
Serialized(p) ==
    [mode     |-> IF p.mode = "yearRange" THEN "none" ELSE p.mode,
     year     |-> IF p.mode = "year" THEN p.year ELSE No,
     yearFrom |-> IF p.mode = "yearRange" THEN p.yearFrom ELSE No,
     yearTo   |-> IF p.mode = "yearRange" THEN p.yearTo ELSE No,
     dateFrom |-> IF p.mode = "dateRange" THEN p.dateFrom ELSE No,
     dateTo   |-> IF p.mode = "dateRange" THEN p.dateTo ELSE No]

\* Without a mode the years make a range: the shape of every older link.
Parsed(q) ==
    IF q.mode \in Modes THEN q
    ELSE [Empty("yearRange") EXCEPT !.yearFrom = q.yearFrom, !.yearTo = q.yearTo]

\* What the API is asked for: the active mode's own values and no other.
ApiParams(p) ==
    [yearFrom |-> IF p.mode = "year" THEN p.year
                  ELSE IF p.mode = "yearRange" THEN p.yearFrom ELSE No,
     yearTo   |-> IF p.mode = "year" THEN p.year
                  ELSE IF p.mode = "yearRange" THEN p.yearTo ELSE No,
     dateFrom |-> IF p.mode = "dateRange" THEN p.dateFrom ELSE No,
     dateTo   |-> IF p.mode = "dateRange" THEN p.dateTo ELSE No]

HasValue(p) == \E f \in {"year", "yearFrom", "yearTo", "dateFrom", "dateTo"} : p[f] # No

-----------------------------------------------------------------------------
(* The bounds of the chosen countries.                                      *)

Known(chosen) == {c \in chosen : MinYear[c] # No}

\* The chosen countries' own years when they have any coins, else all.
Considered(chosen) == IF Known(chosen) # {} THEN Known(chosen) ELSE Known(PeriodCountries)

Bounds(chosen) ==
    [min |-> CHOOSE y \in {MinYear[c] : c \in Considered(chosen)} :
                 \A c \in Considered(chosen) : y <= MinYear[c],
     max |-> CHOOSE y \in {MaxYear[c] : c \in Considered(chosen)} :
                 \A c \in Considered(chosen) : MaxYear[c] <= y]

ClampYear(y, b) ==
    IF y = No THEN No ELSE IF y < b.min THEN b.min ELSE IF y > b.max THEN b.max ELSE y

\* Only the fields of the active mode follow the country.
ClampPeriod(p, b) ==
    IF p.mode = "year" THEN [p EXCEPT !.year = ClampYear(@, b)]
    ELSE IF p.mode = "yearRange"
    THEN [p EXCEPT !.yearFrom = ClampYear(@, b), !.yearTo = ClampYear(@, b)]
    ELSE p

-----------------------------------------------------------------------------
(* What a change writes to.                                                 *)

\* The filters the visible panel shows and edits.
Shown == IF drawer THEN draft ELSE url

\* The panel of a closed drawer is not there, nor the toolbar on a phone.
Editable == drawer \/ ~phone

\* The effect of a range that was emptied: the next click sets its start.
FieldAfter(p, f) ==
    IF p.dateFrom = No /\ p.dateTo = No
       /\ (Shown.period.dateFrom # No \/ Shown.period.dateTo # No)
    THEN "dateFrom" ELSE f

Store(filters) ==
    IF drawer THEN draft' = filters /\ UNCHANGED url
    ELSE url' = [filters EXCEPT !.period = Parsed(Serialized(@))] /\ draft' = url'

\* onChange(period) of the panel; f is the field the handler leaves active.
Change(p, f) ==
    /\ Store([Shown EXCEPT !.period = p])
    /\ activeField' = FieldAfter(IF drawer THEN p ELSE Parsed(Serialized(p)), f)
    /\ UNCHANGED <<phone, drawer, panel>>

PeriodInit ==
    /\ phone \in BOOLEAN
    /\ url = [countries |-> {}, period |-> Empty("yearRange")]
    /\ draft = url
    /\ drawer = FALSE
    /\ panel = FALSE
    /\ activeField = "dateFrom"

-----------------------------------------------------------------------------
(* The panel.                                                               *)

ClickPeriod ==
    /\ Editable
    /\ panel' = ~panel
    /\ UNCHANGED <<phone, url, draft, drawer, activeField>>

PressOutsidePeriod ==
    /\ panel
    /\ panel' = FALSE
    /\ UNCHANGED <<phone, url, draft, drawer, activeField>>

\* Escape is heard by the panel and by the drawer around it.  A closed
\* drawer's draft is overwritten when it opens: it is forgotten here.
EscapePeriod ==
    /\ panel \/ drawer
    /\ panel' = FALSE
    /\ drawer' = FALSE
    /\ draft' = url
    /\ UNCHANGED <<phone, url, activeField>>

PickMode(m) ==
    /\ panel /\ Editable
    /\ m # Shown.period.mode
    /\ Change([Shown.period EXCEPT !.mode = m], activeField)

\* A field of years: free text, of which a positive number is kept.
TypeYear(f, y) ==
    /\ panel /\ Editable
    /\ IF f = "year" THEN Shown.period.mode = "year" ELSE Shown.period.mode = "yearRange"
    /\ y # Shown.period[f]
    /\ Change([Shown.period EXCEPT ![f] = y], activeField)

\* A date field: the keyboard comes to it, so it is the active one.  A whole
\* date or an empty text is stored, any other text changes nothing.
TypeDate(f, d) ==
    /\ panel /\ Editable
    /\ Shown.period.mode = "dateRange"
    /\ Change([Shown.period EXCEPT ![f] = d], f)

FocusDate(f) ==
    /\ panel /\ Editable
    /\ Shown.period.mode = "dateRange"
    /\ f # activeField
    /\ activeField' = f
    /\ UNCHANGED <<phone, url, draft, drawer, panel>>

\* A click in the calendar moves the active end.  An end before the start
\* swaps them; a start past the end begins a range anew.
DayClick(d) ==
    LET p == Shown.period IN
    /\ panel /\ Editable
    /\ p.mode = "dateRange"
    /\ IF activeField = "dateTo"
       THEN IF p.dateFrom # No /\ d < p.dateFrom
            THEN Change([p EXCEPT !.dateFrom = d, !.dateTo = p.dateFrom], "dateTo")
            ELSE Change([p EXCEPT !.dateTo = d], "dateTo")
       ELSE IF p.dateTo # No /\ d > p.dateTo
            THEN Change([p EXCEPT !.dateFrom = d, !.dateTo = No], "dateTo")
            ELSE Change([p EXCEPT !.dateFrom = d],
                        IF p.dateTo = No THEN "dateTo" ELSE "dateFrom")

\* The panel's last row.
ClearPeriod ==
    /\ panel /\ Editable
    /\ HasValue(Shown.period)
    /\ Change(Empty(Shown.period.mode), activeField)

-----------------------------------------------------------------------------
(* Around the panel.  A press on any of these closes it.                    *)

\* The country menu: the years follow the new choice.
ToggleCountry(c) ==
    LET chosen == IF c \in Shown.countries THEN Shown.countries \ {c}
                  ELSE Shown.countries \cup {c}
        p == ClampPeriod(Shown.period, Bounds(chosen))
    IN /\ Editable
       /\ Store([countries |-> chosen, period |-> p])
       /\ activeField' = FieldAfter(IF drawer THEN p ELSE Parsed(Serialized(p)), activeField)
       /\ panel' = FALSE
       /\ UNCHANGED <<phone, drawer>>

\* A country's chip takes the country out and leaves the years alone.
RemoveCountryChip(c) ==
    /\ Editable
    /\ c \in Shown.countries
    /\ Store([Shown EXCEPT !.countries = @ \ {c}])
    /\ panel' = FALSE
    /\ UNCHANGED <<phone, drawer, activeField>>

\* The period's chip, there while any value of it is set.
RemovePeriodChip ==
    LET p == Empty(Shown.period.mode) IN
    /\ Editable
    /\ HasValue(Shown.period)
    /\ Store([Shown EXCEPT !.period = p])
    /\ activeField' = FieldAfter(p, activeField)
    /\ panel' = FALSE
    /\ UNCHANGED <<phone, drawer>>

ResetFilters ==
    LET none == [countries |-> {}, period |-> Empty("yearRange")] IN
    /\ Editable
    /\ Store(none)
    /\ activeField' = FieldAfter(none.period, activeField)
    /\ panel' = FALSE
    /\ UNCHANGED <<phone, drawer>>

\* The drawer's panels are mounted anew on the applied filters.
OpenDrawer ==
    /\ phone /\ ~drawer
    /\ drawer' = TRUE
    /\ draft' = url
    /\ panel' = FALSE
    /\ activeField' = "dateFrom"
    /\ UNCHANGED <<phone, url>>

CloseDrawer ==
    /\ drawer
    /\ drawer' = FALSE
    /\ panel' = FALSE
    /\ draft' = url
    /\ UNCHANGED <<phone, url, activeField>>

ApplyDraft ==
    /\ drawer
    /\ url' = [draft EXCEPT !.period = Parsed(Serialized(@))]
    /\ drawer' = FALSE
    /\ panel' = FALSE
    /\ draft' = url'
    /\ UNCHANGED <<phone, activeField>>

PeriodNext ==
    \/ ClickPeriod \/ PressOutsidePeriod \/ EscapePeriod
    \/ \E m \in Modes : PickMode(m)
    \/ \E f \in {"year", "yearFrom", "yearTo"}, y \in Years \cup {No} : TypeYear(f, y)
    \/ \E f \in {"dateFrom", "dateTo"} :
           FocusDate(f) \/ \E d \in Dates \cup {No} : TypeDate(f, d)
    \/ \E d \in Dates : DayClick(d)
    \/ ClearPeriod \/ RemovePeriodChip \/ ResetFilters
    \/ \E c \in PeriodCountries : ToggleCountry(c) \/ RemoveCountryChip(c)
    \/ OpenDrawer \/ CloseDrawer \/ ApplyDraft

PeriodSpec == PeriodInit /\ [][PeriodNext]_periodVars

-----------------------------------------------------------------------------
(* Properties.                                                              *)

\* The type of the filter's state.
PeriodTypeOK ==
    /\ phone \in BOOLEAN /\ drawer \in BOOLEAN /\ panel \in BOOLEAN
    /\ url \in [countries : SUBSET PeriodCountries, period : Periods]
    /\ draft \in [countries : SUBSET PeriodCountries, period : Periods]
    /\ activeField \in {"dateFrom", "dateTo"}

\* A range of the calendar is in order, or not whole.
InOrder(p) == p.dateFrom # No /\ p.dateTo # No => p.dateFrom <= p.dateTo

\* Whatever was typed before, a click in the calendar leaves a range whose
\* start is not after its end: the list would silently be empty.
ClicksOrder == [][(\E d \in Dates : DayClick(d)) => InOrder(Shown'.period)]_periodVars

\* Neither the trip through the address nor the values the other modes keep
\* in a draft change what is asked: the list a link or a reload shows, and
\* the one "Apply" leads to, is the one the fields describe.
AsksWhatIsShown ==
    \A p \in {url.period, draft.period} : ApiParams(Parsed(Serialized(p))) = ApiParams(p)

\* A change of the country menu leaves no year asked for that the chosen
\* countries have no coins of.
YearsFollowCountry ==
    [][(\E c \in PeriodCountries : ToggleCountry(c)) =>
           LET asks == ApiParams(Shown'.period)
               b == Bounds(Shown'.countries)
           IN \A y \in {asks.yearFrom, asks.yearTo} \ {No} : b.min <= y /\ y <= b.max]_periodVars

=============================================================================
