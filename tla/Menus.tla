------------------------------- MODULE Menus -------------------------------
(***************************************************************************)
(* The two drop-down menus every form and filter of the site is built      *)
(* from: Select, which takes one option and closes, and MultiSelect, which *)
(* switches options on and off and stays open.  Both keep the same three   *)
(* pieces of state (open, query, activeIndex) and move them from clicks,   *)
(* keys, the mouse passing over a row, and effects that run after the      *)
(* render a change causes.                                                 *)
(*                                                                         *)
(* Options are their positions 1..Count.  Rows are counted from 1, so the  *)
(* code's activeIndex is `active` - 1; what a needle finds is given by     *)
(* Found.  A key, a click and the effects that follow it are one step:     *)
(* React flushes them before the next event of the user.                   *)
(***************************************************************************)
EXTENDS Integers, Sequences, FiniteSets

CONSTANTS Count,        \* how many options the menu has
          Needles,      \* what may be typed in its search box
          Found(_),     \* the options a needle finds
          Barred        \* the options that are disabled

ASSUME MenusAssumption ==
    /\ Count \in Nat \ {0}
    /\ Barred \subseteq 1..Count
    /\ \A n \in Needles : Found(n) \subseteq 1..Count

VARIABLES menuKind,         \* "select" or "multi"
          searchable,   \* whether the menu has a search box
          menuOpen, query, active,
          value,        \* Select's value, 0 when no option has it
          values,       \* MultiSelect's value, in the order it was chosen
          focus         \* where the keyboard is

menuVars == <<menuKind, searchable, menuOpen, query, active, value, values, focus>>

NoQuery == "blank"
Options == 1..Count
Smaller(a, b) == IF a < b THEN a ELSE b
Larger(a, b) == IF a < b THEN b ELSE a

\* Array.prototype.filter, of the elements that are in `these`.
Filter(array, these) ==
    LET kept[n \in 0..Len(array)] ==
          IF n = 0 THEN << >>
          ELSE IF array[n] \in these THEN Append(kept[n - 1], array[n]) ELSE kept[n - 1]
    IN kept[Len(array)]

-----------------------------------------------------------------------------
(* What the open menu lists, and where its highlight may stand.             *)

\* The rows: every option, or those the search box finds.
Filtered(q) ==
    Filter([i \in Options |-> i],
           IF q = NoQuery \/ ~searchable THEN Options ELSE Found(q))

MenuRows == Filtered(query)

\* The effect that keeps the highlight inside a list that got shorter.
Clamped(row, rows) == Smaller(row, Larger(Len(rows), 1))

\* The row of an option in a list, the first when it is not there.
RowOf(option, rows) ==
    IF \E r \in DOMAIN rows : rows[r] = option
    THEN CHOOSE r \in DOMAIN rows : rows[r] = option
    ELSE 1

MenuInit ==
    /\ menuKind \in {"select", "multi"}
    /\ searchable \in BOOLEAN
    /\ menuOpen = FALSE
    /\ query = NoQuery
    /\ active = 1
    /\ value \in IF menuKind = "select" THEN Options \cup {0} ELSE {0}
    /\ values = << >>
    /\ focus = "away"

-----------------------------------------------------------------------------
(* Opening and closing.                                                     *)

\* The effects of opening: the search box is emptied and the highlight set.
\* Select looks its value up in the rows as they were rendered, which are
\* those of the former search.
MenuOpened ==
    /\ menuOpen' = TRUE
    /\ query' = NoQuery
    /\ active' = IF menuKind = "select" THEN Clamped(RowOf(value, MenuRows), MenuRows) ELSE 1
    /\ focus' = IF searchable THEN "search" ELSE "list"

ClickTrigger ==
    /\ IF menuOpen
       THEN /\ menuOpen' = FALSE
            /\ focus' = "trigger"
            /\ UNCHANGED <<query, active>>
       ELSE MenuOpened
    /\ UNCHANGED <<menuKind, searchable, value, values>>

\* ArrowDown, ArrowUp or Enter on Select's button; on MultiSelect's only the
\* click that Enter makes, which is ClickTrigger.
TriggerKey ==
    /\ menuKind = "select"
    /\ focus = "trigger"
    /\ IF menuOpen THEN UNCHANGED <<menuOpen, query, active, focus>> ELSE MenuOpened
    /\ UNCHANGED <<menuKind, searchable, value, values>>

\* The keyboard comes to the button from elsewhere on the page.
TabToTrigger ==
    /\ ~menuOpen
    /\ focus = "away"
    /\ focus' = "trigger"
    /\ UNCHANGED <<menuKind, searchable, menuOpen, query, active, value, values>>

\* A pointer pressed outside the menu.
PressOutside ==
    /\ menuOpen' = FALSE
    /\ focus' = "away"
    /\ menuOpen \/ focus # "away"
    /\ UNCHANGED <<menuKind, searchable, query, active, value, values>>

\* Where handleListKeyDown hears a key: in the search box, or on the list of
\* a menu that has none.
ListHears == menuOpen /\ focus = IF searchable THEN "search" ELSE "list"

\* Escape is heard by the document, wherever the keyboard is; only the list's
\* own handler gives the keyboard back to the button.
EscapeMenu ==
    /\ menuOpen
    /\ menuOpen' = FALSE
    /\ focus' = IF ListHears THEN "trigger" ELSE IF focus = "list" THEN "away" ELSE focus
    /\ UNCHANGED <<menuKind, searchable, query, active, value, values>>

TabAway ==
    /\ ListHears
    /\ menuOpen' = FALSE
    /\ focus' = "away"
    /\ UNCHANGED <<menuKind, searchable, query, active, value, values>>

-----------------------------------------------------------------------------
(* Searching and moving the highlight.                                      *)

\* A key in the search box.  The clamp runs when the number of rows changed.
Search(q) ==
    /\ menuOpen /\ searchable /\ focus = "search"
    /\ q # query
    /\ query' = q
    /\ active' = IF Len(Filtered(q)) = Len(MenuRows) THEN active
                 ELSE Clamped(active, Filtered(q))
    /\ UNCHANGED <<menuKind, searchable, menuOpen, value, values, focus>>

MoveActive(delta) ==
    /\ ListHears
    /\ MenuRows # << >>
    /\ active' = LET next == active + delta
                 IN IF next < 1 THEN Len(MenuRows)
                    ELSE IF next > Len(MenuRows) THEN 1 ELSE next
    /\ UNCHANGED <<menuKind, searchable, menuOpen, query, value, values, focus>>

\* Home, and End, which on an empty list leaves the highlight before the
\* first row.
JumpTo(row) ==
    /\ ListHears
    /\ row \in {1, Len(MenuRows)}
    /\ active' = row
    /\ UNCHANGED <<menuKind, searchable, menuOpen, query, value, values, focus>>

Hover(row) ==
    /\ menuOpen
    /\ row \in DOMAIN MenuRows
    /\ active' = row
    /\ UNCHANGED <<menuKind, searchable, menuOpen, query, value, values, focus>>

-----------------------------------------------------------------------------
(* Choosing.                                                                *)

Select(option) ==
    /\ option \notin Barred
    /\ value' = option
    /\ menuOpen' = FALSE
    /\ focus' = "trigger"
    /\ UNCHANGED values

\* Mutant of ToggleOption: what the search hides is dropped from the choice.
ToggleShown(option) ==
    /\ values' = IF option \in {values[i] : i \in DOMAIN values}
                 THEN Filter(values, Options \ {option})
                 ELSE LET shown == {MenuRows[r] : r \in DOMAIN MenuRows}
                      IN Append(Filter(values, shown), option)
    /\ UNCHANGED <<menuOpen, value>>

ToggleOption(option) ==
    /\ values' = IF option \in {values[i] : i \in DOMAIN values}
                 THEN Filter(values, Options \ {option})
                 ELSE Append(values, option)
    /\ UNCHANGED <<menuOpen, value>>

\* Enter or Space: in a search box Space chooses too, and is never typed.
EnterKey ==
    /\ ListHears
    /\ active \in DOMAIN MenuRows
    /\ \/ menuKind = "select" /\ Select(MenuRows[active])
       \/ menuKind = "multi" /\ ToggleOption(MenuRows[active]) /\ UNCHANGED focus
    /\ UNCHANGED <<menuKind, searchable, query, active>>

\* A click on a row.  The mouse is over it, and the press moves the keyboard
\* to the list, which in a menu with a search box hears no key.
ClickRow(row) ==
    /\ menuOpen
    /\ row \in DOMAIN MenuRows
    /\ active' = row
    /\ \/ menuKind = "select" /\ Select(MenuRows[row])
       \/ menuKind = "multi" /\ ToggleOption(MenuRows[row]) /\ focus' = "list"
    /\ UNCHANGED <<menuKind, searchable, query>>

\* MultiSelect's first row, there while something is chosen.
ClearAll ==
    /\ menuKind = "multi" /\ menuOpen
    /\ values # << >>
    /\ values' = << >>
    /\ focus' = "away"
    /\ UNCHANGED <<menuKind, searchable, menuOpen, query, active, value>>

MenuNext ==
    \/ ClickTrigger \/ TriggerKey \/ TabToTrigger
    \/ PressOutside \/ EscapeMenu \/ TabAway
    \/ \E q \in Needles \cup {NoQuery} : Search(q)
    \/ \E delta \in {-1, 1} : MoveActive(delta)
    \/ \E row \in 0..Count : JumpTo(row)
    \/ \E row \in Options : Hover(row) \/ ClickRow(row)
    \/ EnterKey \/ ClearAll

MenuSpec == MenuInit /\ [][MenuNext]_menuVars

-----------------------------------------------------------------------------
(* Properties.                                                              *)

\* The type of the menu's state.
MenuTypeOK ==
    /\ menuKind \in {"select", "multi"}
    /\ searchable \in BOOLEAN
    /\ menuOpen \in BOOLEAN
    /\ query \in Needles \cup {NoQuery}
    /\ active \in 0..Count
    /\ value \in Options \cup {0}
    /\ values \in Seq(Options)
    /\ focus \in {"trigger", "search", "list", "away"}

\* Whatever was searched for before, a menu opens on its whole list: a search
\* left over from the last time would hide options for no visible reason.
OpensWhole == [][~menuOpen /\ menuOpen' => MenuRows' = [i \in Options |-> i]]_menuVars

\* A choice changes by one option that the list shows, or is cleared by its
\* own row: what a search hides stays chosen, nothing is chosen twice, and a
\* disabled option is never taken.
ChoosesOne ==
    [][/\ value' # value => value' \notin Barred
       /\ values' # values =>
            LET was == {values[i] : i \in DOMAIN values}
                is  == {values'[i] : i \in DOMAIN values'}
            IN /\ Len(values') = Cardinality(is)
               /\ \/ is = {}
                  \/ \E option \in {MenuRows[r] : r \in DOMAIN MenuRows} :
                         \/ option \notin was /\ is = was \cup {option}
                         \/ option \in was /\ is = was \ {option}
      ]_menuVars

=============================================================================
