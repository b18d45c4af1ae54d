--------------------------- MODULE ExpensesJournal ---------------------------
(***************************************************************************)
(* The table of the Money page (features/expenses/ExpensesPage.tsx): the   *)
(* pencil that opens an expense in a modal form, the bins that ask before  *)
(* an expense or a purchase is deleted, the requests they send, and the    *)
(* drafts (features/auth/sessionDrafts.ts) that bring an open form back    *)
(* after the session expired.                                              *)
(*                                                                         *)
(* A row, and a form, is abstracted to one wording.  The page's two        *)
(* mutations and that of DeleteInstanceDialog belong to a visit: each is   *)
(* pending from its request to the end of the refetch its answer asks for, *)
(* and the answer to a request of an earlier visit finds no dialog to      *)
(* close.                                                                  *)
(* The filters, the order and the pages of the table are in Listing; the   *)
(* drafts of one account meeting another account are in AuthDialog, and    *)
(* here it is the same account that signs in again.                        *)
(***************************************************************************)
EXTENDS FiniteSets, Integers

CONSTANTS Expenses,     \* rows entered by hand
          Bought,       \* rows of purchases, deleted with their coin
          Wordings,     \* what a row may say
          Gone, Shut, Unknown,
          MaxCalls,     \* bound: requests the visitor sends
          MaxExits      \* bound: how often the page is left

Entries == Expenses \cup Bought
DialogKinds == {"edit", "delete", "deleteCoin"}
Dialogs == {Shut} \cup [kind : DialogKinds, row : Entries]
DraftKeys == {"editor"} \cup Expenses

ASSUME JournalAssumption ==
    /\ Expenses \cap Bought = {} /\ "editor" \notin Expenses
    /\ {Gone, Unknown} \cap Wordings = {} /\ {Shut, Unknown} \cap Entries = {}
    /\ Shut \notin [kind : DialogKinds, row : Entries] \cup [row : Expenses, text : Wordings]
    /\ MaxCalls \in Nat /\ MaxExits \in Nat

VARIABLES journal,          \* the server's rows
          listed,           \* the rows as the page last read them
          reader,           \* for whom the list is being read
          where,            \* the page, another one, or the guest's side
          open,             \* editor, deleting, deletingPurchase: at most one
          typing,           \* fields of the form
          calls,            \* requests under way
          callsSent, exits,
          drafts,           \* the state of sessionDrafts.ts
          \* not code:
          reported,         \* what the page was last told a row had been saved as
          unreported,       \* rows the server has since changed without telling it
          taken             \* the form an expiry took away

journalVars ==
    <<journal, listed, reader, where, open, typing, calls, callsSent, exits, drafts,
      reported, unreported, taken>>
told == <<reported, unreported>>

Calls == [n : 1..MaxCalls, kind : DialogKinds, row : Entries, text : Wordings \cup {Unknown},
          mine : BOOLEAN, stage : {"sent", "lost", "applied", "answered"}]

JournalTypeOK ==
    /\ journal \in [Entries -> Wordings \cup {Gone}]
    /\ listed \in [Entries -> Wordings \cup {Gone}]
    /\ reader \in DialogKinds \cup {"page", "nobody"}
    /\ where \in {"journal", "elsewhere", "signed out"}
    /\ open \in Dialogs /\ typing \in Wordings \cup {Unknown}
    /\ calls \subseteq Calls /\ callsSent \in 0..MaxCalls /\ exits \in 0..MaxExits
    /\ drafts \in [of : [DraftKeys -> Wordings \cup Expenses \cup {Shut, Unknown}],
                   recoverable : SUBSET DraftKeys, retaining : BOOLEAN, owned : BOOLEAN]
    /\ reported \in [Expenses -> Wordings \cup {Unknown}]
    /\ unreported \subseteq Expenses
    /\ taken \in {Shut} \cup [row : Expenses, text : Wordings]

NothingListed == [x \in Entries |-> Gone]
NothingReported == [e \in Expenses |-> Unknown]

-----------------------------------------------------------------------------
(* Session drafts: Unknown is a key without a draft.                        *)

NoDrafts(someone) == [of |-> [k \in DraftKeys |-> Unknown], recoverable |-> {},
                      retaining |-> FALSE, owned |-> someone]

\* Mutant of OwnedAgain: the drafts of the forms that close are kept from now on.
OwnedAgainStillRetaining(d) == IF d.owned THEN d ELSE NoDrafts(TRUE)

\* setDraftOwner of the account the drafts have, if they have one.
OwnedAgain(d) == IF d.owned THEN [d EXCEPT !.retaining = FALSE] ELSE NoDrafts(TRUE)

RetainDrafts(d) ==
    [d EXCEPT !.retaining = TRUE,
              !.recoverable = @ \cup {k \in DraftKeys : d.of[k] # Unknown}]

DraftRead(d, k) == IF k \in d.recoverable THEN d.of[k] ELSE Unknown

DraftWritten(d, k, value) ==
    [d EXCEPT !.of[k] = IF d.owned THEN value ELSE @, !.recoverable = @ \ {k}]

DraftReleased(d, k) ==
    IF d.retaining THEN d ELSE [d EXCEPT !.of[k] = Unknown, !.recoverable = @ \ {k}]

Edits(dialog) == dialog # Shut /\ dialog.kind = "edit"

\* The form of the row comes, or goes, and then the page's own draft changes.
FormMounted(d, e, says) == DraftWritten(DraftWritten(d, e, says), "editor", e)
FormUnmounted(d) ==
    IF Edits(open) THEN DraftWritten(DraftReleased(d, open.row), "editor", Shut) ELSE d

-----------------------------------------------------------------------------
(* Coming and going.                                                        *)

\* The page opens with the list it finds cached and asks for a new one; the
\* editor an expiry took away opens with it.
Mounted(d) ==
    LET editor == DraftRead(d, "editor")
        back == editor \in Expenses
        kept == IF back THEN DraftRead(d, editor) ELSE Unknown
        says == IF back /\ kept = Unknown THEN listed[editor] ELSE kept IN
    /\ where' = "journal"
    /\ reader' = "page"
    /\ open' = IF back THEN [kind |-> "edit", row |-> editor] ELSE Shut
    /\ typing' = says
    /\ drafts' = IF back THEN FormMounted(d, editor, says) ELSE DraftWritten(d, "editor", Shut)
    /\ taken' = Shut

\* The page goes: its mutations have no observer any more.
Unmounted ==
    /\ exits < MaxExits /\ exits' = exits + 1
    /\ open' = Shut /\ typing' = Unknown /\ reader' = "nobody"
    /\ calls' = {[c EXCEPT !.mine = FALSE] : c \in calls}
    /\ reported' = NothingReported /\ unreported' = {}
    /\ UNCHANGED <<journal, callsSent>>

JournalInit ==
    /\ journal \in [Entries -> Wordings]
    /\ listed = NothingListed
    /\ reader = "nobody" /\ where = "elsewhere" /\ open = Shut /\ typing = Unknown
    /\ calls = {} /\ callsSent = 0 /\ exits = 0
    /\ drafts = NoDrafts(TRUE)
    /\ reported = NothingReported /\ unreported = {} /\ taken = Shut

OpenJournal ==
    /\ where = "elsewhere"
    /\ Mounted(drafts)
    /\ UNCHANGED <<journal, listed, calls, callsSent, exits, told>>

\* A link, the pencil of a purchase, Back: the drafts of what was open go.
LeaveJournal ==
    /\ where = "journal"
    /\ where' = "elsewhere"
    /\ drafts' = DraftReleased(FormUnmounted(drafts), "editor")
    /\ Unmounted
    /\ UNCHANGED <<listed, taken>>

\* The drafts are marked first; then ProtectedRoute takes the page away.
ExpireOnJournal ==
    /\ where = "journal"
    /\ where' = "signed out"
    /\ drafts' = RetainDrafts(drafts)
    /\ taken' = IF Edits(open) THEN [row |-> open.row, text |-> typing] ELSE Shut
    /\ listed' = NothingListed
    /\ Unmounted

ExpireElsewhere ==
    /\ where = "elsewhere" /\ exits < MaxExits
    /\ where' = "signed out"
    /\ drafts' = RetainDrafts(drafts)
    /\ listed' = NothingListed
    /\ exits' = exits + 1
    /\ UNCHANGED <<journal, reader, open, typing, calls, callsSent, told, taken>>

LeaveSession ==
    /\ where = "journal"
    /\ where' = "signed out"
    /\ drafts' = NoDrafts(FALSE)
    /\ taken' = Shut
    /\ listed' = NothingListed
    /\ Unmounted

\* The dialog resumes where the session ended, or the visitor goes elsewhere.
SignInAgain ==
    /\ where = "signed out"
    /\ \/ Mounted(OwnedAgain(drafts))
       \/ /\ where' = "elsewhere" /\ drafts' = OwnedAgain(drafts)
          /\ UNCHANGED <<reader, open, typing, taken>>
    /\ UNCHANGED <<journal, listed, calls, callsSent, exits, told>>

-----------------------------------------------------------------------------
(* The dialogs.                                                             *)

\* Mutant of Pending: a form does not know of the save another one sent.
PendingOfOpen(kind) == FALSE

\* isPending of a mutation of this visit
Pending(kind) == \E c \in calls : c.mine /\ c.kind = kind

PressPencil(e) ==
    /\ where = "journal" /\ open = Shut /\ listed[e] # Gone
    /\ LET kept == DraftRead(drafts, e)
           says == IF kept = Unknown THEN listed[e] ELSE kept IN
       /\ typing' = says
       /\ drafts' = FormMounted(drafts, e, says)
    /\ open' = [kind |-> "edit", row |-> e]
    /\ UNCHANGED <<journal, listed, reader, where, calls, callsSent, exits, told, taken>>

PressBin(x) ==
    /\ where = "journal" /\ open = Shut /\ listed[x] # Gone
    /\ open' = [kind |-> IF x \in Bought THEN "deleteCoin" ELSE "delete", row |-> x]
    /\ UNCHANGED <<journal, listed, reader, where, typing, calls, callsSent, exits,
                   drafts, told, taken>>

SetField(says) == typing' = says /\ drafts' = DraftWritten(drafts, open.row, says)

TypeInForm ==
    /\ Edits(open)
    /\ \E says \in Wordings \ {typing} : SetField(says)
    /\ UNCHANGED <<journal, listed, reader, where, open, calls, callsSent, exits,
                   told, taken>>

\* What a form or a question leaves behind when it closes.
Closed ==
    /\ open' = Shut
    /\ typing' = Unknown
    /\ drafts' = FormUnmounted(drafts)

\* The cross, Escape and the backdrop close while a request is under way.
CloseJournalDialog ==
    /\ open # Shut
    /\ Closed
    /\ UNCHANGED <<journal, listed, reader, where, calls, callsSent, exits, told, taken>>

\* Save, or Delete: the button is disabled while its mutation is pending.
ConfirmDialog ==
    /\ open # Shut /\ ~ Pending(open.kind)
    /\ callsSent < MaxCalls /\ callsSent' = callsSent + 1
    /\ calls' = calls \cup {[n |-> callsSent + 1, kind |-> open.kind, row |-> open.row,
                             text |-> typing, mine |-> TRUE, stage |-> "sent"]}
    /\ UNCHANGED <<journal, listed, reader, where, open, typing, exits, drafts, told, taken>>

-----------------------------------------------------------------------------
(* The requests.                                                            *)

Moved(c, stage) == (calls \ {c}) \cup {[c EXCEPT !.stage = stage]}

\* The page still awaits the answer, or nobody does: the request was sent on an
\* earlier visit, or its connection broke.
ServerApplies(c) ==
    /\ c.stage \in {"sent", "lost"} /\ journal[c.row] # Gone
    /\ journal' = [journal EXCEPT ![c.row] = IF c.kind = "edit" THEN c.text ELSE Gone]
    /\ calls' = IF c.stage = "lost" THEN calls \ {c} ELSE Moved(c, "applied")
    /\ unreported' = IF c.mine THEN unreported \ {c.row}
                     ELSE unreported \cup ({c.row} \cap Expenses)
    /\ UNCHANGED <<listed, reader, where, open, typing, callsSent, exits, drafts, reported,
                   taken>>

\* Refused; or the connection breaks before the server has the request, which it
\* may still have, or before the page has the answer.  The dialog stays, with an
\* error.
CallFails(c) ==
    /\ c.stage \in {"sent", "applied"}
    /\ \/ calls' = calls \ {c}
       \/ /\ c.stage = "sent"
          /\ calls' = (calls \ {c}) \cup {[c EXCEPT !.mine = FALSE, !.stage = "lost"]}
    /\ unreported' = IF c.mine /\ c.stage = "applied"
                     THEN unreported \cup ({c.row} \cap Expenses) ELSE unreported
    /\ UNCHANGED <<journal, listed, reader, where, open, typing, callsSent, exits, drafts,
                   reported, taken>>

\* onSuccess asks for the list again; without the page nothing is read.
CallAnswered(c) ==
    /\ c.stage = "applied"
    /\ IF c.mine THEN calls' = Moved(c, "answered") ELSE calls' = calls \ {c}
    /\ reported' = IF c.mine /\ c.kind = "edit" THEN [reported EXCEPT ![c.row] = c.text]
                   ELSE reported
    /\ reader' = IF where # "journal" THEN reader ELSE IF c.mine THEN c.kind ELSE "page"
    /\ UNCHANGED <<journal, listed, where, open, typing, callsSent, exits, drafts, unreported,
                   taken>>

ListIsRead ==
    /\ reader # "nobody"
    /\ reader' = "nobody"
    /\ listed' \in {journal, listed}       \* the query may fail
    /\ UNCHANGED <<journal, where, open, typing, calls, callsSent, exits, drafts, told, taken>>

\* The refetch is over: setEditor, setDeleting or onClose, whatever row the
\* dialog of that kind is about by now.
CallFinished(c) ==
    /\ c.stage = "answered" /\ reader # c.kind
    /\ calls' = calls \ {c}
    /\ IF c.mine /\ open # Shut /\ open.kind = c.kind THEN Closed
       ELSE UNCHANGED <<open, typing, drafts>>
    /\ UNCHANGED <<journal, listed, reader, where, callsSent, exits, told, taken>>

JournalNext ==
    \/ OpenJournal \/ LeaveJournal \/ ExpireOnJournal \/ ExpireElsewhere \/ LeaveSession
    \/ SignInAgain
    \/ \E e \in Expenses : PressPencil(e)
    \/ \E x \in Entries : PressBin(x)
    \/ TypeInForm \/ CloseJournalDialog \/ ConfirmDialog
    \/ \E c \in calls : ServerApplies(c) \/ CallFails(c) \/ CallAnswered(c) \/ CallFinished(c)
    \/ ListIsRead

JournalSpec == JournalInit /\ [][JournalNext]_journalVars

-----------------------------------------------------------------------------
(* Properties.                                                              *)

\* While no request of this visit is under way for a row, the row says what its
\* save last reported to the page asked, or is gone: of the saves a page awaits
\* none overtakes a later one, in whichever form they were sent and however
\* often the forms were closed (isPending of one mutation for all forms:
\* ExpensesPage.tsx:134-145, 536).  Named and left out is what the code does not
\* hold back, a change nobody reports to the page: a request of an earlier visit,
\* or one whose connection broke, reaching the server after it, and an answer
\* lost (NothingUnreported).
LastSaveStands ==
    \A e \in Expenses :
        /\ reported[e] # Unknown
        /\ e \notin unreported
        /\ \A c \in calls : c.row = e => ~ c.mine
        => journal[e] \in {reported[e], Gone}

\* A form opens with the row as it is listed, unless an expiry took away that
\* very form with that very text: what a visitor typed and left, by closing the
\* form, by leaving the page or by signing out, never comes back
\* (docs/ui.md:78-80; useSessionDraft.ts:4).
AbandonedStaysAbandoned ==
    [][open' # open /\ Edits(open') =>
         \/ typing' = listed[open'.row]
         \/ taken = [row |-> open'.row, text |-> typing']]_journalVars

\* The row says what the page was last told, whatever else is on its way.
NothingUnreported ==
    \A e \in Expenses :
        reported[e] # Unknown /\ (\A c \in calls : c.row = e => ~ c.mine)
            => journal[e] \in {reported[e], Gone}

\* The answer to a request closes only the dialog that sent it: what is typed
\* meanwhile for another row stays (docs/ui.md:78-80).  The code closes
\* whatever dialog of that kind is open.
OnlyOwnAnswerCloses ==
    [][\A c \in calls : CallFinished(c) /\ open # open' => open.row = c.row]_journalVars
=============================================================================
