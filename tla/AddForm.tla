-------------------------------- MODULE AddForm --------------------------------
(***************************************************************************)
(* The page that records a purchase or another expense                     *)
(* (features/collection/add of the web application).                       *)
(*                                                                         *)
(* One form changes its shape with its type and with the coin it is about; *)
(* what the shapes share is handed from one to the next.  A purchase is    *)
(* saved in steps: the request, a photo at a time, the caches, and only    *)
(* then does the page make way; all that while its fields can be changed.  *)
(*                                                                         *)
(* An amount stands for the five values both shapes have (CarriedValues),  *)
(* a number for the optional numbers of the coin, a year for what is       *)
(* required of it, a series for what belongs to a country.  Left out:      *)
(* quantity, grade and location, which nothing else depends on, the drafts *)
(* of an expired session (AuthDialog), the errors of answers, the lag of   *)
(* the address behind a click, a request that waits for the network, and a *)
(* second visit while something of the first is in flight.                 *)
(***************************************************************************)
EXTENDS Integers, SequencesExt

CONSTANTS
  None,
  Coins,      \* coins of the catalogue
  Countries,
  MaxEdits,   \* bound: what one visit to the page changes
  MaxRows,    \* bound: supporting expenses on the form
  MaxKeys     \* bound: rows and photos ever made

ASSUME NoneAssumption == None \notin Coins /\ None \notin Countries
ASSUME BoundAssumption == MaxEdits \in Nat /\ MaxRows \in Nat \ {0} /\ MaxKeys \in Nat

VARIABLES
  page,      \* "add", "leaving" while the next page loads, or "away"
  kind,      \* the type: a purchase or another expense
  coin,      \* catalogItemId of the address
  card,      \* its card
  picker,    \* country, name, and whether the name was looked up
  about,     \* the fields of a coin the catalogue does not have
  carried,   \* the amount the page keeps
  form,      \* the amount in the form on show, None without a form
  rows,      \* supporting expenses
  unfolded,  \* which of the folded blocks are open
  flagged,   \* the fields an error stands at
  rowErrors, \* and the rows
  photos,    \* by side, the photo chosen
  revoked,   \* the photos whose preview is gone
  cropping,  \* the side whose photo is being cut
  nextKey,
  save,      \* the purchase being saved
  posting,   \* the expense being saved
  typed,     \* not code: the amount typed last
  edits      \* bound

address == <<page, kind, coin, card>>
coinFields == <<picker, about>>
amounts == <<carried, form, typed>>
extras == <<rows, rowErrors>>
pictures == <<photos, revoked, cropping>>
saving == <<save, posting>>
vars == <<address, coinFields, amounts, extras, unfolded, flagged, pictures, nextKey,
          saving, edits>>

Kinds == {"coin_purchase", "other"}
Sides == {"obverse", "reverse"}
Amounts == {"blank", "zero", "sum", "bad"}
Fields == {"price", "country", "title", "year", "number"}
Blocks == {"details", "extras"}
Row == [key : 1 .. MaxKeys, amount : Amounts]
Body == [amount : Amounts, coin : Coins \union {None}, country : Countries \union {None},
         series : Countries \union {None}, complete : BOOLEAN, extras : SUBSET (1 .. MaxKeys)]

\* `chosen` are the photos to be stored, `todo` those still waiting, `stored` those
\* that are.
Idle == [stage |-> "idle", body |-> None, chosen |-> {}, todo |-> {}, stored |-> {},
         failed |-> FALSE]

TypeOK ==
  /\ page \in {"add", "leaving", "away"}
  /\ kind \in Kinds
  /\ coin \in Coins \union {None}
  /\ card \in {"none", "loading", "here", "failed"}
  /\ picker \in [country : Countries \union {None}, title : BOOLEAN, query : BOOLEAN]
  /\ about \in [series : Countries \union {None}, year : BOOLEAN, number : {"ok", "bad"}]
  /\ carried \in Amounts
  /\ form \in Amounts \union {None}
  /\ typed \in Amounts \union {None}
  /\ rows \in Seq(Row) /\ Len(rows) <= MaxRows
  /\ rowErrors \subseteq 1 .. MaxKeys
  /\ unfolded \subseteq Blocks
  /\ flagged \subseteq Fields
  /\ photos \in [Sides -> 0 .. MaxKeys]
  /\ revoked \subseteq 1 .. MaxKeys
  /\ cropping \in Sides \union {None}
  /\ nextKey \in 1 .. MaxKeys + 1
  /\ save.stage \in {"idle", "posting", "uploading", "closing"}
  /\ save.body \in Body \union {None}
  /\ save.chosen \subseteq 1 .. MaxKeys
  /\ save.todo \subseteq save.chosen /\ save.stored \subseteq save.chosen
  /\ save.failed \in BOOLEAN
  /\ posting \in {"idle", "posting", "closing"}
  /\ edits \in 0 .. MaxEdits

NoName == [country |-> None, title |-> FALSE, query |-> FALSE]
NoFields == [series |-> None, year |-> FALSE, number |-> "ok"]
NoPhotos == [s \in Sides |-> 0]

\* PurchaseForm and ExpenseForm, opened on what is carried over.
\* Mutant of Opened: an amount that was not typed here is not shown.
OpenedAnew(k, c) ==
  IF k = "coin_purchase" THEN "zero" ELSE "blank"

Opened(k, c) ==
  IF k = "coin_purchase" /\ c = "blank" THEN "zero" ELSE c

\* The page opens by the address, with nothing in it.
Addressed(k, c) == [form |-> IF k = "other" \/ c = None THEN Opened(k, "blank") ELSE None,
                    card |-> IF c = None THEN "none" ELSE "loading"]

Init ==
  /\ page = "add"
  /\ kind \in Kinds /\ coin \in Coins \union {None}
  /\ card = Addressed(kind, coin).card /\ form = Addressed(kind, coin).form
  /\ picker = NoName /\ about = NoFields
  /\ carried = "blank" /\ typed = None
  /\ rows = <<>> /\ rowErrors = {}
  /\ unfolded = {} /\ flagged = {}
  /\ photos = NoPhotos /\ revoked = {} /\ cropping = None
  /\ nextKey = 1
  /\ save = Idle /\ posting = "idle"
  /\ edits = 0

\* The visitor can act on the page, which the dialog of a photo covers; an edit
\* changes what it holds.
Here == page # "away" /\ cropping = None
Edit == Here /\ edits < MaxEdits /\ edits' = edits + 1

-----------------------------------------------------------------------------
(***************************************************************************)
(* What the form is about                                                  *)
(***************************************************************************)

\* The form of type k about coin c, whose card is in state s.
FormOf(k, c, s) ==
  IF k = "coin_purchase" /\ c # None /\ s # "here" THEN None ELSE Opened(k, carried)

\* "details" is a block of NewCoinFields, "extras" of PurchaseForm: both close
\* with the form they are part of.
Folded == unfolded' = {}

SetType(k) ==
  /\ Edit
  /\ k # kind
  /\ kind' = k
  /\ coin' = None /\ card' = "none"
  /\ form' = FormOf(k, None, "none")
  /\ flagged' = flagged \ {"price", "country", "title"}
  /\ picker' = [picker EXCEPT !.query = FALSE]
  /\ Folded
  /\ UNCHANGED <<page, about, carried, typed, extras, pictures, nextKey, saving>>

\* A click on a suggestion.
ChooseCoin(c) ==
  /\ Edit
  /\ coin = None
  /\ picker.query
  /\ coin' = c
  /\ card' \in {"loading", "here"}   \* read before, or not
  /\ form' = IF kind = "other" THEN form ELSE FormOf(kind, c, card')
  /\ flagged' = flagged \ (IF kind = "other" THEN {"country", "title"}
                           ELSE {"price", "country", "title"})
  /\ picker' = [picker EXCEPT !.query = FALSE]
  /\ Folded
  /\ UNCHANGED <<page, kind, about, carried, typed, extras, pictures, nextKey, saving>>

ClearCoin ==
  /\ Edit
  /\ coin # None /\ (kind = "other" \/ card \in {"here", "failed"})
  /\ coin' = None /\ card' = "none"
  /\ form' = IF kind = "other" THEN form ELSE FormOf(kind, None, "none")
  /\ flagged' = IF kind = "other" THEN flagged ELSE flagged \ {"price"}
  /\ Folded
  /\ UNCHANGED <<page, kind, coinFields, carried, typed, extras, pictures, nextKey, saving>>

CardAnswered ==
  /\ page # "away"
  /\ card = "loading"
  /\ card' \in {"here", "failed"}
  /\ form' = IF kind = "other" THEN form ELSE FormOf(kind, coin, card')
  /\ UNCHANGED <<page, kind, coin, coinFields, carried, typed, extras, unfolded, flagged,
                 pictures, nextKey, saving, edits>>

-----------------------------------------------------------------------------
(***************************************************************************)
(* CoinPicker and NewCoinFields                                            *)
(***************************************************************************)

Picking == coin = None
AboutShown == kind = "coin_purchase" /\ Picking /\ picker.title

\* Mutant of SetCountry: the series stays.
SetCountryKeepsSeries(c) ==
  /\ Edit
  /\ kind = "coin_purchase" /\ Picking /\ c # picker.country
  /\ picker' = [picker EXCEPT !.country = c]
  /\ UNCHANGED <<address, about, amounts, extras, unfolded, flagged, pictures, nextKey, saving>>

SetCountry(c) ==
  /\ Edit
  /\ kind = "coin_purchase" /\ Picking /\ c # picker.country
  /\ picker' = [picker EXCEPT !.country = c]
  /\ about' = [about EXCEPT !.series = None]
  /\ UNCHANGED <<address, amounts, extras, unfolded, flagged, pictures, nextKey, saving>>

\* Clearing the name takes the block of the new coin away, open or not.
TypeTitle ==
  /\ Edit
  /\ Picking
  /\ picker' = [picker EXCEPT !.title = ~ @]
  /\ unfolded' = unfolded \ {"details"}
  /\ UNCHANGED <<address, about, amounts, extras, flagged, pictures, nextKey, saving>>

\* The name typed is looked up a moment later.
LookUp ==
  /\ page # "away"
  /\ Picking /\ picker.query # picker.title
  /\ picker' = [picker EXCEPT !.query = picker.title]
  /\ UNCHANGED <<address, about, amounts, extras, unfolded, flagged, pictures, nextKey,
                 saving, edits>>

SetSeries ==
  /\ Edit
  /\ AboutShown /\ picker.country # None
  /\ about' = [about EXCEPT !.series = picker.country]
  /\ UNCHANGED <<address, picker, amounts, extras, unfolded, flagged, pictures, nextKey, saving>>

SetYear ==
  /\ Edit
  /\ AboutShown
  /\ about' = [about EXCEPT !.year = ~ @]
  /\ UNCHANGED <<address, picker, amounts, extras, unfolded, flagged, pictures, nextKey, saving>>

SetNumber(n) ==
  /\ Edit
  /\ AboutShown /\ "details" \in unfolded /\ n # about.number
  /\ about' = [about EXCEPT !.number = n]
  /\ UNCHANGED <<address, picker, amounts, extras, unfolded, flagged, pictures, nextKey, saving>>

-----------------------------------------------------------------------------
(***************************************************************************)
(* The amount and the supporting expenses                                  *)
(***************************************************************************)

SetAmount(a) ==
  /\ Edit
  /\ form # None /\ a # form
  /\ form' = a /\ carried' = a /\ typed' = a
  /\ flagged' = flagged \ {"price"}
  /\ UNCHANGED <<address, coinFields, extras, unfolded, pictures, nextKey, saving>>

NewRow == [key |-> nextKey, amount |-> "blank"]

ExtrasShown == kind = "coin_purchase" /\ form # None
Unfolded == ExtrasShown /\ "extras" \in unfolded

\* Opening the block of the supporting expenses starts the first one.
Toggle(b) ==
  /\ Edit
  /\ IF b = "extras" THEN ExtrasShown ELSE AboutShown
  /\ unfolded' = IF b \in unfolded THEN unfolded \ {b} ELSE unfolded \union {b}
  /\ IF b = "extras" /\ b \notin unfolded /\ rows = <<>>
     THEN /\ nextKey <= MaxKeys
          /\ rows' = <<NewRow>>
          /\ nextKey' = nextKey + 1
     ELSE UNCHANGED <<rows, nextKey>>
  /\ UNCHANGED <<address, coinFields, amounts, rowErrors, flagged, pictures, saving>>

AddRow ==
  /\ Edit
  /\ Unfolded /\ Len(rows) < MaxRows /\ nextKey <= MaxKeys
  /\ rows' = Append(rows, NewRow)
  /\ nextKey' = nextKey + 1
  /\ UNCHANGED <<address, coinFields, amounts, rowErrors, unfolded, flagged, pictures, saving>>

SetRow(i, a) ==
  /\ Edit
  /\ Unfolded /\ a # rows[i].amount
  /\ rows' = [rows EXCEPT ![i].amount = a]
  /\ UNCHANGED <<address, coinFields, amounts, rowErrors, unfolded, flagged, pictures,
                 nextKey, saving>>

RemoveRow(i) ==
  /\ Edit
  /\ Unfolded
  /\ rows' = RemoveAt(rows, i)
  /\ UNCHANGED <<address, coinFields, amounts, rowErrors, unfolded, flagged, pictures,
                 nextKey, saving>>

-----------------------------------------------------------------------------
(***************************************************************************)
(* Photos                                                                  *)
(***************************************************************************)

PhotosShown == AboutShown \/ (coin # None /\ card = "here")

PickPhoto(s) ==
  /\ Here
  /\ PhotosShown /\ nextKey <= MaxKeys
  /\ cropping' = s
  /\ UNCHANGED <<address, coinFields, amounts, extras, unfolded, flagged, photos, revoked,
                 nextKey, saving, edits>>

\* Mutant of Replaced: a side without a photo has nothing to revoke.
ReplacedUnguarded(s) == {photos[s]}

Replaced(s) == {photos[s]} \ {0}

CropPhoto ==
  /\ cropping # None /\ page # "away"
  /\ edits < MaxEdits /\ edits' = edits + 1
  /\ photos' = [photos EXCEPT ![cropping] = nextKey]
  /\ revoked' = revoked \union Replaced(cropping)
  /\ nextKey' = nextKey + 1
  /\ cropping' = None
  /\ UNCHANGED <<address, coinFields, amounts, extras, unfolded, flagged, saving>>

CancelCrop ==
  /\ cropping # None /\ page # "away"
  /\ cropping' = None
  /\ UNCHANGED <<address, coinFields, amounts, extras, unfolded, flagged, photos, revoked,
                 nextKey, saving, edits>>

ClearPhoto(s) ==
  /\ Edit
  /\ AboutShown /\ photos[s] # 0
  /\ revoked' = revoked \union Replaced(s)
  /\ photos' = [photos EXCEPT ![s] = 0]
  /\ UNCHANGED <<address, coinFields, amounts, extras, unfolded, flagged, cropping, nextKey,
                 saving>>

-----------------------------------------------------------------------------
(***************************************************************************)
(* Saving                                                                  *)
(***************************************************************************)

BadRows == {r \in ToSet(rows) : r.amount \in {"zero", "bad"}}

\* validate, validateNewCoin: the fields a purchase cannot be sent with.
Wrong ==
  (IF form \in {"blank", "bad"} THEN {"price"} ELSE {})
  \union IF coin # None THEN {}
         ELSE (IF picker.country = None THEN {"country"} ELSE {})
              \union (IF picker.title THEN {} ELSE {"title"})
              \union (IF about.year THEN {} ELSE {"year"})
              \union (IF about.number = "bad" THEN {"number"} ELSE {})

\* purchaseBody: the rows that hold an amount go along.
PurchaseBody ==
  [amount |-> form, coin |-> coin, country |-> picker.country, series |-> about.series,
   complete |-> picker.title /\ about.year /\ about.number = "ok",
   extras |-> {r.key : r \in {q \in ToSet(rows) : q.amount = "sum"}}]

Checked == Wrong = {} /\ BadRows = {}

SubmitPurchase ==
  /\ Here
  /\ kind = "coin_purchase" /\ form # None
  /\ save.stage = "idle"
  /\ flagged' = (flagged \ (IF coin = None THEN Fields ELSE {"price"})) \union Wrong
  /\ rowErrors' = {r.key : r \in BadRows}
  /\ save' = IF Checked THEN [Idle EXCEPT !.stage = "posting", !.body = PurchaseBody] ELSE save
  /\ UNCHANGED <<address, coinFields, amounts, rows, unfolded, pictures, nextKey, posting, edits>>

SubmitExpense ==
  /\ Here
  /\ kind = "other"
  /\ posting = "idle"
  /\ flagged' = IF form = "sum" THEN flagged \ {"price"} ELSE flagged \union {"price"}
  /\ posting' = IF form = "sum" THEN "posting" ELSE posting
  /\ UNCHANGED <<address, coinFields, amounts, extras, unfolded, pictures, nextKey, save, edits>>

Answering == UNCHANGED <<kind, coin, card, coinFields, amounts, extras, unfolded, flagged,
                         photos, cropping, nextKey, edits>>

\* The photos are read when the purchase is there, not when Save was clicked.
Created ==
  /\ save.stage = "posting"
  /\ LET now == ({photos[s] : s \in Sides} \ {0})
     IN save' = [save EXCEPT !.stage = "uploading", !.chosen = now, !.todo = now]
  /\ Answering /\ UNCHANGED <<page, revoked, posting>>

Refused ==
  /\ save.stage = "posting"
  /\ save' = Idle
  /\ Answering /\ UNCHANGED <<page, revoked, posting>>

Kept(k, ok) ==
  [save EXCEPT !.todo = @ \ {k}, !.stored = IF ok THEN @ \union {k} ELSE @,
               !.failed = @ \/ ~ ok]

\* One at a time; a photo that fails stops neither the others nor the purchase.
Upload(k, ok) ==
  /\ save.stage = "uploading"
  /\ k \in save.todo
  /\ save' = Kept(k, ok)
  /\ Answering /\ UNCHANGED <<page, revoked, posting>>

Uploaded ==
  /\ save.stage = "uploading" /\ save.todo = {}
  /\ revoked' = revoked \union save.chosen
  /\ save' = [save EXCEPT !.stage = "closing"]
  /\ Answering /\ UNCHANGED <<page, posting>>

ExpenseAnswered(ok) ==
  /\ posting = "posting"
  /\ posting' = IF ok THEN "closing" ELSE "idle"
  /\ Answering /\ UNCHANGED <<page, revoked, save>>

\* The next page is loaded before it is shown.
MakesWay == IF page = "add" THEN "leaving" ELSE page

Finish ==
  /\ save.stage = "closing"
  /\ save' = Idle
  /\ page' = MakesWay
  /\ Answering /\ UNCHANGED <<revoked, posting>>

ExpenseFinish ==
  /\ posting = "closing"
  /\ posting' = "idle"
  /\ page' = MakesWay
  /\ Answering /\ UNCHANGED <<revoked, save>>

-----------------------------------------------------------------------------
(***************************************************************************)
(* Leaving and coming back                                                 *)
(***************************************************************************)

\* Cancel, or any other link of the page.
Leave ==
  /\ page = "add"
  /\ page' = "leaving"
  /\ Answering /\ UNCHANGED <<revoked, saving>>

Left ==
  /\ page = "leaving"
  /\ page' = "away"
  /\ Answering /\ UNCHANGED <<revoked, saving>>

Open ==
  /\ page = "away" /\ save = Idle /\ posting = "idle"
  /\ page' = "add"
  /\ kind' \in Kinds /\ coin' \in Coins \union {None}
  /\ card' = Addressed(kind', coin').card /\ form' = Addressed(kind', coin').form
  /\ picker' = NoName /\ about' = NoFields
  /\ carried' = "blank" /\ typed' = None
  /\ rows' = <<>> /\ rowErrors' = {}
  /\ unfolded' = {} /\ flagged' = {}
  /\ photos' = NoPhotos /\ revoked' = {} /\ cropping' = None
  /\ nextKey' = 1
  /\ edits' = 0
  /\ UNCHANGED saving

Next ==
  \/ \E k \in Kinds : SetType(k)
  \/ \E c \in Coins : ChooseCoin(c)
  \/ ClearCoin
  \/ CardAnswered
  \/ \E c \in Countries \union {None} : SetCountry(c)
  \/ TypeTitle
  \/ LookUp
  \/ SetSeries
  \/ SetYear
  \/ \E n \in {"ok", "bad"} : SetNumber(n)
  \/ \E a \in Amounts : SetAmount(a)
  \/ \E b \in Blocks : Toggle(b)
  \/ AddRow
  \/ \E i \in DOMAIN rows : RemoveRow(i) \/ \E a \in Amounts : SetRow(i, a)
  \/ \E s \in Sides : PickPhoto(s) \/ ClearPhoto(s)
  \/ CropPhoto
  \/ CancelCrop
  \/ SubmitPurchase
  \/ SubmitExpense
  \/ Created
  \/ Refused
  \/ \E k \in save.todo, ok \in BOOLEAN : Upload(k, ok)
  \/ Uploaded
  \/ \E ok \in BOOLEAN : ExpenseAnswered(ok)
  \/ Finish
  \/ ExpenseFinish
  \/ Leave
  \/ Left
  \/ Open

Spec == Init /\ [][Next]_vars

-----------------------------------------------------------------------------
(***************************************************************************)
(* Properties                                                              *)
(***************************************************************************)

\* A purchase that was sent names a coin of the catalogue, or one with a country, a
\* name and a year whose series is of that country, and its price is a number: no
\* order of choosing, typing, switching and going back gets anything else past the
\* checks.
WholePurchase ==
  save.body # None =>
    /\ save.body.amount \in {"zero", "sum"}
    /\ \/ save.body.coin # None
       \/ /\ save.body.country # None
          /\ save.body.complete
          /\ save.body.series \in {None, save.body.country}

\* What was typed as the price is in the form on show, whatever types and coins were
\* tried in between; a price that was wiped may come back as the zero of a purchase.
SurvivesSwitching ==
  form # None /\ typed # None =>
    form = typed \/ (kind = "coin_purchase" /\ typed = "blank" /\ form = "zero")

\* AddPage.tsx:347, "someone fixing the form should see everything wrong with it at
\* once": a Save that sends nothing leaves an error where it can be seen.
RefusalIsShown ==
  [][SubmitPurchase /\ save' = save =>
       \/ flagged' \intersect (Fields \ {"number"}) # {}
       \/ "number" \in flagged' /\ AboutShown /\ "details" \in unfolded
       \/ rowErrors' # {} /\ "extras" \in unfolded]_vars
=============================================================================
