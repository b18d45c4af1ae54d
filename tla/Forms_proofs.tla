---------------------------- MODULE Forms_proofs ----------------------------
(***************************************************************************)
(* Proofs about the pages where something is filled in: the page that adds *)
(* a purchase (AddForm), the journal of expenses (ExpensesJournal), the    *)
(* profile and settings page (Profile) with its field of a storage         *)
(* location (StorageField), the two pickers of a period (PeriodPicker and  *)
(* ChartPeriod), and the two menus the forms are built from (Menus), each  *)
(* for any values of its constants.                                        *)
(***************************************************************************)
EXTENDS AddForm, ExpensesJournal, Profile, StorageField, PeriodPicker, ChartPeriod, Menus,
        FiniteSetTheorems, SequenceTheorems, WellFoundedInduction, TLAPS

-----------------------------------------------------------------------------
(*                              THE ADD PAGE                                *)
-----------------------------------------------------------------------------

\* The form on show holds the amount the page keeps, a blank one perhaps as the zero of
\* a purchase, and the page keeps what was typed last.
AmountsTell ==
  /\ form # None => form \in {carried, Opened(kind, carried)}
  /\ typed # None => typed = carried

\* The series chosen for a new coin is of its country.
SeriesFits == about.series \in {None, picker.country}

\* While a photo is being cut no key is given away.
RoomToCrop == cropping # None => nextKey <= MaxKeys

SavesOf == [stage : {"idle", "posting", "uploading", "closing"}, body : Body \union {None},
            chosen : SUBSET (1 .. MaxKeys), todo : SUBSET (1 .. MaxKeys),
            stored : SUBSET (1 .. MaxKeys), failed : BOOLEAN]

\* No photo is stored before the purchase is there.
StoredAfter == save.stage \in {"idle", "posting"} => save.stored = {}

AddInv ==
  /\ TypeOK /\ save \in SavesOf
  /\ AmountsTell /\ SeriesFits /\ RoomToCrop /\ StoredAfter /\ WholePurchase

AmountsTyped ==
  /\ kind \in Kinds /\ carried \in Amounts
  /\ form \in Amounts \union {None} /\ typed \in Amounts \union {None}

CoinTyped ==
  /\ picker \in [country : Countries \union {None}, title : BOOLEAN, query : BOOLEAN]
  /\ about \in [series : Countries \union {None}, year : BOOLEAN, number : {"ok", "bad"}]

AddressTyped ==
  /\ page \in {"add", "leaving", "away"}
  /\ coin \in Coins \union {None}
  /\ card \in {"none", "loading", "here", "failed"}

RowsTyped ==
  /\ rows \in Seq(Row) /\ Len(rows) <= MaxRows
  /\ rowErrors \subseteq 1 .. MaxKeys

FlaggedTyped == unfolded \subseteq Blocks /\ flagged \subseteq Fields

PhotosTyped ==
  /\ photos \in [Sides -> 0 .. MaxKeys]
  /\ revoked \subseteq 1 .. MaxKeys
  /\ cropping \in Sides \union {None}

SaveTyped ==
  /\ save \in SavesOf
  /\ save.todo \subseteq save.chosen /\ save.stored \subseteq save.chosen
  /\ posting \in {"idle", "posting", "closing"}

KeyTyped == nextKey \in 1 .. MaxKeys + 1
EditsTyped == edits \in 0 .. MaxEdits

LEMMA SplitsAddType ==
  TypeOK /\ save \in SavesOf
  <=> /\ AmountsTyped /\ CoinTyped /\ AddressTyped /\ RowsTyped /\ FlaggedTyped
      /\ PhotosTyped /\ SaveTyped /\ KeyTyped /\ EditsTyped
  <1>1. save \in SavesOf =>
          /\ save.stage \in {"idle", "posting", "uploading", "closing"}
          /\ save.body \in Body \union {None}
          /\ save.chosen \subseteq 1 .. MaxKeys
          /\ save.failed \in BOOLEAN
    BY DEF SavesOf
  <1> QED
    BY <1>1, Zenon
    DEF TypeOK, AmountsTyped, CoinTyped, AddressTyped, RowsTyped, FlaggedTyped, PhotosTyped,
        SaveTyped, KeyTyped, EditsTyped

LEMMA OpenedTyped ==
  ASSUME NEW k \in Kinds, NEW a \in Amounts
  PROVE  Opened(k, a) \in Amounts /\ (Opened(k, a) = a \/ (k = "coin_purchase" /\ a = "blank"))
  BY DEF Opened, Amounts

LEMMA AddressedTyped ==
  ASSUME NEW k \in Kinds, NEW c
  PROVE  /\ Addressed(k, c).form \in {None, Opened(k, "blank")}
         /\ Addressed(k, c).card \in {"none", "loading"}
  BY DEF Addressed

-----------------------------------------------------------------------------
(* The amount.                                                              *)

LEMMA AmountsStep ==
  ASSUME AmountsTyped, AmountsTell, Next
  PROVE  AmountsTyped' /\ AmountsTell'
  <1>0. /\ kind \in Kinds /\ carried \in Amounts /\ form \in Amounts \union {None}
        /\ typed \in Amounts \union {None} /\ "blank" \in Amounts
        /\ \A k \in Kinds, a \in Amounts : Opened(k, a) \in Amounts
    BY OpenedTyped DEF AmountsTyped, Amounts
  <1>1. UNCHANGED <<kind, carried, form, typed>> => AmountsTyped' /\ AmountsTell'
    BY DEF AmountsTyped, AmountsTell
  <1>2. ASSUME NEW k \in Kinds, SetType(k)  PROVE AmountsTyped' /\ AmountsTell'
    <2>1. kind' = k /\ form' \in {None, Opened(k, carried)} /\ UNCHANGED <<carried, typed>>
      BY <1>2 DEF SetType, FormOf
    <2> QED BY <1>0, <2>1 DEF AmountsTyped, AmountsTell
  <1>3. ASSUME NEW c \in Coins, ChooseCoin(c)  PROVE AmountsTyped' /\ AmountsTell'
    <2>1. form' \in {form, None, Opened(kind, carried)} /\ UNCHANGED <<kind, carried, typed>>
      BY <1>3 DEF ChooseCoin, FormOf
    <2> QED BY <1>0, <2>1 DEF AmountsTyped, AmountsTell
  <1>4. CASE ClearCoin \/ CardAnswered
    <2>1. form' \in {form, None, Opened(kind, carried)} /\ UNCHANGED <<kind, carried, typed>>
      BY <1>4 DEF ClearCoin, CardAnswered, FormOf
    <2> QED BY <1>0, <2>1 DEF AmountsTyped, AmountsTell
  <1>5. ASSUME NEW a \in Amounts, SetAmount(a)  PROVE AmountsTyped' /\ AmountsTell'
    <2>1. form' = a /\ carried' = a /\ typed' = a /\ kind' = kind
      BY <1>5 DEF SetAmount, address
    <2> QED BY <1>0, <2>1 DEF AmountsTyped, AmountsTell
  <1>6. CASE Open
    <2>1. /\ kind' \in Kinds /\ carried' = "blank" /\ typed' = None
          /\ form' = Addressed(kind', coin').form
      BY <1>6 DEF Open
    <2>2. form' \in {None, Opened(kind', "blank")}  BY <2>1, AddressedTyped
    <2> QED BY <1>0, <2>1, <2>2 DEF AmountsTyped, AmountsTell
  <1>7. CASE \/ \E c \in Countries \union {None} : SetCountry(c)
             \/ TypeTitle \/ LookUp \/ SetSeries \/ SetYear
             \/ \E n \in {"ok", "bad"} : SetNumber(n)
    BY <1>1, <1>7
    DEF SetCountry, TypeTitle, LookUp, SetSeries, SetYear, SetNumber, address, amounts
  <1>8. CASE \/ \E b \in Blocks : Toggle(b)
             \/ AddRow
             \/ \E i \in DOMAIN rows : RemoveRow(i) \/ \E a \in Amounts : SetRow(i, a)
    BY <1>1, <1>8 DEF Toggle, AddRow, RemoveRow, SetRow, address, amounts
  <1>9. CASE \/ \E s \in Sides : PickPhoto(s) \/ ClearPhoto(s)
             \/ CropPhoto \/ CancelCrop \/ SubmitPurchase \/ SubmitExpense
    BY <1>1, <1>9
    DEF PickPhoto, ClearPhoto, CropPhoto, CancelCrop, SubmitPurchase, SubmitExpense, address, amounts
  <1>10. CASE \/ Created \/ Refused
              \/ \E k \in save.todo, ok \in BOOLEAN : Upload(k, ok)
              \/ Uploaded
              \/ \E ok \in BOOLEAN : ExpenseAnswered(ok)
              \/ Finish \/ ExpenseFinish \/ Leave \/ Left
    BY <1>1, <1>10
    DEF Created, Refused, Upload, Uploaded, ExpenseAnswered, Finish, ExpenseFinish, Leave, Left,
        Answering, amounts
  <1> QED
    BY <1>2, <1>3, <1>4, <1>5, <1>6, <1>7, <1>8, <1>9, <1>10 DEF Next

-----------------------------------------------------------------------------
(* The coin.                                                                *)

LEMMA CoinStep ==
  ASSUME CoinTyped, SeriesFits, Next
  PROVE  CoinTyped' /\ SeriesFits'
  <1>0. /\ picker.country \in Countries \union {None} /\ about.series \in {None, picker.country}
        /\ about.series \in Countries \union {None}
    BY DEF CoinTyped, SeriesFits
  <1>1. UNCHANGED <<picker, about>> => CoinTyped' /\ SeriesFits'
    BY DEF CoinTyped, SeriesFits
  <1>2. \A b : [picker EXCEPT !.query = b].country = picker.country
    BY DEF CoinTyped
  <1>3. ASSUME NEW b \in BOOLEAN, picker' = [picker EXCEPT !.query = b], about' = about
        PROVE  CoinTyped' /\ SeriesFits'
    <2>1. picker'.country = picker.country  BY <1>2, <1>3
    <2>2. picker' \in [country : Countries \union {None}, title : BOOLEAN, query : BOOLEAN]
      BY <1>3 DEF CoinTyped
    <2> QED BY <1>3, <2>1, <2>2 DEF CoinTyped, SeriesFits
  <1>4. ASSUME NEW k \in Kinds, SetType(k)  PROVE CoinTyped' /\ SeriesFits'
    BY <1>3, <1>4 DEF SetType
  <1>5. ASSUME NEW c \in Coins, ChooseCoin(c)  PROVE CoinTyped' /\ SeriesFits'
    BY <1>3, <1>5 DEF ChooseCoin
  <1>6. ASSUME NEW c \in Countries \union {None}, SetCountry(c)  PROVE CoinTyped' /\ SeriesFits'
    <2>1. picker' = [picker EXCEPT !.country = c] /\ about' = [about EXCEPT !.series = None]
      BY <1>6 DEF SetCountry
    <2>2. picker' \in [country : Countries \union {None}, title : BOOLEAN, query : BOOLEAN]
      BY <2>1 DEF CoinTyped
    <2>3. about' \in [series : Countries \union {None}, year : BOOLEAN, number : {"ok", "bad"}]
      BY <2>1 DEF CoinTyped
    <2>4. about'.series = None  BY <2>1 DEF CoinTyped
    <2> QED BY <2>2, <2>3, <2>4 DEF CoinTyped, SeriesFits
  <1>7. CASE TypeTitle
    <2>1. picker' = [picker EXCEPT !.title = ~ @] /\ about' = about  BY <1>7 DEF TypeTitle
    <2>2. picker' \in [country : Countries \union {None}, title : BOOLEAN, query : BOOLEAN]
      BY <2>1 DEF CoinTyped
    <2>3. picker'.country = picker.country  BY <2>1 DEF CoinTyped
    <2> QED BY <2>1, <2>2, <2>3 DEF CoinTyped, SeriesFits
  <1>8. CASE LookUp
    <2>1. picker.title \in BOOLEAN  BY DEF CoinTyped
    <2> QED BY <1>3, <1>8, <2>1 DEF LookUp
  <1>9. CASE SetSeries
    <2>1. about' = [about EXCEPT !.series = picker.country] /\ picker' = picker
      BY <1>9 DEF SetSeries
    <2>2. about' \in [series : Countries \union {None}, year : BOOLEAN, number : {"ok", "bad"}]
      BY <1>0, <2>1 DEF CoinTyped
    <2>3. about'.series = picker.country  BY <2>1 DEF CoinTyped
    <2> QED BY <2>1, <2>2, <2>3 DEF CoinTyped, SeriesFits
  <1>10. CASE SetYear
    <2>1. about' = [about EXCEPT !.year = ~ @] /\ picker' = picker  BY <1>10 DEF SetYear
    <2>2. about' \in [series : Countries \union {None}, year : BOOLEAN, number : {"ok", "bad"}]
      BY <2>1 DEF CoinTyped
    <2>3. about'.series = about.series  BY <2>1 DEF CoinTyped
    <2> QED BY <2>1, <2>2, <2>3 DEF CoinTyped, SeriesFits
  <1>11. ASSUME NEW n \in {"ok", "bad"}, SetNumber(n)  PROVE CoinTyped' /\ SeriesFits'
    <2>1. about' = [about EXCEPT !.number = n] /\ picker' = picker  BY <1>11 DEF SetNumber
    <2>2. about' \in [series : Countries \union {None}, year : BOOLEAN, number : {"ok", "bad"}]
      BY <2>1 DEF CoinTyped
    <2>3. about'.series = about.series  BY <2>1 DEF CoinTyped
    <2> QED BY <2>1, <2>2, <2>3 DEF CoinTyped, SeriesFits
  <1>12. CASE Open
    <2>1. picker' = NoName /\ about' = NoFields  BY <1>12 DEF Open
    <2> QED BY <2>1 DEF NoName, NoFields, CoinTyped, SeriesFits
  <1>13. CASE \/ ClearCoin \/ CardAnswered
              \/ \E a \in Amounts : SetAmount(a)
              \/ \E b \in Blocks : Toggle(b)
              \/ AddRow
              \/ \E i \in DOMAIN rows : RemoveRow(i) \/ \E a \in Amounts : SetRow(i, a)
    BY <1>1, <1>13 DEF ClearCoin, CardAnswered, SetAmount, Toggle, AddRow, RemoveRow, SetRow, coinFields
  <1>14. CASE \/ \E s \in Sides : PickPhoto(s) \/ ClearPhoto(s)
              \/ CropPhoto \/ CancelCrop \/ SubmitPurchase \/ SubmitExpense
    BY <1>1, <1>14
    DEF PickPhoto, ClearPhoto, CropPhoto, CancelCrop, SubmitPurchase, SubmitExpense, coinFields
  <1>15. CASE \/ Created \/ Refused
              \/ \E k \in save.todo, ok \in BOOLEAN : Upload(k, ok)
              \/ Uploaded
              \/ \E ok \in BOOLEAN : ExpenseAnswered(ok)
              \/ Finish \/ ExpenseFinish \/ Leave \/ Left
    BY <1>1, <1>15
    DEF Created, Refused, Upload, Uploaded, ExpenseAnswered, Finish, ExpenseFinish, Leave, Left,
        Answering, coinFields
  <1> QED
    BY <1>4, <1>5, <1>6, <1>7, <1>8, <1>9, <1>10, <1>11, <1>12, <1>13, <1>14, <1>15 DEF Next

LEMMA AddressStep ==
  ASSUME AddressTyped, AmountsTyped, Next
  PROVE  AddressTyped'
  <1>1. UNCHANGED <<page, coin, card>> => AddressTyped'  BY DEF AddressTyped
  <1>2. CASE \/ \E k \in Kinds : SetType(k)
             \/ \E c \in Coins : ChooseCoin(c)
             \/ ClearCoin \/ CardAnswered
    BY <1>2 DEF SetType, ChooseCoin, ClearCoin, CardAnswered, AddressTyped
  <1>3. CASE Open
    <2>1. kind' \in Kinds /\ coin' \in Coins \union {None} /\ page' = "add"
          /\ card' = Addressed(kind', coin').card
      BY <1>3 DEF Open
    <2>2. card' \in {"none", "loading"}  BY <2>1, AddressedTyped
    <2> QED BY <2>1, <2>2 DEF AddressTyped
  <1>4. CASE \/ \E c \in Countries \union {None} : SetCountry(c)
             \/ TypeTitle \/ LookUp \/ SetSeries \/ SetYear
             \/ \E n \in {"ok", "bad"} : SetNumber(n)
             \/ \E a \in Amounts : SetAmount(a)
    BY <1>1, <1>4 DEF SetCountry, TypeTitle, LookUp, SetSeries, SetYear, SetNumber, SetAmount, address
  <1>5. CASE \/ \E b \in Blocks : Toggle(b)
             \/ AddRow
             \/ \E i \in DOMAIN rows : RemoveRow(i) \/ \E a \in Amounts : SetRow(i, a)
    BY <1>1, <1>5 DEF Toggle, AddRow, RemoveRow, SetRow, address
  <1>6. CASE \/ \E s \in Sides : PickPhoto(s) \/ ClearPhoto(s)
             \/ CropPhoto \/ CancelCrop \/ SubmitPurchase \/ SubmitExpense
    BY <1>1, <1>6
    DEF PickPhoto, ClearPhoto, CropPhoto, CancelCrop, SubmitPurchase, SubmitExpense, address
  <1>7. CASE \/ Created \/ Refused
             \/ \E k \in save.todo, ok \in BOOLEAN : Upload(k, ok)
             \/ Uploaded
             \/ \E ok \in BOOLEAN : ExpenseAnswered(ok)
             \/ Finish \/ ExpenseFinish \/ Leave \/ Left
    BY <1>7
    DEF Created, Refused, Upload, Uploaded, ExpenseAnswered, Finish, ExpenseFinish, Leave, Left,
        MakesWay, Answering, AddressTyped
  <1> QED
    BY <1>2, <1>3, <1>4, <1>5, <1>6, <1>7 DEF Next

-----------------------------------------------------------------------------
(* The rows.                                                                *)

LEMMA RowRemoved ==
  ASSUME NEW s \in Seq(Row), NEW i \in DOMAIN s
  PROVE  RemoveAt(s, i) \in Seq(Row) /\ Len(RemoveAt(s, i)) = Len(s) - 1
  <1>1. i \in 1 .. Len(s) /\ Len(s) \in Nat /\ \A j \in 1 .. Len(s) : s[j] \in Row
    BY ElementOfSeq, LenProperties
  <1>2. /\ SubSeq(s, 1, i - 1) \in Seq(Row)
        /\ Len(SubSeq(s, 1, i - 1)) = i - 1
    <2>1. \A j \in 1 .. i - 1 : s[j] \in Row  BY <1>1
    <2>2. 1 \in Int /\ i - 1 \in Int /\ (1 <= i - 1 \/ i - 1 = 0) /\ (i - 1) - 1 + 1 = i - 1
      BY <1>1
    <2> QED BY <2>1, <2>2, SubSeqProperties
  <1>3. /\ SubSeq(s, i + 1, Len(s)) \in Seq(Row)
        /\ Len(SubSeq(s, i + 1, Len(s))) = Len(s) - i
    <2>1. \A j \in i + 1 .. Len(s) : s[j] \in Row  BY <1>1
    <2>2. /\ i + 1 \in Int /\ Len(s) \in Int
          /\ i + 1 <= Len(s) => Len(s) - (i + 1) + 1 = Len(s) - i
          /\ ~ (i + 1 <= Len(s)) => Len(s) - i = 0
      BY <1>1
    <2> QED BY <2>1, <2>2, SubSeqProperties
  <1> DEFINE before == SubSeq(s, 1, i - 1)
             after == SubSeq(s, i + 1, Len(s))
  <1>4. RemoveAt(s, i) = before \o after  BY DEF RemoveAt
  <1>5. before \in Seq(Row) /\ after \in Seq(Row) /\ Len(before) = i - 1 /\ Len(after) = Len(s) - i
    BY <1>2, <1>3
  <1> HIDE DEF before, after
  <1>6. before \o after \in Seq(Row) /\ Len(before \o after) = Len(before) + Len(after)
    BY <1>5, ConcatProperties
  <1>7. (i - 1) + (Len(s) - i) = Len(s) - 1  BY <1>1
  <1> QED BY <1>4, <1>5, <1>6, <1>7

LEMMA RowsStep ==
  ASSUME RowsTyped, KeyTyped, RoomToCrop, Next
  PROVE  RowsTyped' /\ KeyTyped'
  <1>0. /\ MaxRows \in Nat \ {0} /\ MaxKeys \in Nat /\ nextKey \in 1 .. MaxKeys + 1
        /\ rows \in Seq(Row) /\ Len(rows) \in Nat /\ Len(rows) <= MaxRows
    BY BoundAssumption, LenProperties DEF RowsTyped, KeyTyped
  <1>1. UNCHANGED <<rows, rowErrors>> => RowsTyped'  BY DEF RowsTyped
  <1>2. UNCHANGED nextKey => KeyTyped'  BY DEF KeyTyped
  <1>3. nextKey <= MaxKeys => NewRow \in Row /\ nextKey + 1 \in 1 .. MaxKeys + 1
    BY <1>0 DEF NewRow, Row, Amounts
  <1>4. ASSUME NEW b \in Blocks, Toggle(b)  PROVE RowsTyped' /\ KeyTyped'
    <2>1. rowErrors' = rowErrors  BY <1>4 DEF Toggle
    <2>2. CASE UNCHANGED <<rows, nextKey>>  BY <1>1, <1>2, <2>1, <2>2
    <2>3. CASE nextKey <= MaxKeys /\ rows' = <<NewRow>> /\ nextKey' = nextKey + 1
      <3>1. <<NewRow>> \in Seq(Row) /\ Len(<<NewRow>>) = 1  BY <1>3, <2>3
      <3> QED BY <1>0, <1>3, <2>1, <2>3, <3>1 DEF RowsTyped, KeyTyped
    <2> QED BY <1>4, <2>2, <2>3 DEF Toggle
  <1>5. CASE AddRow
    <2>1. /\ nextKey <= MaxKeys /\ rows' = Append(rows, NewRow) /\ nextKey' = nextKey + 1
          /\ Len(rows) < MaxRows /\ rowErrors' = rowErrors
      BY <1>5 DEF AddRow
    <2>2. Append(rows, NewRow) \in Seq(Row) /\ Len(Append(rows, NewRow)) = Len(rows) + 1
      BY <1>0, <1>3, <2>1, AppendProperties
    <2> QED BY <1>0, <1>3, <2>1, <2>2 DEF RowsTyped, KeyTyped
  <1>6. ASSUME NEW i \in DOMAIN rows, RemoveRow(i)  PROVE RowsTyped' /\ KeyTyped'
    <2>1. rows' = RemoveAt(rows, i) /\ UNCHANGED <<rowErrors, nextKey>>  BY <1>6 DEF RemoveRow
    <2> QED BY <1>0, <1>2, <2>1, RowRemoved DEF RowsTyped
  <1>7. ASSUME NEW i \in DOMAIN rows, NEW a \in Amounts, SetRow(i, a)  PROVE RowsTyped' /\ KeyTyped'
    <2>1. rows' = [rows EXCEPT ![i].amount = a] /\ UNCHANGED <<rowErrors, nextKey>>
      BY <1>7 DEF SetRow
    <2>2. rows[i] \in Row /\ i \in 1 .. Len(rows)  BY <1>0, ElementOfSeq, LenProperties
    <2>3. [rows[i] EXCEPT !.amount = a] \in Row  BY <2>2 DEF Row
    <2>4. rows' = [rows EXCEPT ![i] = [rows[i] EXCEPT !.amount = a]]  BY <2>1
    <2>5. rows' \in Seq(Row) /\ Len(rows') = Len(rows)
      BY <1>0, <2>2, <2>3, <2>4, ExceptSeq
    <2> QED BY <1>0, <1>2, <2>1, <2>5 DEF RowsTyped
  <1>8. CASE SubmitPurchase
    <2>1. rowErrors' = {r.key : r \in BadRows} /\ UNCHANGED <<rows, nextKey>>
      BY <1>8 DEF SubmitPurchase
    <2>2. \A r \in BadRows : r.key \in 1 .. MaxKeys
      <3>1. \A r \in ToSet(rows) : r \in Row  BY <1>0, ElementOfSeq, LenProperties DEF ToSet
      <3> QED BY <3>1 DEF BadRows, Row
    <2> QED BY <1>0, <1>2, <2>1, <2>2 DEF RowsTyped
  <1>9. CASE CropPhoto
    <2>1. UNCHANGED <<rows, rowErrors>> /\ nextKey' = nextKey + 1  BY <1>9 DEF CropPhoto, extras
    <2>2. nextKey <= MaxKeys  BY <1>9 DEF CropPhoto, RoomToCrop
    <2> QED BY <1>1, <1>3, <2>1, <2>2 DEF KeyTyped
  <1>10. CASE Open
    <2>1. rows' = <<>> /\ rowErrors' = {} /\ nextKey' = 1  BY <1>10 DEF Open
    <2>2. <<>> \in Seq(Row) /\ Len(<<>>) = 0  BY EmptySeq
    <2> QED BY <1>0, <2>1, <2>2 DEF RowsTyped, KeyTyped
  <1>11. CASE \/ \E k \in Kinds : SetType(k)
              \/ \E c \in Coins : ChooseCoin(c)
              \/ ClearCoin \/ CardAnswered
              \/ \E c \in Countries \union {None} : SetCountry(c)
              \/ TypeTitle \/ LookUp \/ SetSeries \/ SetYear
              \/ \E n \in {"ok", "bad"} : SetNumber(n)
              \/ \E a \in Amounts : SetAmount(a)
    BY <1>1, <1>2, <1>11
    DEF SetType, ChooseCoin, ClearCoin, CardAnswered, SetCountry, TypeTitle, LookUp, SetSeries,
        SetYear, SetNumber, SetAmount, extras
  <1>12. CASE \/ \E s \in Sides : PickPhoto(s) \/ ClearPhoto(s)
              \/ CancelCrop \/ SubmitExpense
    BY <1>1, <1>2, <1>12 DEF PickPhoto, ClearPhoto, CancelCrop, SubmitExpense, extras
  <1>13. CASE \/ Created \/ Refused
              \/ \E k \in save.todo, ok \in BOOLEAN : Upload(k, ok)
              \/ Uploaded
              \/ \E ok \in BOOLEAN : ExpenseAnswered(ok)
              \/ Finish \/ ExpenseFinish \/ Leave \/ Left
    BY <1>1, <1>2, <1>13
    DEF Created, Refused, Upload, Uploaded, ExpenseAnswered, Finish, ExpenseFinish, Leave, Left,
        Answering, extras
  <1> QED
    BY <1>4, <1>5, <1>6, <1>7, <1>8, <1>9, <1>10, <1>11, <1>12, <1>13 DEF Next

-----------------------------------------------------------------------------
(* The blocks, the errors and the photos.                                   *)

LEMMA FlaggedStep ==
  ASSUME FlaggedTyped, Next
  PROVE  FlaggedTyped'
  <1>1. UNCHANGED <<unfolded, flagged>> => FlaggedTyped'  BY DEF FlaggedTyped
  <1>2. Wrong \subseteq Fields  BY DEF Wrong, Fields
  <1>3. CASE \/ \E k \in Kinds : SetType(k)
             \/ \E c \in Coins : ChooseCoin(c)
             \/ ClearCoin
    BY <1>3 DEF SetType, ChooseCoin, ClearCoin, Folded, FlaggedTyped
  <1>4. CASE \/ TypeTitle
             \/ \E a \in Amounts : SetAmount(a)
             \/ \E b \in Blocks : Toggle(b)
    BY <1>4 DEF TypeTitle, SetAmount, Toggle, FlaggedTyped
  <1>5. CASE SubmitPurchase  BY <1>2, <1>5 DEF SubmitPurchase, FlaggedTyped
  <1>6. CASE SubmitExpense
    <2>1. "price" \in Fields  BY DEF Fields
    <2> QED BY <1>6, <2>1 DEF SubmitExpense, FlaggedTyped
  <1>7. CASE Open  BY <1>7 DEF Open, FlaggedTyped
  <1>8. CASE \/ CardAnswered
             \/ \E c \in Countries \union {None} : SetCountry(c)
             \/ LookUp \/ SetSeries \/ SetYear
             \/ \E n \in {"ok", "bad"} : SetNumber(n)
    BY <1>1, <1>8 DEF CardAnswered, SetCountry, LookUp, SetSeries, SetYear, SetNumber
  <1>9. CASE \/ AddRow
             \/ \E i \in DOMAIN rows : RemoveRow(i) \/ \E a \in Amounts : SetRow(i, a)
             \/ \E s \in Sides : PickPhoto(s) \/ ClearPhoto(s)
             \/ CropPhoto \/ CancelCrop
    BY <1>1, <1>9 DEF AddRow, RemoveRow, SetRow, PickPhoto, ClearPhoto, CropPhoto, CancelCrop
  <1>10. CASE \/ Created \/ Refused
              \/ \E k \in save.todo, ok \in BOOLEAN : Upload(k, ok)
              \/ Uploaded
              \/ \E ok \in BOOLEAN : ExpenseAnswered(ok)
              \/ Finish \/ ExpenseFinish \/ Leave \/ Left
    BY <1>1, <1>10
    DEF Created, Refused, Upload, Uploaded, ExpenseAnswered, Finish, ExpenseFinish, Leave, Left,
        Answering
  <1> QED
    BY <1>3, <1>4, <1>5, <1>6, <1>7, <1>8, <1>9, <1>10 DEF Next

\* A photo's key is one that was given away, so what is revoked and what is stored are.
LEMMA PhotosStep ==
  ASSUME PhotosTyped, KeyTyped, RoomToCrop, SaveTyped, Next
  PROVE  PhotosTyped' /\ RoomToCrop'
  <1>0. /\ MaxKeys \in Nat /\ nextKey \in 1 .. MaxKeys + 1
        /\ photos \in [Sides -> 0 .. MaxKeys] /\ revoked \subseteq 1 .. MaxKeys
        /\ cropping \in Sides \union {None}
    BY BoundAssumption DEF PhotosTyped, KeyTyped
  <1>1. UNCHANGED <<photos, revoked, cropping>> => PhotosTyped'  BY DEF PhotosTyped
  <1>2. UNCHANGED <<cropping, nextKey>> => RoomToCrop'  BY DEF RoomToCrop
  <1>3. \A s \in Sides : Replaced(s) \subseteq 1 .. MaxKeys
    <2> SUFFICES ASSUME NEW s \in Sides  PROVE Replaced(s) \subseteq 1 .. MaxKeys
      OBVIOUS
    <2>1. photos[s] \in 0 .. MaxKeys  BY <1>0
    <2> QED BY <1>0, <2>1 DEF Replaced
  <1>4. ASSUME NEW s \in Sides, PickPhoto(s)  PROVE PhotosTyped' /\ RoomToCrop'
    BY <1>0, <1>4 DEF PickPhoto, PhotosTyped, RoomToCrop
  <1>5. CASE CropPhoto
    <2>1. /\ cropping \in Sides /\ nextKey \in 0 .. MaxKeys /\ cropping' = None
          /\ photos' = [photos EXCEPT ![cropping] = nextKey]
          /\ revoked' = revoked \union Replaced(cropping)
      BY <1>0, <1>5 DEF CropPhoto, RoomToCrop
    <2> QED BY <1>0, <1>3, <2>1 DEF PhotosTyped, RoomToCrop
  <1>6. CASE CancelCrop  BY <1>0, <1>6 DEF CancelCrop, PhotosTyped, RoomToCrop
  <1>7. ASSUME NEW s \in Sides, ClearPhoto(s)  PROVE PhotosTyped' /\ RoomToCrop'
    <2>1. /\ photos' = [photos EXCEPT ![s] = 0] /\ revoked' = revoked \union Replaced(s)
          /\ UNCHANGED <<cropping, nextKey>>
      BY <1>7 DEF ClearPhoto
    <2>2. 0 \in 0 .. MaxKeys  BY <1>0
    <2> QED BY <1>0, <1>2, <1>3, <2>1, <2>2 DEF PhotosTyped
  <1>8. CASE Uploaded
    <2>1. revoked' = revoked \union save.chosen /\ UNCHANGED <<photos, cropping, nextKey>>
      BY <1>8 DEF Uploaded, Answering
    <2>2. save.chosen \subseteq 1 .. MaxKeys  BY DEF SaveTyped, SavesOf
    <2> QED BY <1>0, <1>2, <2>1, <2>2 DEF PhotosTyped
  <1>9. CASE Open
    <2>1. photos' = NoPhotos /\ revoked' = {} /\ cropping' = None  BY <1>9 DEF Open
    <2> QED BY <1>0, <2>1 DEF NoPhotos, PhotosTyped, RoomToCrop
  <1>10. ASSUME NEW b \in Blocks, Toggle(b)  PROVE PhotosTyped' /\ RoomToCrop'
    <2>1. cropping = None /\ UNCHANGED <<photos, revoked, cropping>>
      BY <1>10 DEF Toggle, Edit, Here, pictures
    <2> QED BY <1>1, <2>1 DEF RoomToCrop
  <1>11. CASE AddRow
    <2>1. cropping = None /\ UNCHANGED <<photos, revoked, cropping>>
      BY <1>11 DEF AddRow, Edit, Here, pictures
    <2> QED BY <1>1, <2>1 DEF RoomToCrop
  <1>12. CASE \/ \E k \in Kinds : SetType(k)
              \/ \E c \in Coins : ChooseCoin(c)
              \/ ClearCoin \/ CardAnswered
              \/ \E c \in Countries \union {None} : SetCountry(c)
              \/ TypeTitle \/ LookUp \/ SetSeries \/ SetYear
              \/ \E n \in {"ok", "bad"} : SetNumber(n)
              \/ \E a \in Amounts : SetAmount(a)
    BY <1>1, <1>2, <1>12
    DEF SetType, ChooseCoin, ClearCoin, CardAnswered, SetCountry, TypeTitle, LookUp, SetSeries,
        SetYear, SetNumber, SetAmount, pictures
  <1>13. CASE \/ \E i \in DOMAIN rows : RemoveRow(i) \/ \E a \in Amounts : SetRow(i, a)
              \/ SubmitPurchase \/ SubmitExpense
    BY <1>1, <1>2, <1>13 DEF RemoveRow, SetRow, SubmitPurchase, SubmitExpense, pictures
  <1>14. CASE \/ Created \/ Refused
              \/ \E k \in save.todo, ok \in BOOLEAN : Upload(k, ok)
              \/ \E ok \in BOOLEAN : ExpenseAnswered(ok)
              \/ Finish \/ ExpenseFinish \/ Leave \/ Left
    BY <1>1, <1>2, <1>14
    DEF Created, Refused, Upload, ExpenseAnswered, Finish, ExpenseFinish, Leave, Left, Answering
  <1> QED
    BY <1>4, <1>5, <1>6, <1>7, <1>8, <1>9, <1>10, <1>11, <1>12, <1>13, <1>14 DEF Next

LEMMA EditsStep ==
  ASSUME EditsTyped, Next
  PROVE  EditsTyped'
  <1>0. MaxEdits \in Nat /\ edits \in 0 .. MaxEdits  BY BoundAssumption DEF EditsTyped
  <1>1. edits' \in {0, edits} => EditsTyped'  BY <1>0 DEF EditsTyped
  <1>2. edits < MaxEdits /\ edits' = edits + 1 => EditsTyped'  BY <1>0 DEF EditsTyped
  <1>3. CASE \/ \E k \in Kinds : SetType(k)
             \/ \E c \in Coins : ChooseCoin(c)
             \/ ClearCoin
             \/ \E c \in Countries \union {None} : SetCountry(c)
             \/ TypeTitle \/ SetSeries \/ SetYear
             \/ \E n \in {"ok", "bad"} : SetNumber(n)
             \/ \E a \in Amounts : SetAmount(a)
    BY <1>2, <1>3
    DEF SetType, ChooseCoin, ClearCoin, SetCountry, TypeTitle, SetSeries, SetYear, SetNumber,
        SetAmount, Edit
  <1>4. CASE \/ \E b \in Blocks : Toggle(b)
             \/ AddRow \/ CropPhoto
             \/ \E i \in DOMAIN rows : RemoveRow(i) \/ \E a \in Amounts : SetRow(i, a)
             \/ \E s \in Sides : ClearPhoto(s)
    BY <1>2, <1>4 DEF Toggle, AddRow, CropPhoto, RemoveRow, SetRow, ClearPhoto, Edit
  <1>5. CASE \/ CardAnswered \/ LookUp \/ CancelCrop \/ SubmitPurchase \/ SubmitExpense \/ Open
             \/ \E s \in Sides : PickPhoto(s)
    BY <1>1, <1>5 DEF CardAnswered, LookUp, CancelCrop, SubmitPurchase, SubmitExpense, Open, PickPhoto
  <1>6. CASE \/ Created \/ Refused
             \/ \E k \in save.todo, ok \in BOOLEAN : Upload(k, ok)
             \/ Uploaded
             \/ \E ok \in BOOLEAN : ExpenseAnswered(ok)
             \/ Finish \/ ExpenseFinish \/ Leave \/ Left
    BY <1>1, <1>6
    DEF Created, Refused, Upload, Uploaded, ExpenseAnswered, Finish, ExpenseFinish, Leave, Left,
        Answering
  <1> QED BY <1>3, <1>4, <1>5, <1>6 DEF Next

-----------------------------------------------------------------------------
(* The save.                                                                *)

LEMMA BodySent ==
  ASSUME AmountsTyped, CoinTyped, AddressTyped, RowsTyped, form # None
  PROVE  PurchaseBody \in Body
  <1>1. \A r \in ToSet(rows) : r \in Row
    BY ElementOfSeq, LenProperties DEF RowsTyped, ToSet
  <1>2. {r.key : r \in {q \in ToSet(rows) : q.amount = "sum"}} \in SUBSET (1 .. MaxKeys)
    BY <1>1 DEF Row
  <1>3. (picker.title /\ about.year /\ about.number = "ok") \in BOOLEAN  OBVIOUS
  <1>4. /\ form \in Amounts /\ coin \in Coins \union {None}
        /\ picker.country \in Countries \union {None} /\ about.series \in Countries \union {None}
    BY DEF AmountsTyped, CoinTyped, AddressTyped
  <1> QED BY <1>2, <1>3, <1>4 DEF PurchaseBody, Body

\* What the checks let through.
LEMMA CheckedIsWhole ==
  ASSUME AmountsTyped, CoinTyped, SeriesFits, form # None, Wrong = {}
  PROVE  /\ PurchaseBody.amount \in {"zero", "sum"}
         /\ \/ PurchaseBody.coin # None
            \/ /\ PurchaseBody.country # None
               /\ PurchaseBody.complete
               /\ PurchaseBody.series \in {None, PurchaseBody.country}
  <1>1. form \in {"zero", "sum"}  BY DEF Wrong, AmountsTyped, Amounts
  <1>2. coin # None \/ (picker.country # None /\ picker.title /\ about.year /\ about.number = "ok")
    BY DEF Wrong, CoinTyped
  <1>3. /\ PurchaseBody.amount = form /\ PurchaseBody.coin = coin
        /\ PurchaseBody.country = picker.country /\ PurchaseBody.series = about.series
    BY DEF PurchaseBody
  <1>4. picker.title /\ about.year /\ about.number = "ok" => PurchaseBody.complete
    BY DEF PurchaseBody
  <1> QED BY <1>1, <1>2, <1>3, <1>4 DEF SeriesFits

LEMMA SaveStep ==
  ASSUME AmountsTyped, CoinTyped, AddressTyped, RowsTyped, PhotosTyped, SaveTyped,
         SeriesFits, StoredAfter, WholePurchase, Next
  PROVE  SaveTyped' /\ StoredAfter' /\ WholePurchase'
  <1>0. /\ save \in SavesOf /\ save.todo \subseteq save.chosen /\ save.stored \subseteq save.chosen
        /\ posting \in {"idle", "posting", "closing"}
    BY DEF SaveTyped
  <1>1. UNCHANGED save /\ posting' \in {"idle", "posting", "closing"} => SaveTyped' /\ StoredAfter' /\ WholePurchase'
    BY DEF SaveTyped, StoredAfter, WholePurchase
  <1>2. /\ Idle \in SavesOf /\ Idle.body = None
        /\ Idle.todo = {} /\ Idle.stored = {} /\ Idle.chosen = {}
    BY DEF Idle, SavesOf
  <1>3. save' = Idle /\ UNCHANGED posting => SaveTyped' /\ StoredAfter' /\ WholePurchase'
    BY <1>0, <1>2 DEF SaveTyped, StoredAfter, WholePurchase
  <1>4. CASE SubmitPurchase
    <2>1. UNCHANGED posting  BY <1>4 DEF SubmitPurchase
    <2>2. CASE Checked
      <3>1. save' = [Idle EXCEPT !.stage = "posting", !.body = PurchaseBody] /\ form # None /\ Wrong = {}
        BY <1>4, <2>2 DEF SubmitPurchase, Checked
      <3>2. save' = [stage |-> "posting", body |-> PurchaseBody, chosen |-> {}, todo |-> {},
                     stored |-> {}, failed |-> FALSE]
        BY <3>1 DEF Idle
      <3>3. PurchaseBody \in Body  BY <3>1, BodySent
      <3>4. save' \in SavesOf  BY <3>2, <3>3 DEF SavesOf
      <3>5. save'.todo \subseteq save'.chosen /\ save'.stored \subseteq save'.chosen
            /\ save'.body = PurchaseBody
        BY <3>2
      <3>6. WholePurchase'  BY <3>1, <3>5, CheckedIsWhole DEF WholePurchase
      <3> QED BY <1>0, <2>1, <3>2, <3>4, <3>5, <3>6 DEF SaveTyped, StoredAfter
    <2>3. CASE ~ Checked
      <3>1. save' = save  BY <1>4, <2>3 DEF SubmitPurchase
      <3> QED BY <1>0, <1>1, <2>1, <3>1
    <2> QED BY <2>2, <2>3
  <1>5. CASE Created
    <2> DEFINE now == {photos[s] : s \in Sides} \ {0}
    <2>1. now \in SUBSET (1 .. MaxKeys)
      <3>1. \A s \in Sides : photos[s] \in 0 .. MaxKeys  BY DEF PhotosTyped
      <3>2. MaxKeys \in Nat  BY BoundAssumption
      <3> QED BY <3>1, <3>2
    <2>2. save' = [save EXCEPT !.stage = "uploading", !.chosen = now, !.todo = now]
          /\ UNCHANGED posting /\ save.stage = "posting"
      BY <1>5 DEF Created
    <2> HIDE DEF now
    <2>3. save' \in SavesOf  BY <1>0, <2>1, <2>2 DEF SavesOf
    <2>4. save'.chosen = now /\ save'.todo = now /\ save'.body = save.body /\ save'.stored = {}
          /\ save'.stage = "uploading"
      BY <1>0, <2>2 DEF SavesOf, StoredAfter
    <2> QED BY <1>0, <2>2, <2>3, <2>4 DEF SaveTyped, StoredAfter, WholePurchase
  <1>6. CASE Refused \/ Finish  BY <1>3, <1>6 DEF Refused, Finish
  <1>7. ASSUME NEW k \in save.todo, NEW ok \in BOOLEAN, Upload(k, ok)
        PROVE  SaveTyped' /\ StoredAfter' /\ WholePurchase'
    <2> DEFINE kept == IF ok THEN save.stored \union {k} ELSE save.stored
               left == save.todo \ {k}
               lost == save.failed \/ ~ ok
    <2>1. save' = [save EXCEPT !.todo = left, !.stored = kept, !.failed = lost] /\ UNCHANGED posting
      BY <1>7 DEF Upload, Kept
    <2>2. /\ left \subseteq save.chosen /\ kept \subseteq save.chosen /\ lost \in BOOLEAN
          /\ left \in SUBSET (1 .. MaxKeys) /\ kept \in SUBSET (1 .. MaxKeys)
      BY <1>0 DEF SavesOf
    <2> HIDE DEF kept, left, lost
    <2>3. save' \in SavesOf  BY <1>0, <2>1, <2>2 DEF SavesOf
    <2>4. /\ save'.todo = left /\ save'.stored = kept /\ save'.chosen = save.chosen
          /\ save'.body = save.body /\ save'.stage = save.stage /\ save.stage = "uploading"
      BY <1>0, <1>7, <2>1 DEF SavesOf, Upload
    <2> QED BY <1>0, <2>1, <2>2, <2>3, <2>4 DEF SaveTyped, StoredAfter, WholePurchase
  <1>8. CASE Uploaded
    <2>1. save' = [save EXCEPT !.stage = "closing"] /\ UNCHANGED posting
      BY <1>8 DEF Uploaded
    <2>2. save' \in SavesOf  BY <1>0, <2>1 DEF SavesOf
    <2>3. /\ save'.todo = save.todo /\ save'.stored = save.stored /\ save'.chosen = save.chosen
          /\ save'.body = save.body /\ save'.stage = "closing"
      BY <1>0, <2>1 DEF SavesOf
    <2> QED BY <1>0, <2>1, <2>2, <2>3 DEF SaveTyped, StoredAfter, WholePurchase
  <1>9. CASE \/ SubmitExpense \/ ExpenseFinish \/ Leave \/ Left \/ Open
             \/ \E ok \in BOOLEAN : ExpenseAnswered(ok)
    BY <1>0, <1>1, <1>9 DEF SubmitExpense, ExpenseFinish, Leave, Left, Open, ExpenseAnswered, saving
  <1>10. CASE \/ \E k \in Kinds : SetType(k)
              \/ \E c \in Coins : ChooseCoin(c)
              \/ ClearCoin \/ CardAnswered
              \/ \E c \in Countries \union {None} : SetCountry(c)
              \/ TypeTitle \/ LookUp \/ SetSeries \/ SetYear
              \/ \E n \in {"ok", "bad"} : SetNumber(n)
              \/ \E a \in Amounts : SetAmount(a)
    BY <1>0, <1>1, <1>10
    DEF SetType, ChooseCoin, ClearCoin, CardAnswered, SetCountry, TypeTitle, LookUp, SetSeries,
        SetYear, SetNumber, SetAmount, saving
  <1>11. CASE \/ \E b \in Blocks : Toggle(b)
              \/ AddRow
              \/ \E i \in DOMAIN rows : RemoveRow(i) \/ \E a \in Amounts : SetRow(i, a)
              \/ \E s \in Sides : PickPhoto(s) \/ ClearPhoto(s)
              \/ CropPhoto \/ CancelCrop
    BY <1>0, <1>1, <1>11
    DEF Toggle, AddRow, RemoveRow, SetRow, PickPhoto, ClearPhoto, CropPhoto, CancelCrop, saving
  <1> QED
    BY <1>4, <1>5, <1>6, <1>7, <1>8, <1>9, <1>10, <1>11 DEF Next

-----------------------------------------------------------------------------
(* The theorems.                                                            *)

LEMMA AddBegins ==
  ASSUME Init
  PROVE  AddInv
  <1>1. AmountsTyped /\ AmountsTell
    <2>1. /\ kind \in Kinds /\ carried = "blank" /\ typed = None /\ "blank" \in Amounts
          /\ form = Addressed(kind, coin).form
      BY DEF Init, Amounts
    <2>2. form \in {None, Opened(kind, "blank")} /\ Opened(kind, "blank") \in Amounts
      BY <2>1, AddressedTyped, OpenedTyped
    <2> QED BY <2>1, <2>2 DEF AmountsTyped, AmountsTell
  <1>2. CoinTyped /\ SeriesFits  BY DEF Init, NoName, NoFields, CoinTyped, SeriesFits
  <1>3. AddressTyped
    <2>1. kind \in Kinds /\ card = Addressed(kind, coin).card  BY DEF Init
    <2>2. card \in {"none", "loading"}  BY <2>1, AddressedTyped
    <2> QED BY <2>2 DEF Init, AddressTyped
  <1>4. RowsTyped
    <2>1. <<>> \in Seq(Row) /\ Len(<<>>) = 0  BY EmptySeq
    <2> QED BY <2>1, BoundAssumption DEF Init, RowsTyped
  <1>5. FlaggedTyped  BY DEF Init, FlaggedTyped
  <1>6. PhotosTyped /\ RoomToCrop  BY BoundAssumption DEF Init, NoPhotos, PhotosTyped, RoomToCrop
  <1>7. SaveTyped /\ StoredAfter /\ WholePurchase
    <2>1. /\ Idle \in SavesOf /\ Idle.body = None /\ Idle.stored = {}
          /\ Idle.todo = {} /\ Idle.chosen = {}
      BY DEF Idle, SavesOf
    <2> QED BY <2>1 DEF Init, SaveTyped, StoredAfter, WholePurchase
  <1>8. KeyTyped /\ EditsTyped  BY BoundAssumption DEF Init, KeyTyped, EditsTyped
  <1> QED
    BY <1>1, <1>2, <1>3, <1>4, <1>5, <1>6, <1>7, <1>8, SplitsAddType DEF AddInv

LEMMA SplitsNextType ==
  ASSUME AmountsTyped', CoinTyped', AddressTyped', RowsTyped', FlaggedTyped', PhotosTyped',
         SaveTyped', KeyTyped', EditsTyped'
  PROVE  TypeOK' /\ (save \in SavesOf)'
  <1>1. save' \in SavesOf  BY DEF SaveTyped
  <1>2. /\ save'.stage \in {"idle", "posting", "uploading", "closing"}
        /\ save'.body \in Body \union {None}
        /\ save'.chosen \subseteq 1 .. MaxKeys
        /\ save'.failed \in BOOLEAN
    BY <1>1 DEF SavesOf
  <1> QED
    BY <1>1, <1>2, Zenon
    DEF TypeOK, AmountsTyped, CoinTyped, AddressTyped, RowsTyped, FlaggedTyped, PhotosTyped,
        SaveTyped, KeyTyped, EditsTyped

\* The page has its type; the form on show holds the amount the page keeps, the series is of
\* the country, and a purchase that was sent is whole.
THEOREM AddInvariant == Spec => []AddInv
  <1>1. ASSUME AddInv, [Next]_vars  PROVE AddInv'
    <2>1. /\ AmountsTyped /\ CoinTyped /\ AddressTyped /\ RowsTyped /\ FlaggedTyped
          /\ PhotosTyped /\ SaveTyped /\ KeyTyped /\ EditsTyped
          /\ AmountsTell /\ SeriesFits /\ RoomToCrop /\ StoredAfter /\ WholePurchase
      BY <1>1, SplitsAddType DEF AddInv
    <2>2. CASE Next
      <3>1. AmountsTyped' /\ AmountsTell'  BY <2>1, <2>2, AmountsStep
      <3>2. CoinTyped' /\ SeriesFits'  BY <2>1, <2>2, CoinStep
      <3>3. AddressTyped'  BY <2>1, <2>2, AddressStep
      <3>4. RowsTyped' /\ KeyTyped'  BY <2>1, <2>2, RowsStep
      <3>5. FlaggedTyped' /\ EditsTyped'  BY <2>1, <2>2, FlaggedStep, EditsStep
      <3>6. PhotosTyped' /\ RoomToCrop'  BY <2>1, <2>2, PhotosStep
      <3>7. SaveTyped' /\ StoredAfter' /\ WholePurchase'  BY <2>1, <2>2, SaveStep
      <3> QED BY <3>1, <3>2, <3>3, <3>4, <3>5, <3>6, <3>7, SplitsNextType DEF AddInv
    <2>3. CASE UNCHANGED vars
      <3>1. UNCHANGED <<page, kind, coin, card, picker, about, carried, form, typed, rows, rowErrors,
                        unfolded, flagged, photos, revoked, cropping, nextKey, save, posting, edits>>
        BY <2>3
        DEF vars, address, coinFields, amounts, extras, pictures, saving
      <3>2. TypeOK' /\ (save \in SavesOf)'
        <4>1. AmountsTyped' /\ CoinTyped' /\ AddressTyped' /\ RowsTyped'
          BY <2>1, <3>1 DEF AmountsTyped, CoinTyped, AddressTyped, RowsTyped
        <4>2. FlaggedTyped' /\ PhotosTyped' /\ SaveTyped' /\ KeyTyped' /\ EditsTyped'
          BY <2>1, <3>1 DEF FlaggedTyped, PhotosTyped, SaveTyped, KeyTyped, EditsTyped
        <4> QED BY <4>1, <4>2, SplitsNextType
      <3>3. AmountsTell' /\ SeriesFits' /\ RoomToCrop' /\ StoredAfter' /\ WholePurchase'
        BY <2>1, <3>1 DEF AmountsTell, SeriesFits, RoomToCrop, StoredAfter, WholePurchase
      <3> QED BY <3>2, <3>3 DEF AddInv
    <2> QED BY <1>1, <2>2, <2>3
  <1> QED BY <1>1, AddBegins, PTL DEF Spec

\* Nothing but a whole purchase is ever sent, in whatever order the page was filled in.
THEOREM PurchaseIsWhole == Spec => []WholePurchase
  <1>1. AddInv => WholePurchase  BY DEF AddInv
  <1> QED BY <1>1, AddInvariant, PTL

\* No change of type or coin loses the price that was typed.
THEOREM PriceSurvives == Spec => []SurvivesSwitching
  <1>1. AddInv => SurvivesSwitching
    BY OpenedTyped DEF AddInv, AmountsTell, SurvivesSwitching, TypeOK, Opened
  <1> QED BY <1>1, AddInvariant, PTL

-----------------------------------------------------------------------------
(*                               THE JOURNAL                                *)
-----------------------------------------------------------------------------

\* The keys "editor" and e hold the form of e with that text, and no other form is kept.
KeptForm(d, e, text) ==
  /\ d.of["editor"] = e
  /\ \A x \in Expenses : d.of[x] = IF x = e THEN text ELSE Unknown

NoFormKept(d) ==
  /\ d.of["editor"] \in {Shut, Unknown}
  /\ \A x \in Expenses : d.of[x] = Unknown
  /\ d.recoverable \subseteq {"editor"}

\* A form is that of an expense, with a text of its own.
FormsSay ==
  /\ Edits(open) => open.row \in Expenses /\ typing \in Wordings
  /\ \A c \in calls : c.kind = "edit" => c.row \in Expenses /\ c.text \in Wordings

\* On the page the drafts are those of the form on show, and cannot be taken for
\* those of an earlier one; elsewhere they are what the last expiry took.
DraftsTell ==
  /\ where = "journal" =>
       /\ taken = Shut /\ drafts.recoverable = {}
       /\ Edits(open) => KeptForm(drafts, open.row, typing)
       /\ ~ Edits(open) => NoFormKept(drafts)
  /\ where # "journal" =>
       /\ open = Shut
       /\ taken = Shut => NoFormKept(drafts)
       /\ taken # Shut => /\ KeptForm(drafts, taken.row, taken.text)
                          /\ drafts.recoverable = {"editor", taken.row}
                          /\ drafts.owned
  /\ where # "signed out" => drafts.owned /\ ~ drafts.retaining

Saves(c) == c.mine /\ c.kind = "edit"
SaveIsIn(c) == Saves(c) /\ c.stage = "applied"

\* One save is awaited at a time, and none whose connection broke.  Apart from the rows changed
\* without a report, a row says what its save asked once the server has it, and
\* otherwise what the page was last told.
SavesCarry ==
  /\ \A c, d \in calls : Saves(c) /\ Saves(d) => c = d
  /\ \A c \in calls : Saves(c) => c.stage # "lost"
  /\ \A c \in calls : SaveIsIn(c) /\ c.row \notin unreported => journal[c.row] \in {c.text, Gone}
  /\ \A e \in Expenses :
       /\ reported[e] # Unknown /\ e \notin unreported
       /\ \A c \in calls : c.row = e => ~ SaveIsIn(c)
       => journal[e] \in {reported[e], Gone}

JournalInv == JournalTypeOK /\ FormsSay /\ DraftsTell /\ SavesCarry

LEMMA JournalBegins ==
  ASSUME JournalInit
  PROVE  JournalInv
  <1>1. JournalTypeOK
    BY JournalAssumption
    DEF JournalInit, JournalTypeOK, NothingListed, NothingReported, NoDrafts, Dialogs, DraftKeys
  <1>2. FormsSay  BY DEF JournalInit, FormsSay, Edits
  <1>3. DraftsTell
    BY DEF JournalInit, DraftsTell, NoDrafts, NoFormKept, DraftKeys
  <1>4. SavesCarry  BY DEF JournalInit, SavesCarry, NothingReported
  <1> QED BY <1>1, <1>2, <1>3, <1>4 DEF JournalInv

-----------------------------------------------------------------------------
(* Saves.                                                                   *)

LEMMA CallTyped ==
  ASSUME JournalTypeOK, NEW c \in calls
  PROVE  /\ c \in Calls
         /\ \A s \in {"sent", "lost", "applied", "answered"} :
              /\ [c EXCEPT !.stage = s] \in Calls
              /\ [c EXCEPT !.stage = s].stage = s
              /\ [c EXCEPT !.stage = s].kind = c.kind /\ [c EXCEPT !.stage = s].row = c.row
              /\ [c EXCEPT !.stage = s].text = c.text /\ [c EXCEPT !.stage = s].mine = c.mine
         /\ [c EXCEPT !.mine = FALSE] \in Calls
         /\ [c EXCEPT !.mine = FALSE].mine = FALSE
         /\ [c EXCEPT !.mine = FALSE].kind = c.kind /\ [c EXCEPT !.mine = FALSE].row = c.row
         /\ [c EXCEPT !.mine = FALSE].text = c.text
         /\ [c EXCEPT !.mine = FALSE, !.stage = "lost"] \in Calls
         /\ [c EXCEPT !.mine = FALSE, !.stage = "lost"].mine = FALSE
         /\ [c EXCEPT !.mine = FALSE, !.stage = "lost"].kind = c.kind
         /\ [c EXCEPT !.mine = FALSE, !.stage = "lost"].row = c.row
         /\ [c EXCEPT !.mine = FALSE, !.stage = "lost"].text = c.text
  BY DEF JournalTypeOK, Calls

\* What the requests of a step become: the other calls stay, and what is new is c with
\* its stage changed, or withdrawn from the page.
LEMMA CallMoves ==
  ASSUME JournalTypeOK, NEW c \in calls,
         ServerApplies(c) \/ CallFails(c) \/ CallAnswered(c) \/ CallFinished(c)
  PROVE  /\ \A d \in calls : d = c \/ d \in calls'
         /\ \A d \in calls' : (d \in calls /\ d # c)
              \/ (d.kind = c.kind /\ d.row = c.row /\ d.text = c.text)
  <1>1. ASSUME NEW d \in calls'
        PROVE  \/ d \in calls /\ d # c
               \/ d = [c EXCEPT !.mine = FALSE, !.stage = "lost"]
               \/ \E s \in {"applied", "answered"} : d = [c EXCEPT !.stage = s]
    BY <1>1 DEF ServerApplies, CallFails, CallAnswered, CallFinished, Moved
  <1>2. \A d \in calls : d = c \/ d \in calls'
    BY DEF ServerApplies, CallFails, CallAnswered, CallFinished, Moved
  <1>3. ASSUME NEW d \in calls', ~ (d \in calls /\ d # c)
        PROVE  d.kind = c.kind /\ d.row = c.row /\ d.text = c.text
    <2>1. CASE d = [c EXCEPT !.mine = FALSE, !.stage = "lost"]
      <3> DEFINE lost == [c EXCEPT !.mine = FALSE, !.stage = "lost"]
      <3>1. lost.kind = c.kind /\ lost.row = c.row /\ lost.text = c.text
        BY CallTyped
      <3>2. d = lost  BY <2>1
      <3> HIDE DEF lost
      <3> QED BY <3>1, <3>2
    <2>2. ASSUME NEW s \in {"applied", "answered"}, d = [c EXCEPT !.stage = s]
          PROVE  d.kind = c.kind /\ d.row = c.row /\ d.text = c.text
      <3> DEFINE moved == [c EXCEPT !.stage = s]
      <3>1. moved.kind = c.kind /\ moved.row = c.row /\ moved.text = c.text
        <4>1. c \in Calls  BY CallTyped
        <4> QED BY <4>1 DEF Calls
      <3>2. d = moved  BY <2>2
      <3> HIDE DEF moved
      <3> QED BY <3>1, <3>2
    <2> QED BY <1>1, <1>3, <2>1, <2>2
  <1> QED BY <1>2, <1>3

LEMMA SaveSent ==
  ASSUME JournalTypeOK, FormsSay, SavesCarry, ConfirmDialog
  PROVE  SavesCarry'
  <1> DEFINE new == [n |-> callsSent + 1, kind |-> open.kind, row |-> open.row,
                     text |-> typing, mine |-> TRUE, stage |-> "sent"]
  <1>1. /\ calls' = calls \cup {new} /\ journal' = journal
        /\ reported' = reported /\ unreported' = unreported
        /\ ~ Pending(open.kind)
    BY DEF ConfirmDialog, told
  <1>2. new.kind = open.kind /\ new.mine /\ new.stage = "sent"
    OBVIOUS
  <1> HIDE DEF new
  <1>3. ~ SaveIsIn(new) /\ new.stage # "lost" /\ (Saves(new) => \A c \in calls : ~ Saves(c))
    BY <1>1, <1>2 DEF SaveIsIn, Saves, Pending
  <1> QED BY <1>1, <1>3 DEF SavesCarry

LEMMA SaveApplied ==
  ASSUME JournalTypeOK, FormsSay, SavesCarry, NEW c \in calls, ServerApplies(c)
  PROVE  SavesCarry'
  <1>1. /\ \A d, b \in calls' : Saves(d) /\ Saves(b) => d = b
        /\ \A d \in calls' : Saves(d) => d.stage # "lost"
    <2>1. CASE c.stage = "lost"
      BY <2>1 DEF ServerApplies, SavesCarry
    <2>2. CASE c.stage = "sent"
      <3> DEFINE in == [c EXCEPT !.stage = "applied"]
      <3>1. calls' = (calls \ {c}) \cup {in}  BY <2>2 DEF ServerApplies, Moved
      <3>2. in.stage = "applied" /\ (Saves(in) => Saves(c))  BY CallTyped DEF Saves
      <3> HIDE DEF in
      <3> QED BY <3>1, <3>2 DEF SavesCarry
    <2> QED BY <2>1, <2>2 DEF ServerApplies
  <1>2. /\ c.row \in Entries /\ journal \in [Entries -> Wordings \cup {Gone}]
        /\ Expenses \subseteq Entries
    BY CallTyped DEF Calls, JournalTypeOK, Entries
  <1>3. /\ journal'[c.row] = IF c.kind = "edit" THEN c.text ELSE Gone
        /\ \A x \in Entries \ {c.row} : journal'[x] = journal[x]
        /\ \A x \in Expenses \ {c.row} : x \in unreported' <=> x \in unreported
        /\ c.row \in Expenses /\ c.row \notin unreported' => c.mine
        /\ reported' = reported
    BY <1>2 DEF ServerApplies
  <1>4. /\ \A d \in calls : d = c \/ d \in calls'
        /\ \A d \in calls' : (d \in calls /\ d # c)
             \/ (d.kind = c.kind /\ d.row = c.row /\ d.text = c.text)
    BY CallMoves
  <1>5. ASSUME NEW d \in calls', SaveIsIn(d), d.row \notin unreported'
        PROVE  journal'[d.row] \in {d.text, Gone}
    <2>1. CASE d.row = c.row
      <3>1. CASE c.kind = "edit"
        <4>1. CASE d \in calls /\ d # c
          <5>1. d.row \in Expenses  BY <1>5, <4>1 DEF FormsSay, SaveIsIn, Saves
          <5>2. Saves(c)  BY <1>3, <1>5, <2>1, <3>1, <5>1 DEF Saves
          <5> QED BY <1>5, <4>1, <5>2 DEF SavesCarry, SaveIsIn
        <4>2. CASE ~ (d \in calls /\ d # c)
          BY <1>3, <1>4, <2>1, <3>1, <4>2
        <4> QED BY <4>1, <4>2
      <3> QED BY <1>3, <2>1, <3>1
    <2>2. CASE d.row # c.row
      <3>1. d \in calls /\ d.row \in Expenses
        BY <1>4, <1>5, <2>2 DEF FormsSay, SaveIsIn, Saves
      <3> QED BY <1>2, <1>3, <1>5, <2>2, <3>1 DEF SavesCarry
    <2> QED BY <2>1, <2>2
  <1>6. ASSUME NEW e \in Expenses, reported'[e] # Unknown, e \notin unreported',
               \A d \in calls' : d.row = e => ~ SaveIsIn(d)
        PROVE  journal'[e] \in {reported'[e], Gone}
    <2>1. CASE c.row = e
      <3>1. c.mine  BY <1>3, <1>6, <2>1
      <3>2. CASE c.kind = "edit"
        <4> DEFINE in == [c EXCEPT !.stage = "applied"]
        <4>1. CASE c.stage = "sent"
          <5>1. in \in calls'  BY <4>1 DEF ServerApplies, Moved
          <5>2. /\ in.stage = "applied" /\ in.kind = c.kind
                /\ in.row = c.row /\ in.mine = c.mine
            BY CallTyped
          <5> HIDE DEF in
          <5> QED BY <1>6, <2>1, <3>1, <3>2, <5>1, <5>2 DEF SaveIsIn, Saves
        <4>2. CASE c.stage = "lost"
          BY <3>1, <3>2, <4>2 DEF SavesCarry, Saves
        <4> QED BY <4>1, <4>2 DEF ServerApplies
      <3> QED BY <1>3, <2>1, <3>2
    <2>2. CASE c.row # e
      <3>1. \A d \in calls : d.row = e => ~ SaveIsIn(d)
        BY <1>4, <1>6, <2>2
      <3> QED BY <1>2, <1>3, <1>6, <2>2, <3>1 DEF SavesCarry
    <2> QED BY <2>1, <2>2
  <1> QED BY <1>1, <1>5, <1>6 DEF SavesCarry

LEMMA SaveFails ==
  ASSUME JournalTypeOK, FormsSay, SavesCarry, NEW c \in calls, CallFails(c)
  PROVE  SavesCarry'
  <1>1. /\ journal' = journal /\ reported' = reported
        /\ unreported \subseteq unreported'
        /\ c.mine /\ c.stage = "applied" /\ c.row \in Expenses => c.row \in unreported'
    BY DEF CallFails
  <1> DEFINE lost == [c EXCEPT !.mine = FALSE, !.stage = "lost"]
  <1>2. ~ Saves(lost)  BY CallTyped DEF Saves
  <1>3. (\A d \in calls' : d \in calls \/ d = lost) /\ (\A d \in calls : d = c \/ d \in calls')
    BY DEF CallFails
  <1> HIDE DEF lost
  <1>4. \A d \in calls' : Saves(d) => d \in calls  BY <1>2, <1>3
  <1>5. ASSUME NEW e \in Expenses, reported'[e] # Unknown, e \notin unreported',
               \A d \in calls' : d.row = e => ~ SaveIsIn(d)
        PROVE  journal'[e] \in {reported'[e], Gone}
    <2>1. \A d \in calls : d.row = e => ~ SaveIsIn(d)
      BY <1>1, <1>3, <1>5 DEF SaveIsIn, Saves
    <2> QED BY <1>1, <1>5, <2>1 DEF SavesCarry
  <1> QED BY <1>1, <1>4, <1>5 DEF SavesCarry, SaveIsIn

LEMMA SaveReported ==
  ASSUME JournalTypeOK, FormsSay, SavesCarry, NEW c \in calls, CallAnswered(c)
  PROVE  SavesCarry'
  <1> DEFINE done == [c EXCEPT !.stage = "answered"]
  <1>1. /\ journal' = journal /\ unreported' = unreported
        /\ reported' = IF Saves(c) THEN [reported EXCEPT ![c.row] = c.text] ELSE reported
        /\ c.stage = "applied"
        /\ reported \in [Expenses -> Wordings \cup {Unknown}]
    BY DEF CallAnswered, Saves, JournalTypeOK
  <1>2. ~ SaveIsIn(done) /\ done.stage # "lost" /\ (Saves(done) => Saves(c))
    BY CallTyped DEF SaveIsIn, Saves
  <1>3. /\ \A d \in calls' : (d \in calls /\ d # c) \/ d = done
        /\ \A d \in calls : d = c \/ d \in calls'
    BY DEF CallAnswered, Moved
  <1> HIDE DEF done
  <1>4. /\ \A d, b \in calls' : Saves(d) /\ Saves(b) => d = b
        /\ \A d \in calls' : Saves(d) => d.stage # "lost"
    BY <1>2, <1>3 DEF SavesCarry
  <1>5. \A d \in calls' : SaveIsIn(d) => d \in calls  BY <1>2, <1>3
  <1>6. ASSUME NEW e \in Expenses, reported'[e] # Unknown, e \notin unreported',
               \A d \in calls' : d.row = e => ~ SaveIsIn(d)
        PROVE  journal'[e] \in {reported'[e], Gone}
    <2>1. CASE Saves(c) /\ c.row = e
      <3>1. reported'[e] = c.text  BY <1>1, <2>1
      <3>2. SaveIsIn(c)  BY <1>1, <2>1 DEF SaveIsIn
      <3> QED BY <1>1, <1>6, <2>1, <3>1, <3>2 DEF SavesCarry
    <2>2. CASE ~ (Saves(c) /\ c.row = e)
      <3>1. reported'[e] = reported[e]  BY <1>1, <2>2
      <3>2. \A d \in calls : d.row = e => ~ SaveIsIn(d)
        BY <1>3, <1>6, <2>2 DEF SaveIsIn
      <3> QED BY <1>1, <1>6, <3>1, <3>2 DEF SavesCarry
    <2> QED BY <2>1, <2>2
  <1> QED BY <1>1, <1>4, <1>5, <1>6 DEF SavesCarry

LEMMA SavesCarryOn ==
  ASSUME JournalTypeOK, FormsSay, SavesCarry, JournalNext
  PROVE  SavesCarry'
  <1>1. CASE Unmounted
    <2>1. \A d \in calls' : ~ Saves(d)
      <3> SUFFICES ASSUME NEW d \in calls' PROVE ~ Saves(d)
        OBVIOUS
      <3>1. PICK b \in calls : d = [b EXCEPT !.mine = FALSE]  BY <1>1 DEF Unmounted
      <3> QED BY <3>1, CallTyped DEF Saves
    <2> QED BY <1>1, <2>1 DEF Unmounted, SavesCarry, SaveIsIn, NothingReported
  <1>2. CASE UNCHANGED <<journal, calls, told>>
    BY <1>2 DEF SavesCarry, told
  <1>3. ASSUME NEW c \in calls, CallFinished(c)
        PROVE  SavesCarry'
    <2>1. /\ calls' = calls \ {c} /\ c.stage = "answered"
          /\ UNCHANGED <<journal, reported, unreported>>
      BY <1>3 DEF CallFinished, told
    <2> QED BY <2>1 DEF SavesCarry, SaveIsIn
  <1> QED
    BY <1>1, <1>2, <1>3, SaveSent, SaveApplied, SaveFails, SaveReported
    DEF JournalNext, OpenJournal, LeaveJournal, ExpireOnJournal, ExpireElsewhere, LeaveSession,
        SignInAgain, PressPencil, PressBin, TypeInForm, CloseJournalDialog, ListIsRead

-----------------------------------------------------------------------------
(* Drafts.                                                                  *)

LEMMA CallsKeepForms ==
  ASSUME JournalTypeOK, FormsSay, JournalNext, ~ ConfirmDialog
  PROVE  \A c \in calls' : c.kind = "edit" => c.row \in Expenses /\ c.text \in Wordings
  <1>1. ASSUME NEW d \in calls', d \notin calls
        PROVE  \E c \in calls : d.kind = c.kind /\ d.row = c.row /\ d.text = c.text
    <2>1. CASE Unmounted
      <3>1. PICK b \in calls : d = [b EXCEPT !.mine = FALSE]  BY <1>1, <2>1 DEF Unmounted
      <3> QED BY <3>1, CallTyped
    <2>2. ASSUME NEW c \in calls,
                 ServerApplies(c) \/ CallFails(c) \/ CallAnswered(c) \/ CallFinished(c)
          PROVE  \E b \in calls : d.kind = b.kind /\ d.row = b.row /\ d.text = b.text
      <3> QED BY <1>1, <2>2, CallMoves
    <2> QED
      BY <1>1, <2>1, <2>2
      DEF JournalNext, OpenJournal, LeaveJournal, ExpireOnJournal, ExpireElsewhere, LeaveSession,
          SignInAgain, PressPencil, PressBin, TypeInForm, CloseJournalDialog, ListIsRead
  <1> QED BY <1>1 DEF FormsSay

LEMMA DialogIsOpen ==
  ASSUME NEW k \in DialogKinds, NEW x \in Entries
  PROVE  [kind |-> k, row |-> x] # Shut
  BY JournalAssumption

LEMMA TakenIsThere ==
  ASSUME NEW x \in Expenses, NEW text \in Wordings
  PROVE  /\ [row |-> x, text |-> text] # Shut
         /\ [row |-> x, text |-> text].row = x /\ [row |-> x, text |-> text].text = text
  BY JournalAssumption

\* What happens to the drafts of a key.
DraftValues == Wordings \cup Expenses \cup {Shut, Unknown}
Drafted == [of : [DraftKeys -> DraftValues],
            recoverable : SUBSET DraftKeys, retaining : BOOLEAN, owned : BOOLEAN]

LEMMA DraftsRetained ==
  ASSUME NEW d \in Drafted
  PROVE  /\ RetainDrafts(d) \in Drafted
         /\ RetainDrafts(d).owned = d.owned
         /\ RetainDrafts(d).of = d.of
         /\ RetainDrafts(d).recoverable = d.recoverable \cup {k \in DraftKeys : d.of[k] # Unknown}
  BY DEF Drafted, DraftValues, RetainDrafts

LEMMA DraftsNone ==
  ASSUME NEW o \in BOOLEAN
  PROVE  /\ NoDrafts(o) \in Drafted /\ NoFormKept(NoDrafts(o))
         /\ NoDrafts(o).owned = o /\ NoDrafts(o).retaining = FALSE
  BY DEF Drafted, DraftValues, NoDrafts, NoFormKept, DraftKeys

LEMMA DraftsOwned ==
  ASSUME NEW d \in Drafted
  PROVE  /\ OwnedAgain(d) \in Drafted
         /\ OwnedAgain(d).owned /\ ~ OwnedAgain(d).retaining
         /\ d.owned => OwnedAgain(d).of = d.of /\ OwnedAgain(d).recoverable = d.recoverable
         /\ ~ d.owned => NoFormKept(OwnedAgain(d))
  <1>1. CASE d.owned
    <2>1. OwnedAgain(d) = [d EXCEPT !.retaining = FALSE]  BY <1>1 DEF OwnedAgain
    <2> QED BY <1>1, <2>1 DEF Drafted, DraftValues
  <1>2. CASE ~ d.owned
    <2>1. OwnedAgain(d) = NoDrafts(TRUE)  BY <1>2 DEF OwnedAgain
    <2>2. /\ NoDrafts(TRUE) \in Drafted /\ NoFormKept(NoDrafts(TRUE))
          /\ NoDrafts(TRUE).owned = TRUE /\ NoDrafts(TRUE).retaining = FALSE
      BY DraftsNone, Zenon
    <2> HIDE DEF NoDrafts
    <2> QED BY <1>2, <2>1, <2>2
  <1> QED BY <1>1, <1>2

LEMMA FormMounts ==
  ASSUME NEW d \in Drafted, d.owned, NEW e \in Expenses, NEW says \in Wordings \cup {Unknown},
         \A x \in Expenses : x # e => d.of[x] = Unknown, d.recoverable \subseteq {"editor", e}
  PROVE  /\ FormMounted(d, e, says) \in Drafted
         /\ FormMounted(d, e, says).owned
         /\ FormMounted(d, e, says).retaining = d.retaining
         /\ FormMounted(d, e, says).recoverable = {}
         /\ KeptForm(FormMounted(d, e, says), e, says)
  <1> DEFINE m == DraftWritten(d, e, says)
  <1> DEFINE n == DraftWritten(m, "editor", e)
  <1>0. e \in DraftKeys /\ "editor" \in DraftKeys /\ e # "editor"
        /\ \A x \in Expenses : x \in DraftKeys /\ x # "editor"
    BY JournalAssumption DEF DraftKeys
  <1>1. says \in DraftValues /\ e \in DraftValues  BY DEF DraftValues
  <1>2. /\ m \in Drafted /\ m.owned = d.owned /\ m.retaining = d.retaining
        /\ m.recoverable = d.recoverable \ {e}
    BY <1>0, <1>1 DEF DraftWritten, Drafted
  <1>3. \A x \in DraftKeys : m.of[x] = IF x = e THEN says ELSE d.of[x]
    BY <1>0, <1>1 DEF DraftWritten, Drafted
  <1> HIDE DEF m
  <1>4. /\ n \in Drafted /\ n.owned = m.owned /\ n.retaining = m.retaining
        /\ n.recoverable = m.recoverable \ {"editor"}
    BY <1>0, <1>1, <1>2 DEF DraftWritten, Drafted
  <1>5. \A x \in DraftKeys : n.of[x] = IF x = "editor" THEN e ELSE m.of[x]
    BY <1>0, <1>1, <1>2 DEF DraftWritten, Drafted
  <1>6. FormMounted(d, e, says) = n  BY DEF FormMounted, m
  <1> HIDE DEF n
  <1>7. KeptForm(n, e, says)  BY <1>0, <1>3, <1>5 DEF KeptForm
  <1> QED BY <1>2, <1>4, <1>6, <1>7

LEMMA FormUnmounts ==
  ASSUME NEW d \in Drafted, d.owned, ~ d.retaining, d.recoverable = {},
         Edits(open) => open.row \in Expenses /\ KeptForm(d, open.row, typing),
         ~ Edits(open) => NoFormKept(d)
  PROVE  /\ FormUnmounted(d) \in Drafted
         /\ FormUnmounted(d).owned /\ ~ FormUnmounted(d).retaining
         /\ FormUnmounted(d).recoverable = {}
         /\ NoFormKept(FormUnmounted(d))
  <1>1. CASE ~ Edits(open)  BY <1>1 DEF FormUnmounted
  <1>2. CASE Edits(open)
    <2> DEFINE m == DraftReleased(d, open.row)
    <2> DEFINE n == DraftWritten(m, "editor", Shut)
    <2>0. open.row \in DraftKeys /\ "editor" \in DraftKeys
          /\ \A x \in Expenses : x \in DraftKeys /\ x # "editor"
      BY <1>2, JournalAssumption DEF DraftKeys
    <2>1. /\ m \in Drafted /\ m.owned = d.owned /\ m.retaining = d.retaining
          /\ m.recoverable = d.recoverable \ {open.row}
      BY <2>0 DEF DraftReleased, Drafted, DraftValues
    <2>2. \A x \in DraftKeys : m.of[x] = IF x = open.row THEN Unknown ELSE d.of[x]
      BY <2>0 DEF DraftReleased, Drafted, DraftValues
    <2> HIDE DEF m
    <2>3. Shut \in DraftValues  BY DEF DraftValues
    <2>4. /\ n \in Drafted /\ n.owned = m.owned /\ n.retaining = m.retaining
          /\ n.recoverable = m.recoverable \ {"editor"}
      BY <2>0, <2>1, <2>3 DEF DraftWritten, Drafted
    <2>5. \A x \in DraftKeys : n.of[x] = IF x = "editor" THEN Shut ELSE m.of[x]
      BY <2>0, <2>1, <2>3 DEF DraftWritten, Drafted
    <2>6. FormUnmounted(d) = n  BY <1>2 DEF FormUnmounted, m
    <2> HIDE DEF n
    <2>7. NoFormKept(n)  BY <1>2, <2>0, <2>1, <2>2, <2>4, <2>5 DEF KeptForm, NoFormKept
    <2> QED BY <2>1, <2>4, <2>6, <2>7
  <1> QED BY <1>1, <1>2

\* Opened again, the page brings back the form an expiry took, and no other.
LEMMA PageMounts ==
  ASSUME NEW d \in Drafted, d.owned, ~ d.retaining, Mounted(d),
         taken \in {Shut} \cup [row : Expenses, text : Wordings],
         taken = Shut => NoFormKept(d),
         taken # Shut => /\ KeptForm(d, taken.row, taken.text)
                         /\ d.recoverable = {"editor", taken.row}
  PROVE  /\ where' = "journal" /\ reader' = "page" /\ taken' = Shut
         /\ drafts' \in Drafted /\ drafts'.owned /\ ~ drafts'.retaining
         /\ drafts'.recoverable = {}
         /\ taken = Shut => open' = Shut /\ typing' = Unknown /\ NoFormKept(drafts')
         /\ taken # Shut => /\ open' = [kind |-> "edit", row |-> taken.row]
                            /\ typing' = taken.text
                            /\ KeptForm(drafts', taken.row, taken.text)
  <1>0. /\ Shut \notin Expenses /\ Unknown \notin Expenses
        /\ Shut \in DraftValues /\ "editor" \in DraftKeys
        /\ \A x \in Expenses : x \in DraftKeys /\ x # "editor"
    BY JournalAssumption DEF DraftKeys, DraftValues, Entries
  <1>1. CASE taken = Shut
    <2>1. DraftRead(d, "editor") \notin Expenses
      BY <1>0, <1>1 DEF DraftRead, NoFormKept
    <2>2. /\ open' = Shut /\ typing' = Unknown
          /\ drafts' = DraftWritten(d, "editor", Shut)
      BY <2>1 DEF Mounted
    <2>3. /\ drafts' \in Drafted /\ drafts'.owned = d.owned /\ drafts'.retaining = d.retaining
          /\ drafts'.recoverable = d.recoverable \ {"editor"}
      BY <2>2, <1>0 DEF DraftWritten, Drafted
    <2>4. \A x \in DraftKeys : drafts'.of[x] = IF x = "editor" THEN Shut ELSE d.of[x]
      BY <2>2, <1>0 DEF DraftWritten, Drafted
    <2>5. drafts'.recoverable = {}  BY <1>1, <2>3 DEF NoFormKept
    <2>6. NoFormKept(drafts')
      BY <1>0, <1>1, <2>4, <2>5 DEF NoFormKept
    <2> QED BY <1>1, <2>2, <2>3, <2>5, <2>6 DEF Mounted
  <1>2. CASE taken # Shut
    <2>1. taken.row \in Expenses /\ taken.text \in Wordings  BY <1>2
    <2>2. DraftRead(d, "editor") = taken.row /\ DraftRead(d, taken.row) = taken.text
      BY <1>2, <2>1 DEF DraftRead, KeptForm
    <2>3. taken.text # Unknown  BY <2>1, JournalAssumption
    <2>4. /\ open' = [kind |-> "edit", row |-> taken.row] /\ typing' = taken.text
          /\ drafts' = FormMounted(d, taken.row, taken.text)
      BY <2>1, <2>2, <2>3 DEF Mounted
    <2>5. \A x \in Expenses : x # taken.row => d.of[x] = Unknown
      BY <1>2 DEF KeptForm
    <2>6. /\ FormMounted(d, taken.row, taken.text) \in Drafted
          /\ FormMounted(d, taken.row, taken.text).owned
          /\ FormMounted(d, taken.row, taken.text).retaining = d.retaining
          /\ FormMounted(d, taken.row, taken.text).recoverable = {}
          /\ KeptForm(FormMounted(d, taken.row, taken.text), taken.row, taken.text)
      BY <1>2, <2>1, <2>5, FormMounts
    <2> QED BY <1>2, <2>4, <2>6 DEF Mounted
  <1> QED BY <1>1, <1>2

\* What an action leaves of the forms and the drafts, in one formula.
FormsKeepOn == FormsSay /\ DraftsTell /\ open \in Dialogs /\ drafts \in Drafted
               /\ typing \in Wordings \cup {Unknown}
               /\ taken \in {Shut} \cup [row : Expenses, text : Wordings]

LEMMA FormsStep ==
  ASSUME JournalInv, JournalNext
  PROVE  FormsKeepOn'
  <1>0. /\ JournalTypeOK /\ FormsSay /\ DraftsTell
        /\ drafts \in Drafted
        /\ taken \in {Shut} \cup [row : Expenses, text : Wordings]
        /\ listed \in [Entries -> Wordings \cup {Gone}]
    BY DEF JournalInv, JournalTypeOK, Drafted, DraftValues
  <1>a. Expenses \subseteq Entries /\ "edit" \in DialogKinds /\ "delete" \in DialogKinds
        /\ "deleteCoin" \in DialogKinds
    BY DEF Entries, DialogKinds
  <1>b. /\ open \in Dialogs /\ typing \in Wordings \cup {Unknown}
        /\ Edits(open) => open.row \in Expenses /\ typing \in Wordings
    BY <1>0 DEF JournalTypeOK, FormsSay
  <1>c. ~ ConfirmDialog => \A c \in calls' : c.kind = "edit" => c.row \in Expenses /\ c.text \in Wordings
    BY <1>0, CallsKeepForms
  <1>1. ASSUME NEW d \in Drafted, d.owned, ~ d.retaining, Mounted(d), ~ ConfirmDialog,
               taken = Shut => NoFormKept(d),
               taken # Shut => /\ KeptForm(d, taken.row, taken.text)
                               /\ d.recoverable = {"editor", taken.row}
        PROVE  FormsKeepOn'
    <2>1. /\ where' = "journal" /\ reader' = "page" /\ taken' = Shut
          /\ drafts' \in Drafted /\ drafts'.owned /\ ~ drafts'.retaining
          /\ drafts'.recoverable = {}
          /\ taken = Shut => open' = Shut /\ typing' = Unknown /\ NoFormKept(drafts')
          /\ taken # Shut => /\ open' = [kind |-> "edit", row |-> taken.row]
                             /\ typing' = taken.text
                             /\ KeptForm(drafts', taken.row, taken.text)
      BY <1>0, <1>1, PageMounts
    <2>2. CASE taken = Shut
      <3>1. ~ Edits(open')  BY <2>1, <2>2 DEF Edits
      <3> QED BY <1>c, <1>1, <2>1, <2>2, <3>1 DEF FormsKeepOn, FormsSay, DraftsTell, Dialogs
    <2>3. CASE taken # Shut
      <3>1. taken.row \in Expenses /\ taken.text \in Wordings  BY <1>0, <2>3
      <3>2. open' \in Dialogs /\ Edits(open') /\ open'.row = taken.row
        BY <1>a, <2>1, <2>3, <3>1, DialogIsOpen DEF Edits, Dialogs
      <3> QED BY <1>c, <1>1, <2>1, <2>3, <3>1, <3>2 DEF FormsKeepOn, FormsSay, DraftsTell
    <2> QED BY <2>2, <2>3
  <1>2. CASE OpenJournal
    BY <1>0, <1>1, <1>2 DEF OpenJournal, DraftsTell, ConfirmDialog
  <1>3. CASE SignInAgain
    <2>1. /\ OwnedAgain(drafts) \in Drafted
          /\ OwnedAgain(drafts).owned /\ ~ OwnedAgain(drafts).retaining
          /\ drafts.owned => OwnedAgain(drafts).of = drafts.of
                             /\ OwnedAgain(drafts).recoverable = drafts.recoverable
          /\ ~ drafts.owned => NoFormKept(OwnedAgain(drafts))
      BY <1>0, DraftsOwned
    <2> DEFINE d == OwnedAgain(drafts)
    <2>2. /\ taken = Shut => NoFormKept(d)
          /\ taken # Shut => /\ KeptForm(d, taken.row, taken.text)
                             /\ d.recoverable = {"editor", taken.row}
      BY <1>0, <1>3, <2>1 DEF SignInAgain, DraftsTell, NoFormKept, KeptForm
    <2>3. CASE Mounted(d)
      <3>1. ~ ConfirmDialog  BY <1>0, <1>3 DEF SignInAgain, ConfirmDialog, DraftsTell
      <3> QED BY <1>1, <2>1, <2>2, <2>3, <3>1
    <2>4. CASE ~ Mounted(d)
      <3>1. where' = "elsewhere" /\ drafts' = d /\ open' = open /\ typing' = typing /\ taken' = taken
            /\ calls' = calls /\ open = Shut
        BY <1>0, <1>3, <2>4 DEF SignInAgain, DraftsTell
      <3> HIDE DEF d
      <3>2. ~ Edits(open')  BY <3>1 DEF Edits
      <3> QED BY <1>0, <1>b, <2>1, <2>2, <3>1, <3>2 DEF FormsKeepOn, FormsSay, DraftsTell, d
    <2> QED BY <2>3, <2>4
  <1>4. ASSUME where = "journal"
        PROVE  /\ FormUnmounted(drafts) \in Drafted
               /\ FormUnmounted(drafts).owned /\ ~ FormUnmounted(drafts).retaining
               /\ FormUnmounted(drafts).recoverable = {}
               /\ NoFormKept(FormUnmounted(drafts))
    BY <1>0, <1>b, <1>4, FormUnmounts DEF DraftsTell
  <1>5. CASE LeaveJournal
    <2> DEFINE d == FormUnmounted(drafts)
    <2>0. where = "journal"  BY <1>5 DEF LeaveJournal
    <2>1. /\ where' = "elsewhere" /\ open' = Shut /\ typing' = Unknown /\ taken' = taken
          /\ drafts' = DraftReleased(d, "editor") /\ taken = Shut
      BY <1>0, <1>5 DEF LeaveJournal, Unmounted, DraftsTell
    <2>2. d \in Drafted /\ d.owned /\ ~ d.retaining /\ d.recoverable = {} /\ NoFormKept(d)
      BY <1>4, <2>0
    <2> HIDE DEF d
    <2>3. \A x \in Expenses : x \in DraftKeys /\ x # "editor"
      BY JournalAssumption DEF DraftKeys
    <2>4. /\ drafts' \in Drafted /\ drafts'.owned /\ ~ drafts'.retaining
          /\ drafts'.recoverable = {}
      BY <2>1, <2>2 DEF DraftReleased, Drafted, DraftValues, DraftKeys
    <2>5. NoFormKept(drafts')
      BY <2>1, <2>2, <2>3, <2>4 DEF DraftReleased, Drafted, NoFormKept, DraftKeys
    <2>6. ~ ConfirmDialog  BY <1>5, <2>0 DEF LeaveJournal, ConfirmDialog
    <2>7. ~ Edits(open')  BY <2>1 DEF Edits
    <2> QED BY <1>c, <2>1, <2>4, <2>5, <2>6, <2>7 DEF FormsKeepOn, FormsSay, DraftsTell, Dialogs
  <1>6. ASSUME drafts' = RetainDrafts(drafts), open' = Shut, where' = "signed out",
               typing' \in Wordings \cup {Unknown}, ~ ConfirmDialog,
               where # "signed out",
               taken' = IF where # "journal" THEN taken
                        ELSE IF Edits(open) THEN [row |-> open.row, text |-> typing] ELSE Shut
        PROVE  FormsKeepOn'
    <2>1. /\ RetainDrafts(drafts) \in Drafted
          /\ RetainDrafts(drafts).owned = drafts.owned
          /\ RetainDrafts(drafts).of = drafts.of
          /\ RetainDrafts(drafts).recoverable =
               drafts.recoverable \cup {k \in DraftKeys : drafts.of[k] # Unknown}
      BY <1>0, DraftsRetained
    <2>2. drafts.owned  BY <1>0, <1>6 DEF DraftsTell
    <2>3. ASSUME NoFormKept(drafts)  PROVE NoFormKept(drafts')
      BY <1>6, <2>1, <2>3 DEF NoFormKept, DraftKeys
    <2>4. ASSUME NEW e \in Expenses, NEW text \in Wordings, KeptForm(drafts, e, text),
                 drafts.recoverable \subseteq {"editor", e}
          PROVE  KeptForm(drafts', e, text) /\ drafts'.recoverable = {"editor", e}
      <3>1. KeptForm(drafts', e, text)  BY <1>6, <2>1, <2>4 DEF KeptForm
      <3>2. e # Unknown /\ text # Unknown /\ e # "editor"
        BY <1>a, JournalAssumption
      <3>3. {k \in DraftKeys : drafts.of[k] # Unknown} = {"editor", e}
        BY <2>4, <3>2 DEF KeptForm, DraftKeys
      <3> QED BY <1>6, <2>1, <2>4, <3>1, <3>3
    <2>5. CASE taken' = Shut
      <3>1. NoFormKept(drafts)
        <4>1. where = "journal" => ~ Edits(open)
          <5>1. Edits(open) => [row |-> open.row, text |-> typing] # Shut
            BY <1>b, TakenIsThere
          <5> QED BY <1>6, <2>5, <5>1
        <4> QED BY <1>0, <1>6, <2>5, <4>1 DEF DraftsTell
      <3>2. ~ Edits(open')  BY <1>6 DEF Edits
      <3> QED BY <1>c, <1>6, <2>1, <2>3, <2>5, <3>1, <3>2 DEF FormsKeepOn, FormsSay, DraftsTell, Dialogs
    <2>6. CASE taken' # Shut
      <3>1. /\ taken'.row \in Expenses /\ taken'.text \in Wordings
            /\ taken' \in [row : Expenses, text : Wordings]
            /\ KeptForm(drafts, taken'.row, taken'.text)
            /\ drafts.recoverable \subseteq {"editor", taken'.row}
        BY <1>0, <1>b, <1>6, <2>6, TakenIsThere DEF DraftsTell
      <3>2. KeptForm(drafts', taken'.row, taken'.text) /\ drafts'.recoverable = {"editor", taken'.row}
        BY <2>4, <3>1
      <3>3. ~ Edits(open')  BY <1>6 DEF Edits
      <3> QED BY <1>c, <1>6, <2>1, <2>2, <2>6, <3>1, <3>2, <3>3
              DEF FormsKeepOn, FormsSay, DraftsTell, Dialogs
    <2> QED BY <2>5, <2>6
  <1>7. CASE ExpireOnJournal \/ ExpireElsewhere
    <2>1. ~ ConfirmDialog  BY <1>7 DEF ExpireOnJournal, ExpireElsewhere, ConfirmDialog
    <2> QED BY <1>0, <1>b, <1>6, <1>7, <2>1 DEF ExpireOnJournal, ExpireElsewhere, Unmounted, DraftsTell
  <1>8. CASE LeaveSession
    <2>1. ~ ConfirmDialog  BY <1>8 DEF LeaveSession, ConfirmDialog
    <2>2. /\ NoDrafts(FALSE) \in Drafted /\ NoFormKept(NoDrafts(FALSE))
      BY DraftsNone, Zenon
    <2>3. /\ where' = "signed out" /\ open' = Shut /\ typing' = Unknown /\ taken' = Shut
          /\ drafts' = NoDrafts(FALSE)
      BY <1>8 DEF LeaveSession, Unmounted
    <2>4. ~ Edits(open')  BY <2>3 DEF Edits
    <2> QED BY <1>c, <2>1, <2>2, <2>3, <2>4 DEF FormsKeepOn, FormsSay, DraftsTell, Dialogs
  <1>9. ASSUME NEW e \in Expenses, PressPencil(e) PROVE FormsKeepOn'
    <2> DEFINE d == FormMounted(drafts, e, typing')
    <2>1. ~ ConfirmDialog  BY <1>9 DEF PressPencil, ConfirmDialog
    <2>2. where = "journal" /\ open = Shut /\ ~ Edits(open)
      BY <1>9 DEF PressPencil, Edits
    <2>3. NoFormKept(drafts) /\ drafts.owned /\ ~ drafts.retaining /\ drafts.recoverable = {}
          /\ taken = Shut
      BY <1>0, <2>2 DEF DraftsTell
    <2>4. DraftRead(drafts, e) = Unknown  BY <2>3 DEF DraftRead
    <2>5. typing' \in Wordings /\ drafts' = d /\ open' = [kind |-> "edit", row |-> e]
          /\ UNCHANGED <<where, taken>>
      BY <1>0, <1>a, <1>9, <2>4 DEF PressPencil
    <2>6. \A x \in Expenses : x # e => drafts.of[x] = Unknown  BY <2>3 DEF NoFormKept
    <2>7. d \in Drafted /\ d.owned /\ d.retaining = drafts.retaining /\ d.recoverable = {}
          /\ KeptForm(d, e, typing')
      BY <1>0, <2>3, <2>5, <2>6, FormMounts
    <2> HIDE DEF d
    <2>8. open' \in Dialogs /\ Edits(open') /\ open'.row = e
      BY <1>a, <2>5, DialogIsOpen DEF Edits, Dialogs
    <2> QED BY <1>c, <2>1, <2>2, <2>3, <2>5, <2>7, <2>8 DEF FormsKeepOn, FormsSay, DraftsTell
  <1>10. ASSUME NEW x \in Entries, PressBin(x) PROVE FormsKeepOn'
    <2>1. ~ ConfirmDialog  BY <1>10 DEF PressBin, ConfirmDialog
    <2>2. where = "journal" /\ open = Shut /\ ~ Edits(open)
      BY <1>10 DEF PressBin, Edits
    <2>3. NoFormKept(drafts) /\ drafts.owned /\ ~ drafts.retaining /\ drafts.recoverable = {}
          /\ taken = Shut
      BY <1>0, <2>2 DEF DraftsTell
    <2>4. UNCHANGED <<where, typing, drafts, taken>>  BY <1>10 DEF PressBin
    <2>5. open' \in Dialogs /\ ~ Edits(open')
      <3>1. PICK k \in {"delete", "deleteCoin"} : open' = [kind |-> k, row |-> x]
        BY <1>10 DEF PressBin
      <3>2. open'.kind # "edit"  BY <3>1
      <3> QED BY <1>a, <3>1, <3>2 DEF Edits, Dialogs
    <2> QED BY <1>0, <1>b, <1>c, <2>1, <2>2, <2>3, <2>4, <2>5 DEF FormsKeepOn, FormsSay, DraftsTell
  <1>11. CASE TypeInForm
    <2>1. ~ ConfirmDialog  BY <1>11 DEF TypeInForm, SetField, ConfirmDialog
    <2>2. PICK says \in Wordings : typing' = says /\ drafts' = DraftWritten(drafts, open.row, says)
      BY <1>11 DEF TypeInForm, SetField
    <2>3. Edits(open) /\ UNCHANGED <<where, open, taken>>  BY <1>11 DEF TypeInForm
    <2>4. where = "journal"  BY <1>0, <2>3 DEF DraftsTell, Edits
    <2>5. KeptForm(drafts, open.row, typing) /\ drafts.owned /\ ~ drafts.retaining
          /\ drafts.recoverable = {} /\ taken = Shut /\ open.row \in Expenses
      BY <1>0, <1>b, <2>3, <2>4 DEF DraftsTell
    <2>6. open.row \in DraftKeys /\ \A x \in Expenses : x \in DraftKeys /\ x # "editor"
      BY <2>5, JournalAssumption DEF DraftKeys
    <2>7. drafts' \in Drafted /\ drafts'.owned /\ ~ drafts'.retaining /\ drafts'.recoverable = {}
      BY <1>0, <2>2, <2>5, <2>6 DEF DraftWritten, Drafted, DraftValues
    <2>8. KeptForm(drafts', open.row, typing')
      BY <1>0, <2>2, <2>5, <2>6 DEF DraftWritten, Drafted, KeptForm
    <2> QED BY <1>b, <1>c, <2>1, <2>2, <2>3, <2>4, <2>5, <2>7, <2>8
            DEF FormsKeepOn, FormsSay, DraftsTell
  <1>12. ASSUME Closed, where = "journal", UNCHANGED <<where, taken>>, ~ ConfirmDialog
         PROVE  FormsKeepOn'
    <2>1. open' = Shut /\ typing' = Unknown /\ drafts' = FormUnmounted(drafts)
      BY <1>12 DEF Closed
    <2>2. ~ Edits(open')  BY <2>1 DEF Edits
    <2>3. taken = Shut  BY <1>0, <1>12 DEF DraftsTell
    <2> QED BY <1>c, <1>4, <1>12, <2>1, <2>2, <2>3 DEF FormsKeepOn, FormsSay, DraftsTell, Dialogs
  <1>13. CASE ConfirmDialog
    <2> DEFINE new == [n |-> callsSent + 1, kind |-> open.kind, row |-> open.row,
                       text |-> typing, mine |-> TRUE, stage |-> "sent"]
    <2>1. UNCHANGED <<where, open, typing, drafts, taken>> /\ open # Shut
          /\ calls' = calls \cup {new}
      BY <1>13 DEF ConfirmDialog
    <2>2. new.kind = "edit" => new.row \in Expenses /\ new.text \in Wordings
      BY <1>b, <2>1 DEF Edits
    <2> HIDE DEF new
    <2>3. \A c \in calls' : c.kind = "edit" => c.row \in Expenses /\ c.text \in Wordings
      BY <1>0, <2>1, <2>2 DEF FormsSay
    <2>4. FormsSay' BY <1>b, <2>1, <2>3 DEF FormsSay
    <2>5. DraftsTell' BY <1>0, <2>1 DEF DraftsTell
    <2> QED BY <1>0, <1>b, <2>1, <2>4, <2>5 DEF FormsKeepOn
  <1>14. ASSUME UNCHANGED <<where, open, typing, drafts, taken>>, ~ ConfirmDialog
         PROVE  FormsKeepOn'
    <2>4. FormsSay' BY <1>b, <1>c, <1>14 DEF FormsSay
    <2>5. DraftsTell' BY <1>0, <1>14 DEF DraftsTell
    <2> QED BY <1>0, <1>b, <1>14, <2>4, <2>5 DEF FormsKeepOn
  <1>15. ASSUME NEW c \in calls,
                ServerApplies(c) \/ CallFails(c) \/ CallAnswered(c) \/ CallFinished(c)
         PROVE  FormsKeepOn'
    <2>1. CASE ConfirmDialog  BY <1>13, <2>1
    <2>2. CASE ~ ConfirmDialog /\ UNCHANGED <<where, open, typing, drafts, taken>>
      BY <1>14, <2>2
    <2>3. CASE ~ ConfirmDialog /\ ~ UNCHANGED <<where, open, typing, drafts, taken>>
      <3>1. Closed /\ open # Shut /\ UNCHANGED <<where, taken>>
        BY <1>15, <2>3 DEF ServerApplies, CallFails, CallAnswered, CallFinished
      <3>2. where = "journal"  BY <1>0, <3>1 DEF DraftsTell
      <3> QED BY <1>12, <2>3, <3>1, <3>2
    <2> QED BY <2>1, <2>2, <2>3
  <1>16. CASE CloseJournalDialog
    <2>1. ~ ConfirmDialog  BY <1>16 DEF CloseJournalDialog, Closed, ConfirmDialog
    <2>2. where = "journal"  BY <1>0, <1>16 DEF CloseJournalDialog, DraftsTell
    <2> QED BY <1>12, <1>16, <2>1, <2>2 DEF CloseJournalDialog
  <1>17. CASE ListIsRead
    <2>1. CASE ConfirmDialog  BY <1>13, <2>1
    <2>2. CASE ~ ConfirmDialog  BY <1>14, <1>17, <2>2 DEF ListIsRead
    <2> QED BY <2>1, <2>2
  <1> QED
    BY <1>2, <1>3, <1>5, <1>7, <1>8, <1>9, <1>10, <1>11, <1>13, <1>15, <1>16, <1>17
    DEF JournalNext

-----------------------------------------------------------------------------
(* The type and the two properties.                                         *)

\* The type of what is neither a form nor a draft.
RestTyped ==
  /\ journal \in [Entries -> Wordings \cup {Gone}]
  /\ listed \in [Entries -> Wordings \cup {Gone}]
  /\ reader \in DialogKinds \cup {"page", "nobody"}
  /\ where \in {"journal", "elsewhere", "signed out"}
  /\ calls \subseteq Calls /\ callsSent \in 0..MaxCalls /\ exits \in 0..MaxExits
  /\ reported \in [Expenses -> Wordings \cup {Unknown}] /\ unreported \subseteq Expenses

LEMMA RestStep ==
  ASSUME JournalInv, JournalNext
  PROVE  RestTyped'
  <1>0. JournalTypeOK /\ FormsSay /\ DraftsTell /\ RestTyped
        /\ MaxExits \in Nat /\ MaxCalls \in Nat
    BY JournalAssumption DEF JournalInv, JournalTypeOK, RestTyped
  <1>a. Expenses \subseteq Entries  BY DEF Entries
  <1>b. ASSUME NEW n, NEW m \in Nat, n \in 0..m, n < m
        PROVE  n + 1 \in 0..m /\ n + 1 \in 1..m
    BY <1>b
  <1>c. exits \in 0..MaxExits /\ callsSent \in 0..MaxCalls  BY <1>0 DEF RestTyped
  <1>1. CASE Unmounted /\ where' \in {"elsewhere", "signed out"}
             /\ listed' \in {listed, NothingListed}
    <2>1. calls' \subseteq Calls
      <3> SUFFICES ASSUME NEW d \in calls'  PROVE d \in Calls  OBVIOUS
      <3>1. PICK c \in calls : d = [c EXCEPT !.mine = FALSE]  BY <1>1 DEF Unmounted
      <3> QED BY <1>0, <3>1, CallTyped
    <2>2. exits' \in 0..MaxExits
      <3>1. exits < MaxExits /\ exits' = exits + 1  BY <1>1 DEF Unmounted
      <3> QED BY <1>0, <1>b, <1>c, <3>1
    <2> QED BY <1>0, <1>1, <2>1, <2>2 DEF RestTyped, Unmounted, NothingListed, NothingReported
  <1>2. CASE OpenJournal \/ SignInAgain
    BY <1>0, <1>2 DEF OpenJournal, SignInAgain, Mounted, RestTyped, told
  <1>3. CASE ExpireElsewhere
    <2>1. exits' \in 0..MaxExits
      <3>1. exits < MaxExits /\ exits' = exits + 1  BY <1>3 DEF ExpireElsewhere
      <3> QED BY <1>0, <1>b, <1>c, <3>1
    <2> QED BY <1>0, <1>3, <2>1 DEF ExpireElsewhere, NothingListed, RestTyped, told
  <1>4. CASE ConfirmDialog
    <2> DEFINE new == [n |-> callsSent + 1, kind |-> open.kind, row |-> open.row,
                       text |-> typing, mine |-> TRUE, stage |-> "sent"]
    <2>1. callsSent + 1 \in 1..MaxCalls /\ callsSent + 1 \in 0..MaxCalls
      <3>1. callsSent < MaxCalls  BY <1>4 DEF ConfirmDialog
      <3> QED BY <1>0, <1>b, <1>c, <3>1
    <2>2. open.kind \in DialogKinds /\ open.row \in Entries
          /\ (Edits(open) => open.row \in Expenses /\ typing \in Wordings)
      BY <1>0, <1>4 DEF ConfirmDialog, JournalTypeOK, Dialogs, FormsSay
    <2>3. new \in Calls  BY <1>0, <2>1, <2>2 DEF Calls, JournalTypeOK
    <2>4. calls' = calls \cup {new} /\ callsSent' = callsSent + 1
      BY <1>4 DEF ConfirmDialog
    <2> HIDE DEF new
    <2> QED BY <1>0, <1>4, <2>1, <2>3, <2>4 DEF ConfirmDialog, RestTyped, told
  <1>5. ASSUME NEW c \in calls,
               ServerApplies(c) \/ CallFails(c) \/ CallAnswered(c) \/ CallFinished(c)
        PROVE  RestTyped'
    <2>1. /\ c \in Calls /\ c.kind \in DialogKinds /\ c.row \in Entries
          /\ (c.kind = "edit" => c.row \in Expenses /\ c.text \in Wordings)
      BY <1>0, <1>5 DEF JournalTypeOK, Calls, FormsSay
    <2>2. calls' \subseteq Calls
      <3>1. ASSUME NEW d \in calls', d \notin calls  PROVE d \in Calls
        <4>1. \/ d = [c EXCEPT !.mine = FALSE, !.stage = "lost"]
              \/ \E s \in {"applied", "answered"} : d = [c EXCEPT !.stage = s]
          BY <1>5, <3>1 DEF ServerApplies, CallFails, CallAnswered, CallFinished, Moved
        <4>2. [c EXCEPT !.mine = FALSE, !.stage = "lost"] \in Calls
          BY <1>0, CallTyped
        <4>3. \A s \in {"applied", "answered"} : [c EXCEPT !.stage = s] \in Calls
          BY <1>0, CallTyped
        <4> QED BY <4>1, <4>2, <4>3
      <3> QED BY <1>0, <3>1 DEF RestTyped
    <2>3. journal' \in [Entries -> Wordings \cup {Gone}]
      BY <1>0, <1>5, <2>1 DEF ServerApplies, CallFails, CallAnswered, CallFinished, RestTyped
    <2>4. reported' \in [Expenses -> Wordings \cup {Unknown}] /\ unreported' \subseteq Expenses
      BY <1>0, <1>5, <2>1
      DEF ServerApplies, CallFails, CallAnswered, CallFinished, RestTyped, told
    <2>5. reader' \in DialogKinds \cup {"page", "nobody"}
      BY <1>0, <1>5, <2>1 DEF ServerApplies, CallFails, CallAnswered, CallFinished, RestTyped
    <2>6. UNCHANGED <<listed, where, callsSent, exits>>
      BY <1>5 DEF ServerApplies, CallFails, CallAnswered, CallFinished
    <2> QED BY <1>0, <2>2, <2>3, <2>4, <2>5, <2>6 DEF RestTyped
  <1>6. CASE ListIsRead
    BY <1>0, <1>6 DEF ListIsRead, RestTyped, told
  <1>7. CASE UNCHANGED <<journal, listed, reader, where, calls, callsSent, exits, told>>
    BY <1>0, <1>7 DEF RestTyped, told
  <1> QED
    BY <1>1, <1>2, <1>3, <1>4, <1>5, <1>6, <1>7
    DEF JournalNext, LeaveJournal, ExpireOnJournal, LeaveSession, PressPencil, PressBin,
        TypeInForm, CloseJournalDialog

LEMMA JournalGoesOn ==
  ASSUME JournalInv, [JournalNext]_journalVars
  PROVE  JournalInv'
  <1>1. CASE JournalNext
    <2>1. FormsKeepOn'  BY <1>1, FormsStep
    <2>2. RestTyped'  BY <1>1, RestStep
    <2>3. SavesCarry'  BY <1>1, SavesCarryOn DEF JournalInv
    <2>4. JournalTypeOK'
      BY <2>1, <2>2 DEF JournalTypeOK, FormsKeepOn, RestTyped, Drafted, DraftValues
    <2> QED BY <2>1, <2>3, <2>4 DEF JournalInv, FormsKeepOn
  <1>2. CASE UNCHANGED journalVars
    <2>1. UNCHANGED <<journal, listed, reader, where, open, typing, calls, callsSent, exits,
                      drafts, reported, unreported, taken>>
      BY <1>2 DEF journalVars
    <2>2. JournalTypeOK'  BY <2>1 DEF JournalInv, JournalTypeOK
    <2>3. FormsSay'  BY <2>1 DEF JournalInv, FormsSay
    <2>4. DraftsTell'  BY <2>1 DEF JournalInv, DraftsTell
    <2>5. SavesCarry'  BY <2>1 DEF JournalInv, SavesCarry
    <2> QED BY <2>2, <2>3, <2>4, <2>5 DEF JournalInv
  <1> QED BY <1>1, <1>2

\* The state of the Money page has its type, its drafts are those of the form on
\* show or of the one an expiry took, and a row says what the page was told unless
\* its save is under way or it was changed without a report, for any rows and wordings.
THEOREM JournalInvariant == JournalSpec => []JournalInv
  <1>1. JournalInit => JournalInv  BY JournalBegins
  <1>2. JournalInv /\ [JournalNext]_journalVars => JournalInv'  BY JournalGoesOn
  <1> QED BY <1>1, <1>2, PTL DEF JournalSpec

\* Of the saves a page awaits none overtakes a later one of the same row
\* (ExpensesPage.tsx:134-145).  The theorem leaves out, by name, the rows in
\* unreported: those changed by a request of an earlier visit, by one whose connection
\* broke, or by one whose answer was lost.  There the code promises nothing, and
\* NothingUnreported is false of it.
THEOREM SavesStand == JournalSpec => []LastSaveStands
  <1>1. JournalInv => LastSaveStands
    BY DEF JournalInv, SavesCarry, LastSaveStands, SaveIsIn, Saves
  <1> QED BY <1>1, JournalInvariant, PTL

\* What was typed and left never comes back; what an expiry took does
\* (useSessionDraft.ts:4).
THEOREM LeftStaysLeft == JournalSpec => AbandonedStaysAbandoned
  <1> DEFINE Opens == open' # open /\ Edits(open') =>
                        \/ typing' = listed[open'.row]
                        \/ taken = [row |-> open'.row, text |-> typing']
  <1>3. ASSUME JournalInv, [JournalNext]_journalVars PROVE [Opens]_journalVars
    <2> SUFFICES ASSUME JournalNext, open' # open, Edits(open')
                 PROVE  \/ typing' = listed[open'.row]
                        \/ taken = [row |-> open'.row, text |-> typing']
      BY <1>3
    <2>0. /\ drafts \in Drafted /\ DraftsTell
          /\ taken \in {Shut} \cup [row : Expenses, text : Wordings]
      BY <1>3 DEF JournalInv, JournalTypeOK, Drafted, DraftValues
    <2>1. ASSUME NEW d \in Drafted, d.owned, ~ d.retaining, Mounted(d),
                 taken = Shut => NoFormKept(d),
                 taken # Shut => /\ KeptForm(d, taken.row, taken.text)
                                 /\ d.recoverable = {"editor", taken.row}
          PROVE  taken = [row |-> open'.row, text |-> typing']
      <3>1. /\ taken = Shut => open' = Shut
            /\ taken # Shut => /\ open' = [kind |-> "edit", row |-> taken.row]
                               /\ typing' = taken.text
        BY <2>0, <2>1, PageMounts
      <3>2. taken # Shut  BY <3>1 DEF Edits
      <3>3. open'.row = taken.row /\ taken \in [row : Expenses, text : Wordings]
        BY <2>0, <3>1, <3>2
      <3> QED BY <3>1, <3>2, <3>3
    <2>2. CASE OpenJournal
      BY <2>0, <2>1, <2>2 DEF OpenJournal, DraftsTell
    <2>3. CASE SignInAgain
      <3>1. /\ OwnedAgain(drafts) \in Drafted
            /\ OwnedAgain(drafts).owned /\ ~ OwnedAgain(drafts).retaining
            /\ drafts.owned => OwnedAgain(drafts).of = drafts.of
                               /\ OwnedAgain(drafts).recoverable = drafts.recoverable
            /\ ~ drafts.owned => NoFormKept(OwnedAgain(drafts))
        BY <2>0, DraftsOwned
      <3> DEFINE d == OwnedAgain(drafts)
      <3>2. /\ taken = Shut => NoFormKept(d)
            /\ taken # Shut => /\ KeptForm(d, taken.row, taken.text)
                               /\ d.recoverable = {"editor", taken.row}
        BY <2>0, <2>3, <3>1 DEF SignInAgain, DraftsTell, NoFormKept, KeptForm
      <3>3. Mounted(d)  BY <2>3 DEF SignInAgain
      <3> QED BY <2>1, <3>1, <3>2, <3>3
    <2>4. ASSUME NEW e \in Expenses, PressPencil(e)  PROVE typing' = listed[open'.row]
      <3>1. drafts.recoverable = {}  BY <2>0, <2>4 DEF PressPencil, DraftsTell
      <3>2. DraftRead(drafts, e) = Unknown  BY <3>1 DEF DraftRead
      <3> QED BY <2>4, <3>2 DEF PressPencil
    <2>5. ASSUME NEW x \in Entries, PressBin(x)  PROVE FALSE
      <3>1. open'.kind # "edit"  BY <2>5 DEF PressBin
      <3> QED BY <3>1 DEF Edits
    <2>6. CASE Unmounted \/ open' = Shut
      BY <2>6 DEF Unmounted, Edits
    <2> QED
      BY <2>2, <2>3, <2>4, <2>5, <2>6
      DEF JournalNext, LeaveJournal, ExpireOnJournal, ExpireElsewhere, LeaveSession, TypeInForm,
          CloseJournalDialog, ConfirmDialog, ServerApplies, CallFails, CallAnswered, CallFinished,
          ListIsRead, Closed
  <1> QED BY <1>3, JournalInvariant, PTL DEF JournalSpec, AbandonedStaysAbandoned

-----------------------------------------------------------------------------
(*                              THE SETTINGS                                *)
-----------------------------------------------------------------------------

\* A save under way has a number of its own and a value of its kind.
Values == DisplayNames \cup Locales \cup Avatars \cup {NoAvatar, "entered"} \cup Themes \cup Switch
Ops == {"name", "locale", "upload", "delete", "password", "theme", "flag"}
SavesTyped ==
  \A s \in profileSaves :
    /\ s \in [id : Nat, op : Ops, value : Values, stage : {"sent", "done"}, answer : Profiles]
    /\ s.id < savesMade
    /\ \/ s.op = "name" /\ s.value \in DisplayNames
       \/ s.op = "locale" /\ s.value \in Locales
       \/ s.op = "upload" /\ s.value \in Avatars
       \/ s.op = "delete" /\ s.value = NoAvatar
       \/ s.op = "password"
       \/ s.op = "theme" /\ s.value \in Themes
       \/ s.op = "flag" /\ s.value \in Switch

OneNumberEach == \A r, s \in profileSaves : r.id = s.id => r = s

\* The profile's requests reached the server in the order they were made.
InTurn ==
  \A r, s \in profileSaves :
    IsProfile(r) /\ IsProfile(s) /\ r.stage = "sent" /\ s.stage = "done" => s.id < r.id

Done == {s \in profileSaves : s.stage = "done"}
DoneProfiles == {s \in Done : IsProfile(s)}

\* The last answer on its way is what the server keeps; without one the page has it.
LastAnswerTells ==
  /\ DoneProfiles = {} => user = profile
  /\ \A s \in DoneProfiles : (\A r \in DoneProfiles : r.id <= s.id) => s.answer = profile

\* The locale of an answer is that of the answer before it, or of the user, unless it
\* answers a change of the locale.
LocalesFollow ==
  /\ language = user.locale
  /\ (\A t \in DoneProfiles : t.op # "locale") => user.locale = profile.locale
  /\ \A s \in DoneProfiles :
       /\ (\A t \in DoneProfiles : t.op = "locale" => t.id > s.id) => s.answer.locale = user.locale
       /\ (\A t \in DoneProfiles : t.op = "locale" => t.id <= s.id) => s.answer.locale = profile.locale
  /\ \A s, r \in DoneProfiles : s.id < r.id /\ (\A t \in DoneProfiles : t.op = "locale" => ~ (s.id < t.id /\ t.id <= r.id))
       => s.answer.locale = r.answer.locale

\* Settings that were saved are asked for again.
SettingsAsked ==
  (\A s \in Done : IsProfile(s)) =>
     /\ ~ asked => knownSettings = {settings}
     /\ read # {} => read = {settings}

ProfileInv ==
  /\ ProfileTypeOK /\ SavesTyped /\ OneNumberEach
  /\ "profile" \notin amiss => InTurn /\ LastAnswerTells /\ LocalesFollow
  /\ "settings" \notin amiss => SettingsAsked

LEMMA ProfileBegins ==
  ASSUME ProfileInit
  PROVE  ProfileInv
  <1>1. Cardinality({}) = 0  BY FS_EmptySet
  <1>2. ProfileTypeOK
    <2>1. profile \in Profiles /\ user \in Profiles /\ nameText \in DisplayNames
      BY DEF ProfileInit, Profiles
    <2>2. "uk" \in Locales  BY DEF Locales
    <2>3. 0 \in 0..MaxSaves  BY ProfileAssumption
    <2>4. /\ {nameFocused, themeApplied} \subseteq BOOLEAN /\ asked \in BOOLEAN
          /\ amiss \subseteq {"profile", "settings"}
      <3>1. nameFocused = FALSE /\ themeApplied = FALSE /\ amiss = {} /\ asked = TRUE
        BY DEF ProfileInit
      <3> QED BY <3>1, Zenon
    <2>5. /\ knownSettings \subseteq Settings /\ Cardinality(knownSettings) <= 1
          /\ read \subseteq Settings /\ Cardinality(read) <= 1
      BY <1>1 DEF ProfileInit
    <2>6. /\ settings \in Settings /\ language \in Locales /\ preference \in Themes
          /\ picked \in Avatars \cup {NoAvatar} /\ savesMade \in 0..MaxSaves
          /\ password \in {"empty", "refused by the form", "entered"}
      BY <2>2, <2>3 DEF ProfileInit
    <2> QED BY <2>1, <2>4, <2>5, <2>6 DEF ProfileTypeOK
  <1>3. Done = {} /\ DoneProfiles = {}  BY DEF ProfileInit, Done, DoneProfiles
  <1>4. SavesTyped /\ OneNumberEach /\ InTurn
    BY DEF ProfileInit, SavesTyped, OneNumberEach, InTurn
  <1>5. LastAnswerTells  BY <1>3 DEF ProfileInit, LastAnswerTells
  <1>6. LocalesFollow  BY <1>3 DEF ProfileInit, LocalesFollow, Profiles
  <1>7. SettingsAsked  BY DEF ProfileInit, SettingsAsked
  <1> QED BY <1>2, <1>4, <1>5, <1>6, <1>7 DEF ProfileInv

-----------------------------------------------------------------------------
(* Types and numbers.                                                       *)

LEMMA SentIsTyped ==
  ASSUME ProfileTypeOK, SavesTyped, OneNumberEach, NEW op, NEW v, Save(op, v),
         \/ op = "name" /\ v \in DisplayNames
         \/ op = "locale" /\ v \in Locales
         \/ op = "upload" /\ v \in Avatars
         \/ op = "delete" /\ v = NoAvatar
         \/ op = "password" /\ v = "entered"
         \/ op = "theme" /\ v \in Themes
         \/ op = "flag" /\ v \in Switch
  PROVE  SavesTyped' /\ OneNumberEach' /\ savesMade' \in 0..MaxSaves
         /\ \E n : /\ profileSaves' = profileSaves \cup {n}
                   /\ n.stage = "sent"
                   /\ \A s \in profileSaves : s.id < n.id
  <1> DEFINE n == [id |-> savesMade, op |-> op, value |-> v, stage |-> "sent", answer |-> user]
  <1>1. n.id = savesMade /\ n.op = op /\ n.value = v /\ n.stage = "sent" /\ n.answer = user
    OBVIOUS
  <1>2. profileSaves' = profileSaves \cup {n} /\ savesMade' = savesMade + 1 /\ savesMade < MaxSaves
    BY DEF Save
  <1>3. savesMade \in 0..MaxSaves /\ MaxSaves \in Nat /\ user \in Profiles
    BY ProfileAssumption DEF ProfileTypeOK
  <1>a. v \in Values /\ op \in Ops  BY DEF Values, Ops
  <1>b. n \in [id : Nat, op : Ops, value : Values, stage : {"sent", "done"}, answer : Profiles]
    BY <1>3, <1>a
  <1> HIDE DEF n
  <1>4. \A s \in profileSaves : s.id < n.id  BY <1>1 DEF SavesTyped
  <1>5. SavesTyped'
    <2> SUFFICES ASSUME NEW s \in profileSaves'
                 PROVE  /\ s \in [id : Nat, op : Ops, value : Values, stage : {"sent", "done"},
                                  answer : Profiles]
                        /\ s.id < savesMade'
                        /\ \/ s.op = "name" /\ s.value \in DisplayNames
                           \/ s.op = "locale" /\ s.value \in Locales
                           \/ s.op = "upload" /\ s.value \in Avatars
                           \/ s.op = "delete" /\ s.value = NoAvatar
                           \/ s.op = "password"
                           \/ s.op = "theme" /\ s.value \in Themes
                           \/ s.op = "flag" /\ s.value \in Switch
      BY DEF SavesTyped
    <2>1. CASE s = n  BY <1>1, <1>2, <1>3, <1>b, <2>1
    <2>2. CASE s \in profileSaves  BY <1>2, <1>3, <2>2 DEF SavesTyped
    <2> QED BY <1>2, <2>1, <2>2
  <1>6. OneNumberEach'
    BY <1>2, <1>3, <1>4 DEF OneNumberEach, SavesTyped
  <1> QED BY <1>1, <1>2, <1>3, <1>4, <1>5, <1>6

LEMMA AfterTyped ==
  ASSUME ProfileTypeOK, SavesTyped, NEW s \in profileSaves
  PROVE  After(s) \in Profiles
  BY DEF ProfileTypeOK, SavesTyped, After, Profiles

LEMMA AppliedIs ==
  ASSUME SavesTyped, NEW s \in profileSaves, NEW a \in Profiles
  PROVE  LET d == [s EXCEPT !.stage = "done", !.answer = a] IN
         /\ d \in [id : Nat, op : Ops, value : Values, stage : {"sent", "done"}, answer : Profiles]
         /\ d.id = s.id /\ d.op = s.op /\ d.value = s.value /\ d.stage = "done" /\ d.answer = a
  BY DEF SavesTyped

LEMMA SavesStep ==
  ASSUME ProfileTypeOK, SavesTyped, OneNumberEach, ProfileNext
  PROVE  SavesTyped' /\ OneNumberEach' /\ savesMade' \in 0..MaxSaves
  <1>0. savesMade \in 0..MaxSaves  BY DEF ProfileTypeOK
  <1>1. CASE UNCHANGED <<profileSaves, savesMade>>
    BY <1>0, <1>1 DEF SavesTyped, OneNumberEach
  <1>2. ASSUME NEW op, NEW v, Save(op, v),
               \/ op = "name" /\ v \in DisplayNames
               \/ op = "locale" /\ v \in Locales
               \/ op = "upload" /\ v \in Avatars
               \/ op = "delete" /\ v = NoAvatar
               \/ op = "password" /\ v = "entered"
               \/ op = "theme" /\ v \in Themes
               \/ op = "flag" /\ v \in Switch
        PROVE  SavesTyped' /\ OneNumberEach' /\ savesMade' \in 0..MaxSaves
    BY <1>2, SentIsTyped
  <1>3. ASSUME NEW s \in profileSaves, profileSaves' = profileSaves \ {s}, savesMade' = savesMade
        PROVE  SavesTyped' /\ OneNumberEach' /\ savesMade' \in 0..MaxSaves
    BY <1>0, <1>3 DEF SavesTyped, OneNumberEach
  <1>4. ASSUME NEW s \in profileSaves, ApplySave(s)
        PROVE  SavesTyped' /\ OneNumberEach' /\ savesMade' \in 0..MaxSaves
    <2> DEFINE d == [s EXCEPT !.stage = "done", !.answer = profile']
    <2>1. /\ d \in [id : Nat, op : Ops, value : Values, stage : {"sent", "done"}, answer : Profiles]
          /\ d.id = s.id /\ d.op = s.op /\ d.value = s.value /\ d.stage = "done"
          /\ d.answer = profile'
      <3>1. profile' \in Profiles  BY <1>4, AfterTyped DEF ApplySave
      <3> QED BY <3>1, AppliedIs
    <2>2. profileSaves' = (profileSaves \ {s}) \cup {d} /\ savesMade' = savesMade
          /\ profile' = After(s)
      BY <1>4 DEF ApplySave
    <2> HIDE DEF d
    <2>4. SavesTyped'
      <3> SUFFICES ASSUME NEW r \in profileSaves'
                   PROVE  /\ r \in [id : Nat, op : Ops, value : Values, stage : {"sent", "done"},
                                    answer : Profiles]
                          /\ r.id < savesMade'
                          /\ \/ r.op = "name" /\ r.value \in DisplayNames
                             \/ r.op = "locale" /\ r.value \in Locales
                             \/ r.op = "upload" /\ r.value \in Avatars
                             \/ r.op = "delete" /\ r.value = NoAvatar
                             \/ r.op = "password"
                             \/ r.op = "theme" /\ r.value \in Themes
                             \/ r.op = "flag" /\ r.value \in Switch
        BY DEF SavesTyped
      <3>1. CASE r = d  BY <2>1, <2>2, <3>1 DEF SavesTyped
      <3>2. CASE r \in profileSaves  BY <2>2, <3>2 DEF SavesTyped
      <3> QED BY <2>2, <3>1, <3>2
    <2>5. OneNumberEach'  BY <2>1, <2>2 DEF OneNumberEach
    <2> QED BY <1>0, <2>2, <2>4, <2>5
  <1>5. ASSUME NEW s \in profileSaves,
               ProfileAnswered(s) \/ SettingsSaved(s) \/ SaveRefused(s) \/ SaveLost(s)
        PROVE  SavesTyped' /\ OneNumberEach' /\ savesMade' \in 0..MaxSaves
    BY <1>3, <1>5 DEF ProfileAnswered, SettingsSaved, SaveRefused, SaveLost
  <1>6. ASSUME NEW focused, SaveName(focused)
        PROVE  SavesTyped' /\ OneNumberEach' /\ savesMade' \in 0..MaxSaves
    BY <1>1, <1>2, <1>6 DEF SaveName, ProfileTypeOK
  <1>7. ASSUME NEW l \in Locales, PickLocale(l)
        PROVE  SavesTyped' /\ OneNumberEach' /\ savesMade' \in 0..MaxSaves
    BY <1>2, <1>7 DEF PickLocale
  <1>8. ASSUME NEW t \in Themes, PickTheme(t)
        PROVE  SavesTyped' /\ OneNumberEach' /\ savesMade' \in 0..MaxSaves
    BY <1>2, <1>8 DEF PickTheme
  <1>9. CASE Flip  BY <1>2, <1>9 DEF Flip
  <1>10. CASE UploadAvatar  BY <1>2, <1>10 DEF UploadAvatar, ProfileTypeOK
  <1>11. CASE DeleteAvatar  BY <1>2, <1>11 DEF DeleteAvatar
  <1>12. CASE SubmitPassword  BY <1>2, <1>12 DEF SubmitPassword
  <1> QED
    BY <1>1, <1>4, <1>5, <1>6, <1>7, <1>8, <1>9, <1>10, <1>11, <1>12
    DEF ProfileNext, EditName, PickThemeInHeader, PickFile, ReleasePicked, EnterPassword,
        ReadBootstrap, BootstrapAnswered, BootstrapFailed

\* The type of what the page shows and the server keeps.
SettingsShownTyped ==
  /\ profile \in Profiles /\ user \in Profiles
  /\ settings \in Settings
  /\ nameText \in DisplayNames
  /\ language \in Locales /\ preference \in Themes
  /\ picked \in Avatars \cup {NoAvatar}
  /\ password \in {"empty", "refused by the form", "entered"}

\* The settings are read whole or not at all.
ReadTyped ==
  /\ knownSettings \subseteq Settings /\ Cardinality(knownSettings) <= 1
  /\ read \subseteq Settings /\ Cardinality(read) <= 1

FlagsTyped ==
  /\ {nameFocused, themeApplied} \subseteq BOOLEAN /\ asked \in BOOLEAN
  /\ amiss \subseteq {"profile", "settings"}

LEMMA ShownStep ==
  ASSUME SettingsShownTyped, ReadTyped, SavesTyped, ProfileTypeOK, ProfileNext
  PROVE  SettingsShownTyped'
  <1>1. ASSUME NEW s \in profileSaves, ApplySave(s)  PROVE SettingsShownTyped'
    <2>1. profile' \in Profiles  BY <1>1, AfterTyped DEF ApplySave
    <2>2. settings' \in Settings
      BY <1>1 DEF ApplySave, SavesTyped, SettingsShownTyped, Settings
    <2> QED BY <1>1, <2>1, <2>2 DEF ApplySave, SettingsShownTyped
  <1>2. ASSUME NEW s \in profileSaves, ProfileAnswered(s)  PROVE SettingsShownTyped'
    <2>1. s.answer \in Profiles /\ s.answer.locale \in Locales  BY DEF SavesTyped, Profiles
    <2> QED BY <1>2, <2>1 DEF ProfileAnswered, SettingsShownTyped
  <1>3. ASSUME NEW s \in profileSaves, SettingsSaved(s) \/ SaveRefused(s) \/ SaveLost(s)
        PROVE  SettingsShownTyped'
    BY <1>3 DEF SettingsSaved, SaveRefused, SaveLost, SettingsShownTyped
  <1>4. CASE BootstrapAnswered
    <2>1. PICK r \in read : preference' = IF themeApplied THEN preference ELSE r.theme
      BY <1>4 DEF BootstrapAnswered
    <2>2. r.theme \in Themes  BY DEF ReadTyped, Settings
    <2> QED BY <1>4, <2>1, <2>2 DEF BootstrapAnswered, SettingsShownTyped
  <1>5. ASSUME NEW t \in DisplayNames, EditName(t)  PROVE SettingsShownTyped'
    BY <1>5 DEF EditName, SettingsShownTyped
  <1>6. ASSUME NEW f \in BOOLEAN, SaveName(f)  PROVE SettingsShownTyped'
    BY <1>6 DEF SaveName, SettingsShownTyped
  <1>7. ASSUME NEW l \in Locales, PickLocale(l)  PROVE SettingsShownTyped'
    BY <1>7 DEF PickLocale, SettingsShownTyped
  <1>8. ASSUME NEW t \in Themes, PickTheme(t) \/ PickThemeInHeader(t)  PROVE SettingsShownTyped'
    BY <1>8 DEF PickTheme, PickThemeInHeader, SettingsShownTyped
  <1>9. ASSUME NEW p \in Avatars, PickFile(p)  PROVE SettingsShownTyped'
    BY <1>9 DEF PickFile, SettingsShownTyped
  <1>10. ASSUME NEW e \in {"refused by the form", "entered"}, EnterPassword(e)  PROVE SettingsShownTyped'
    BY <1>10 DEF EnterPassword, SettingsShownTyped
  <1>11. CASE \/ Flip \/ ReleasePicked \/ UploadAvatar \/ DeleteAvatar \/ SubmitPassword
              \/ ReadBootstrap \/ BootstrapFailed
    BY <1>11
    DEF Flip, ReleasePicked, UploadAvatar, DeleteAvatar, SubmitPassword, ReadBootstrap,
        BootstrapFailed, SettingsShownTyped
  <1> QED
    BY <1>1, <1>2, <1>3, <1>4, <1>5, <1>6, <1>7, <1>8, <1>9, <1>10, <1>11 DEF ProfileNext

LEMMA ReadStep ==
  ASSUME SettingsShownTyped, ReadTyped, ProfileNext
  PROVE  ReadTyped'
  <1>1. Cardinality({}) = 0 /\ Cardinality({settings}) = 1  BY FS_EmptySet, FS_Singleton
  <1>2. CASE BootstrapAnswered
    <2>1. knownSettings' = read /\ read' = {}  BY <1>2 DEF BootstrapAnswered
    <2>2. Cardinality(read') <= 1  BY <1>1, <2>1
    <2> QED BY <2>1, <2>2 DEF ReadTyped
  <1>3. CASE ReadBootstrap
    <2>1. knownSettings' = knownSettings /\ read' = {settings}  BY <1>3 DEF ReadBootstrap
    <2>2. Cardinality(read') <= 1  BY <1>1, <2>1
    <2> QED BY <2>1, <2>2 DEF ReadTyped, SettingsShownTyped
  <1>4. ASSUME NEW s \in profileSaves, ProfileAnswered(s) \/ SettingsSaved(s)
        PROVE  ReadTyped'
    <2>1. knownSettings' \in {knownSettings, {}} /\ read' \in {read, {}}
      BY <1>4 DEF ProfileAnswered, SettingsSaved, AskSettings
    <2>2. Cardinality(read') <= 1 /\ Cardinality(knownSettings') <= 1
      BY <1>1, <2>1 DEF ReadTyped
    <2> QED BY <2>1, <2>2 DEF ReadTyped
  <1>5. CASE UNCHANGED <<knownSettings, read>>  BY <1>5 DEF ReadTyped
  <1>6. CASE BootstrapFailed
    <2>1. knownSettings' = knownSettings /\ read' = {}  BY <1>6 DEF BootstrapFailed
    <2>2. Cardinality(read') <= 1  BY <1>1, <2>1
    <2> QED BY <2>1, <2>2 DEF ReadTyped
  <1> QED
    BY <1>2, <1>3, <1>4, <1>5, <1>6
    DEF ProfileNext, EditName, SaveName, PickLocale, PickTheme, PickThemeInHeader, Flip, PickFile,
        ReleasePicked, UploadAvatar, DeleteAvatar, EnterPassword, SubmitPassword, ApplySave,
        SaveRefused, SaveLost, BootstrapFailed

LEMMA FlagsStep ==
  ASSUME FlagsTyped, ProfileNext
  PROVE  FlagsTyped'
  <1>0. nameFocused \in BOOLEAN /\ themeApplied \in BOOLEAN /\ amiss \subseteq {"profile", "settings"}
    BY DEF FlagsTyped
  <1>1. nameFocused' \in BOOLEAN
    BY <1>0
    DEF ProfileNext, EditName, SaveName, PickLocale, PickTheme, PickThemeInHeader, Flip, PickFile,
        ReleasePicked, UploadAvatar, DeleteAvatar, EnterPassword, SubmitPassword, ApplySave,
        ProfileAnswered, SettingsSaved, SaveRefused, SaveLost, ReadBootstrap, BootstrapAnswered, BootstrapFailed
  <1>2. themeApplied' \in BOOLEAN
    BY <1>0
    DEF ProfileNext, EditName, SaveName, PickLocale, PickTheme, PickThemeInHeader, Flip, PickFile,
        ReleasePicked, UploadAvatar, DeleteAvatar, EnterPassword, SubmitPassword, ApplySave,
        ProfileAnswered, SettingsSaved, SaveRefused, SaveLost, ReadBootstrap, BootstrapAnswered, BootstrapFailed
  <1>3. amiss' \subseteq {"profile", "settings"}
    <2>1. ASSUME NEW s \in profileSaves,
                 ApplySave(s) \/ ProfileAnswered(s) \/ SettingsSaved(s) \/ SaveLost(s)
          PROVE  amiss' \subseteq {"profile", "settings"}
      BY <1>0, <2>1 DEF ApplySave, ProfileAnswered, SettingsSaved, SaveLost
    <2> QED
      BY <1>0, <2>1
      DEF ProfileNext, EditName, SaveName, PickLocale, PickTheme, PickThemeInHeader, Flip, PickFile,
          ReleasePicked, UploadAvatar, DeleteAvatar, EnterPassword, SubmitPassword,
          SaveRefused, ReadBootstrap, BootstrapAnswered, BootstrapFailed
  <1>4. asked' \in BOOLEAN
    <2>1. ASSUME NEW s \in profileSaves, ProfileAnswered(s) \/ SettingsSaved(s)
          PROVE  asked' \in BOOLEAN
      BY <2>1 DEF SettingsSaved, ProfileAnswered, AskSettings
    <2> QED
      BY <2>1
      DEF FlagsTyped,
          ProfileNext, EditName, SaveName, PickLocale, PickTheme, PickThemeInHeader, Flip, PickFile,
          ReleasePicked, UploadAvatar, DeleteAvatar, EnterPassword, SubmitPassword, ApplySave,
          SaveRefused, SaveLost, ReadBootstrap, BootstrapAnswered, BootstrapFailed
  <1> QED BY <1>1, <1>2, <1>3, <1>4, Zenon DEF FlagsTyped

LEMMA SplitsType ==
  ProfileTypeOK <=> SettingsShownTyped /\ ReadTyped /\ FlagsTyped /\ savesMade \in 0..MaxSaves
  BY Zenon DEF ProfileTypeOK, SettingsShownTyped, ReadTyped, FlagsTyped

LEMMA ProfileTypeStep ==
  ASSUME ProfileTypeOK, SavesTyped, OneNumberEach, ProfileNext
  PROVE  ProfileTypeOK' /\ SavesTyped' /\ OneNumberEach'
  <1>1. SettingsShownTyped /\ ReadTyped /\ FlagsTyped  BY SplitsType
  <1>2. SettingsShownTyped' /\ ReadTyped' /\ FlagsTyped'  BY <1>1, ShownStep, ReadStep, FlagsStep
  <1>3. SavesTyped' /\ OneNumberEach' /\ savesMade' \in 0..MaxSaves  BY SavesStep
  <1>4. ProfileTypeOK'  BY <1>2, <1>3, Zenon DEF ProfileTypeOK, SettingsShownTyped, ReadTyped, FlagsTyped
  <1> QED BY <1>3, <1>4

-----------------------------------------------------------------------------
(* Answers.                                                                 *)

\* What holds of the profile unless its requests overtook each other or an answer was
\* lost.
InOrderKept == InTurn /\ LastAnswerTells /\ LocalesFollow

\* A step that concerns no answer.
LEMMA NothingAnswered ==
  ASSUME InOrderKept, SavesTyped, Done' = Done,
         \A r \in profileSaves' : r \in profileSaves \/ (r.stage = "sent" /\ \A s \in Done : s.id < r.id),
         UNCHANGED <<profile, user, language>>
  PROVE  InOrderKept'
  <1>1. DoneProfiles' = DoneProfiles  BY DEF DoneProfiles
  <1>2. InTurn'
    <2> SUFFICES ASSUME NEW r \in profileSaves', NEW s \in profileSaves', r.stage = "sent", s.stage = "done",
                        IsProfile(r), IsProfile(s)
                 PROVE  s.id < r.id
      BY DEF InTurn
    <2>1. s \in Done  BY DEF Done
    <2> QED BY <2>1 DEF InTurn, InOrderKept, Done
  <1>3. LastAnswerTells'  BY <1>1 DEF InOrderKept, LastAnswerTells
  <1>4. LocalesFollow'  BY <1>1 DEF InOrderKept, LocalesFollow
  <1> QED BY <1>2, <1>3, <1>4 DEF InOrderKept

LEMMA AnswerApplied ==
  ASSUME InOrderKept, SavesTyped, OneNumberEach, ProfileTypeOK,
         NEW s \in profileSaves, ApplySave(s), "profile" \notin amiss'
  PROVE  InOrderKept'
  <1> DEFINE d == [s EXCEPT !.stage = "done", !.answer = profile']
  <1>1. /\ d.id = s.id /\ d.op = s.op /\ d.stage = "done" /\ d.answer = profile'
    <2>1. profile' \in Profiles  BY AfterTyped DEF ApplySave
    <2> QED BY <2>1, AppliedIs
  <1>2. /\ profileSaves' = (profileSaves \ {s}) \cup {d} /\ s.stage = "sent"
        /\ IsProfile(s) => \A r \in profileSaves :
                               IsProfile(r) /\ r.stage = "sent" => ~ (r.id < s.id)
        /\ UNCHANGED <<user, language>>
        /\ profile' = After(s)
    BY DEF ApplySave, Overtakes
  <1> HIDE DEF d
  <1>3. Done' = Done \cup {d}  BY <1>1, <1>2 DEF Done
  <1>4. IsProfile(s) => \A r \in DoneProfiles : r \in profileSaves /\ r.id < s.id
    BY <1>2 DEF InOrderKept, InTurn, Done, DoneProfiles
  <1>5. InTurn'
    <2> SUFFICES ASSUME NEW r \in profileSaves', NEW q \in profileSaves', r.stage = "sent", q.stage = "done",
                        IsProfile(r), IsProfile(q)
                 PROVE  q.id < r.id
      BY DEF InTurn
    <2>1. r \in profileSaves /\ r # s  BY <1>1, <1>2
    <2>3. CASE q = d
      <3>1. IsProfile(s)  BY <1>1, <2>3 DEF IsProfile
      <3>2. s.id < r.id  BY <1>2, <2>1, <3>1 DEF OneNumberEach, SavesTyped
      <3> QED BY <1>1, <2>3, <3>2
    <2>4. CASE q # d  BY <1>2, <2>1, <2>4 DEF InOrderKept, InTurn
    <2> QED BY <2>3, <2>4
  <1>6. CASE ~ IsProfile(s)
    <2>1. profile' = profile  BY <1>2, <1>6 DEF After, IsProfile
    <2>2. DoneProfiles' = DoneProfiles  BY <1>1, <1>3, <1>6 DEF DoneProfiles, IsProfile
    <2>3. LastAnswerTells'  BY <1>2, <2>1, <2>2 DEF InOrderKept, LastAnswerTells
    <2>4. LocalesFollow'  BY <1>2, <2>1, <2>2 DEF InOrderKept, LocalesFollow
    <2> QED BY <1>5, <2>3, <2>4 DEF InOrderKept
  <1>7. CASE IsProfile(s)
    <2>2. DoneProfiles' = DoneProfiles \cup {d}  BY <1>1, <1>3, <1>7 DEF DoneProfiles, IsProfile
    <2>3. \A r \in DoneProfiles : r \in profileSaves /\ r.id < d.id /\ r.id \in Nat
      BY <1>1, <1>4, <1>7 DEF DoneProfiles, SavesTyped
    <2>4. d.id \in Nat  BY <1>1 DEF SavesTyped
    <2>5. LastAnswerTells'
      <3>1. \A r \in DoneProfiles' : (\A q \in DoneProfiles' : q.id <= r.id) => r = d
        <4> SUFFICES ASSUME NEW r \in DoneProfiles', \A q \in DoneProfiles' : q.id <= r.id, r # d
                     PROVE  FALSE
          OBVIOUS
        <4>1. d.id <= r.id /\ r \in DoneProfiles  BY <2>2
        <4> QED BY <2>3, <2>4, <4>1
      <3>2. DoneProfiles' # {}  BY <2>2
      <3> QED BY <1>1, <3>1, <3>2 DEF LastAnswerTells
    <2>6. d.op # "locale" => profile'.locale = profile.locale
      BY <1>1, <1>2, <1>7 DEF After, IsProfile, ProfileTypeOK, Profiles
    <2>7. LocalesFollow'
      <3>1. (\A t \in DoneProfiles' : t.op # "locale") => user'.locale = profile'.locale
        BY <1>2, <2>2, <2>6 DEF InOrderKept, LocalesFollow
      <3>2. ASSUME NEW r \in DoneProfiles', \A t \in DoneProfiles' : t.op = "locale" => t.id > r.id
            PROVE  r.answer.locale = user'.locale
        <4>1. CASE r = d
          <5>1. \A t \in DoneProfiles' : t.op # "locale"  BY <2>2, <2>3, <2>4, <3>2, <4>1
          <5> QED BY <1>1, <3>1, <4>1, <5>1
        <4>2. CASE r # d
          <5>1. r \in DoneProfiles /\ \A t \in DoneProfiles : t.op = "locale" => t.id > r.id
            BY <2>2, <3>2, <4>2
          <5> QED BY <1>2, <5>1 DEF InOrderKept, LocalesFollow
        <4> QED BY <4>1, <4>2
      <3>3. ASSUME NEW r \in DoneProfiles', \A t \in DoneProfiles' : t.op = "locale" => t.id <= r.id
            PROVE  r.answer.locale = profile'.locale
        <4>1. CASE r = d  BY <1>1, <4>1
        <4>2. CASE r # d
          <5>1. r \in DoneProfiles /\ \A t \in DoneProfiles : t.op = "locale" => t.id <= r.id
            BY <2>2, <3>3, <4>2
          <5>2. d.op # "locale"  BY <2>2, <2>3, <2>4, <3>3, <5>1
          <5> QED BY <2>6, <5>1, <5>2 DEF InOrderKept, LocalesFollow
        <4> QED BY <4>1, <4>2
      <3>4. ASSUME NEW q \in DoneProfiles', NEW r \in DoneProfiles', q.id < r.id,
                   \A t \in DoneProfiles' : t.op = "locale" => ~ (q.id < t.id /\ t.id <= r.id)
            PROVE  q.answer.locale = r.answer.locale
        <4>1. q \in DoneProfiles  BY <2>2, <2>3, <2>4, <3>4
        <4>2. CASE r = d
          <5>1. \A t \in DoneProfiles' : t.op = "locale" => t.id <= q.id
            BY <2>2, <2>3, <2>4, <3>4, <4>1, <4>2
          <5> QED BY <1>1, <3>3, <4>2, <5>1
        <4>3. CASE r # d
          <5>1. r \in DoneProfiles
                /\ \A t \in DoneProfiles : t.op = "locale" => ~ (q.id < t.id /\ t.id <= r.id)
            BY <2>2, <3>4, <4>3
          <5> QED BY <3>4, <4>1, <5>1 DEF InOrderKept, LocalesFollow
        <4> QED BY <4>2, <4>3
      <3>5. language' = user'.locale  BY <1>2 DEF InOrderKept, LocalesFollow
      <3> QED BY <3>1, <3>2, <3>3, <3>4, <3>5 DEF LocalesFollow
    <2> QED BY <1>5, <2>5, <2>7 DEF InOrderKept
  <1> QED BY <1>6, <1>7

LEMMA AnswerTaken ==
  ASSUME InOrderKept, SavesTyped, OneNumberEach, ProfileTypeOK,
         NEW s \in profileSaves, ProfileAnswered(s), "profile" \notin amiss'
  PROVE  InOrderKept'
  <1>1. /\ profileSaves' = profileSaves \ {s} /\ s.stage = "done" /\ IsProfile(s)
        /\ user' = s.answer
        /\ language' = IF s.op = "locale" THEN s.answer.locale ELSE language
        /\ \A r \in profileSaves : IsProfile(r) /\ r.stage = "done" => ~ (r.id < s.id)
        /\ UNCHANGED profile
    BY DEF ProfileAnswered, Overtakes
  <1>2. s \in DoneProfiles /\ Done' = Done \ {s} /\ DoneProfiles' = DoneProfiles \ {s}
    BY <1>1 DEF Done, DoneProfiles
  <1>3. \A r \in DoneProfiles' : s.id < r.id /\ r.id \in Nat /\ s.id \in Nat /\ r \in DoneProfiles
    BY <1>1, <1>2 DEF Done, DoneProfiles, OneNumberEach, SavesTyped
  <1>4. InTurn'  BY <1>1 DEF InOrderKept, InTurn
  <1>5. LastAnswerTells'
    <2>1. ASSUME DoneProfiles' = {}  PROVE user' = profile'
      <3>1. \A r \in DoneProfiles : r.id <= s.id  BY <1>2, <1>3, <2>1 DEF SavesTyped, DoneProfiles, Done
      <3> QED BY <1>1, <1>2, <3>1 DEF InOrderKept, LastAnswerTells
    <2>2. ASSUME NEW r \in DoneProfiles', \A q \in DoneProfiles' : q.id <= r.id
          PROVE  r.answer = profile'
      <3>1. \A q \in DoneProfiles : q.id <= r.id  BY <1>2, <1>3, <2>2
      <3> QED BY <1>1, <1>3, <3>1 DEF InOrderKept, LastAnswerTells
    <2> QED BY <2>1, <2>2 DEF LastAnswerTells
  <1>6. s.op # "locale" => s.answer.locale = user.locale
    <2>1. s.op # "locale" => \A t \in DoneProfiles : t.op = "locale" => t.id > s.id
      BY <1>2, <1>3
    <2> QED BY <1>2, <2>1 DEF InOrderKept, LocalesFollow
  <1>7. LocalesFollow'
    <2>1. language' = user'.locale  BY <1>1, <1>6 DEF InOrderKept, LocalesFollow
    <2>2. ASSUME \A t \in DoneProfiles' : t.op # "locale"  PROVE user'.locale = profile'.locale
      <3>1. \A t \in DoneProfiles : t.op = "locale" => t.id <= s.id
        BY <1>2, <2>2 DEF SavesTyped, DoneProfiles, Done
      <3> QED BY <1>1, <1>2, <3>1 DEF InOrderKept, LocalesFollow
    <2>3. ASSUME NEW r \in DoneProfiles', \A t \in DoneProfiles' : t.op = "locale" => t.id > r.id
          PROVE  r.answer.locale = user'.locale
      <3>1. \A t \in DoneProfiles : t.op = "locale" => ~ (s.id < t.id /\ t.id <= r.id)
        BY <1>2, <1>3, <2>3 DEF SavesTyped, DoneProfiles, Done
      <3> QED BY <1>1, <1>2, <1>3, <3>1 DEF InOrderKept, LocalesFollow
    <2>4. ASSUME NEW r \in DoneProfiles', \A t \in DoneProfiles' : t.op = "locale" => t.id <= r.id
          PROVE  r.answer.locale = profile'.locale
      <3>1. \A t \in DoneProfiles : t.op = "locale" => t.id <= r.id  BY <1>2, <1>3, <2>4
      <3> QED BY <1>1, <1>3, <3>1 DEF InOrderKept, LocalesFollow
    <2>5. ASSUME NEW q \in DoneProfiles', NEW r \in DoneProfiles', q.id < r.id,
                 \A t \in DoneProfiles' : t.op = "locale" => ~ (q.id < t.id /\ t.id <= r.id)
          PROVE  q.answer.locale = r.answer.locale
      <3>1. \A t \in DoneProfiles : t.op = "locale" => ~ (q.id < t.id /\ t.id <= r.id)
        BY <1>2, <1>3, <2>5
      <3> QED BY <1>3, <2>5, <3>1 DEF InOrderKept, LocalesFollow
    <2> QED BY <2>1, <2>2, <2>3, <2>4, <2>5 DEF LocalesFollow
  <1> QED BY <1>4, <1>5, <1>7 DEF InOrderKept

LEMMA InOrderStep ==
  ASSUME InOrderKept, SavesTyped, OneNumberEach, ProfileTypeOK, ProfileNext,
         "profile" \notin amiss'
  PROVE  InOrderKept'
  <1>1. ASSUME UNCHANGED <<profileSaves, profile, user, language>>
        PROVE  InOrderKept'
    BY <1>1, NothingAnswered DEF Done
  <1>2. ASSUME NEW op, NEW v, Save(op, v),
               \/ op = "name" /\ v \in DisplayNames
               \/ op = "locale" /\ v \in Locales
               \/ op = "upload" /\ v \in Avatars
               \/ op = "delete" /\ v = NoAvatar
               \/ op = "password" /\ v = "entered"
               \/ op = "theme" /\ v \in Themes
               \/ op = "flag" /\ v \in Switch,
               UNCHANGED <<profile, user, language>>
        PROVE  InOrderKept'
    <2>1. PICK n : /\ profileSaves' = profileSaves \cup {n} /\ n.stage = "sent"
                   /\ \A s \in profileSaves : s.id < n.id
      BY <1>2, SentIsTyped
    <2>2. Done' = Done  BY <2>1 DEF Done
    <2>3. \A r \in profileSaves' : r \in profileSaves \/ (r.stage = "sent" /\ \A s \in Done : s.id < r.id)
      BY <2>1 DEF Done
    <2> QED BY <1>2, <2>2, <2>3, NothingAnswered
  <1>3. ASSUME NEW s \in profileSaves, ApplySave(s)  PROVE InOrderKept'
    BY <1>3, AnswerApplied
  <1>4. ASSUME NEW s \in profileSaves, ProfileAnswered(s)  PROVE InOrderKept'
    BY <1>4, AnswerTaken
  <1>5. ASSUME NEW s \in profileSaves, SettingsSaved(s) \/ SaveLost(s)  PROVE InOrderKept'
    <2>1. /\ profileSaves' = profileSaves \ {s} /\ ~ IsProfile(s)
          /\ UNCHANGED <<profile, user, language>>
      BY <1>5 DEF SettingsSaved, SaveLost
    <2>2. DoneProfiles' = DoneProfiles  BY <2>1 DEF Done, DoneProfiles
    <2>3. InTurn'  BY <2>1 DEF InOrderKept, InTurn
    <2>4. LastAnswerTells'  BY <2>1, <2>2 DEF InOrderKept, LastAnswerTells
    <2>5. LocalesFollow'  BY <2>1, <2>2 DEF InOrderKept, LocalesFollow
    <2> QED BY <2>3, <2>4, <2>5 DEF InOrderKept
  <1>6. ASSUME NEW s \in profileSaves, SaveRefused(s)  PROVE InOrderKept'
    <2>1. Done' = Done /\ profileSaves' \subseteq profileSaves  BY <1>6 DEF SaveRefused, Done
    <2> QED BY <1>6, <2>1, NothingAnswered DEF SaveRefused
  <1>8. CASE ReadBootstrap \/ BootstrapAnswered \/ BootstrapFailed
    BY <1>1, <1>8 DEF ReadBootstrap, BootstrapAnswered, BootstrapFailed
  <1>10. ASSUME NEW f \in BOOLEAN, SaveName(f)  PROVE InOrderKept'
    BY <1>1, <1>2, <1>10 DEF SaveName, ProfileTypeOK
  <1>11. ASSUME NEW l \in Locales, PickLocale(l)  PROVE InOrderKept'
    BY <1>2, <1>11 DEF PickLocale
  <1>12. ASSUME NEW t \in Themes, PickTheme(t)  PROVE InOrderKept'
    BY <1>2, <1>12 DEF PickTheme
  <1>13. CASE Flip  BY <1>2, <1>13 DEF Flip
  <1>14. CASE UploadAvatar  BY <1>2, <1>14 DEF UploadAvatar, ProfileTypeOK
  <1>15. CASE DeleteAvatar  BY <1>2, <1>15 DEF DeleteAvatar
  <1>16. CASE SubmitPassword  BY <1>2, <1>16 DEF SubmitPassword
  <1> QED
    BY <1>1, <1>3, <1>4, <1>5, <1>6, <1>8, <1>10, <1>11, <1>12, <1>13, <1>14, <1>15, <1>16
    DEF ProfileNext, EditName, PickThemeInHeader, PickFile, ReleasePicked, EnterPassword

LEMMA MishapStays ==
  ASSUME ProfileNext, "profile" \in amiss
  PROVE  "profile" \in amiss'
  BY DEF ProfileNext, EditName, SaveName, PickLocale, PickTheme, PickThemeInHeader, Flip, PickFile,
         ReleasePicked, UploadAvatar, DeleteAvatar, EnterPassword, SubmitPassword, ApplySave,
         ProfileAnswered, SettingsSaved, SaveRefused, SaveLost, ReadBootstrap, BootstrapAnswered,
         BootstrapFailed

-----------------------------------------------------------------------------
(* Settings.                                                                *)

\* The settings are asked for again after every change of them that was answered, in
\* whatever order requests and answers came.
LEMMA SettingsStep ==
  ASSUME "settings" \notin amiss => SettingsAsked, SavesTyped, ProfileNext,
         "settings" \notin amiss'
  PROVE  SettingsAsked'
  <1>1. ASSUME UNCHANGED <<settings, knownSettings, asked, read, amiss>>, Done' = Done
        PROVE  SettingsAsked'
    BY <1>1 DEF SettingsAsked
  <1>2. ASSUME NEW s \in profileSaves, ApplySave(s)  PROVE SettingsAsked'
    <2> DEFINE d == [s EXCEPT !.stage = "done", !.answer = profile']
    <2>1. d \in profileSaves' /\ \A r \in Done : r \in Done'
      BY <1>2 DEF ApplySave, Done
    <2>2. CASE IsProfile(s)
      <3>1. UNCHANGED <<settings, knownSettings, asked, read>> /\ amiss \subseteq amiss'
        BY <1>2, <2>2 DEF ApplySave, IsProfile
      <3> QED BY <2>1, <3>1 DEF SettingsAsked
    <2>3. CASE ~ IsProfile(s)
      <3>1. d.op = s.op /\ d.stage = "done"  BY DEF SavesTyped
      <3>2. d \in Done' /\ ~ IsProfile(d)  BY <2>1, <2>3, <3>1 DEF Done, IsProfile
      <3> QED BY <3>2 DEF SettingsAsked
    <2> QED BY <2>2, <2>3
  <1>3. ASSUME NEW s \in profileSaves, ProfileAnswered(s)  PROVE SettingsAsked'
    <2>1. CASE s.op = "locale"
      <3>1. asked' = TRUE /\ read' = {}  BY <1>3, <2>1 DEF ProfileAnswered, AskSettings
      <3> QED BY <3>1 DEF SettingsAsked
    <2>2. CASE s.op # "locale"
      <3>1. /\ UNCHANGED <<settings, knownSettings, read>> /\ asked' = (asked \/ FALSE)
            /\ amiss \subseteq amiss' /\ profileSaves' = profileSaves \ {s} /\ IsProfile(s)
        BY <1>3, <2>2 DEF ProfileAnswered, AskSettings
      <3>2. (\A r \in Done' : IsProfile(r)) => (\A r \in Done : IsProfile(r))
        BY <3>1 DEF Done
      <3> QED BY <3>1, <3>2 DEF SettingsAsked
    <2> QED BY <2>1, <2>2
  <1>4. ASSUME NEW s \in profileSaves, SettingsSaved(s)  PROVE SettingsAsked'
    <2>1. asked' = TRUE /\ read' = {}  BY <1>4 DEF SettingsSaved, AskSettings
    <2> QED BY <2>1 DEF SettingsAsked
  <1>5. ASSUME NEW s \in profileSaves, SaveLost(s)  PROVE SettingsAsked'
    <2>1. /\ UNCHANGED <<settings, knownSettings, asked, read>> /\ amiss \subseteq amiss'
          /\ profileSaves' = profileSaves \ {s} /\ IsProfile(s)
      BY <1>5 DEF SaveLost
    <2>2. (\A r \in Done' : IsProfile(r)) => (\A r \in Done : IsProfile(r))
      BY <2>1 DEF Done
    <2> QED BY <2>1, <2>2 DEF SettingsAsked
  <1>6. ASSUME NEW s \in profileSaves, SaveRefused(s)  PROVE SettingsAsked'
    <2>1. Done' = Done  BY <1>6 DEF SaveRefused, Done
    <2> QED BY <1>1, <1>6, <2>1 DEF SaveRefused
  <1>7. CASE ReadBootstrap \/ BootstrapAnswered
    BY <1>7 DEF ReadBootstrap, BootstrapAnswered, SettingsAsked, Done
  <1>8. CASE BootstrapFailed  BY <1>8 DEF BootstrapFailed
  <1>9. ASSUME NEW op, NEW v, Save(op, v)  PROVE Done' = Done
    BY <1>9 DEF Save, Done
  <1>10. ASSUME NEW f \in BOOLEAN, SaveName(f)  PROVE SettingsAsked'
    BY <1>1, <1>9, <1>10 DEF SaveName, Done
  <1>11. ASSUME NEW l \in Locales, PickLocale(l)  PROVE SettingsAsked'
    BY <1>1, <1>9, <1>11 DEF PickLocale
  <1>12. ASSUME NEW t \in Themes, PickTheme(t)  PROVE SettingsAsked'
    BY <1>1, <1>9, <1>12 DEF PickTheme
  <1>13. CASE Flip  BY <1>1, <1>9, <1>13 DEF Flip
  <1>14. CASE UploadAvatar \/ DeleteAvatar \/ SubmitPassword
    BY <1>1, <1>9, <1>14 DEF UploadAvatar, DeleteAvatar, SubmitPassword
  <1> QED
    BY <1>1, <1>2, <1>3, <1>4, <1>5, <1>6, <1>7, <1>8, <1>10, <1>11, <1>12, <1>13, <1>14
    DEF ProfileNext, EditName, PickThemeInHeader, PickFile, ReleasePicked, EnterPassword, Done

\* The settings page has its type.  What it is told of the profile arrives in the order
\* it was asked, unless it is on record that the profile may be amiss; what it knows
\* of the settings is what the server keeps or is being asked, unless it is on record
\* that the settings may be.
THEOREM ProfileInvariant == ProfileSpec => []ProfileInv
  <1>1. ASSUME ProfileInv, [ProfileNext]_profileVars  PROVE ProfileInv'
    <2>1. CASE ProfileNext
      <3>1. ProfileTypeOK' /\ SavesTyped' /\ OneNumberEach'
        BY <1>1, <2>1, ProfileTypeStep DEF ProfileInv
      <3>2. ASSUME "profile" \notin amiss'  PROVE InOrderKept'
        <4>1. "profile" \notin amiss  BY <2>1, <3>2, MishapStays
        <4> QED BY <1>1, <2>1, <3>2, <4>1, InOrderStep DEF ProfileInv, InOrderKept
      <3>3. ASSUME "settings" \notin amiss'  PROVE SettingsAsked'
        BY <1>1, <2>1, <3>3, SettingsStep DEF ProfileInv
      <3> QED BY <3>1, <3>2, <3>3 DEF ProfileInv, InOrderKept
    <2>2. CASE UNCHANGED profileVars
      <3>1. UNCHANGED <<profile, settings, user, nameText, nameFocused, language, preference,
                        knownSettings, asked, read, themeApplied, picked, password, profileSaves,
                        savesMade, amiss>>
        BY <2>2 DEF profileVars
      <3>2. ProfileTypeOK'  BY <1>1, <3>1 DEF ProfileInv, ProfileTypeOK
      <3>3. SavesTyped' /\ OneNumberEach'  BY <1>1, <3>1 DEF ProfileInv, SavesTyped, OneNumberEach
      <3>4. InTurn => InTurn'  BY <3>1 DEF InTurn
      <3>5. Done' = Done /\ DoneProfiles' = DoneProfiles  BY <3>1 DEF Done, DoneProfiles
      <3>6. LastAnswerTells => LastAnswerTells'  BY <3>1, <3>5 DEF LastAnswerTells
      <3>7. LocalesFollow => LocalesFollow'  BY <3>1, <3>5 DEF LocalesFollow
      <3>8. SettingsAsked => SettingsAsked'  BY <3>1, <3>5 DEF SettingsAsked
      <3> QED BY <1>1, <3>1, <3>2, <3>3, <3>4, <3>6, <3>7, <3>8 DEF ProfileInv
    <2> QED BY <1>1, <2>1, <2>2
  <1> QED BY <1>1, ProfileBegins, PTL DEF ProfileSpec

\* When the answers to all saves have come the settings page shows the profile the
\* server keeps, in its language, and once no question is open the settings too.  Left
\* out by name: the profile after one of its requests overtook another or lost its
\* answer, and the settings after a settings answer was lost, or a question failed,
\* until they are asked for again (SettingsPage.tsx:68-148).
THEOREM PageComesToRest == ProfileSpec => []PageSettles
  <1>1. ProfileInv => PageSettles
    BY DEF ProfileInv, PageSettles, LastAnswerTells, LocalesFollow, SettingsAsked, Done, DoneProfiles
  <1> QED BY <1>1, ProfileInvariant, PTL

-----------------------------------------------------------------------------
(*                            THE STORAGE FIELD                             *)
-----------------------------------------------------------------------------

SentDefaults == {r \in storageRequests : r.stage = "sent" /\ r.op = "default"}
DoneRequests == {r \in storageRequests : r.stage = "done"}

RequestRecord == [id : Nat, op : {"default", "delete"}, name : FieldTexts, stage : {"sent", "done"}]

RequestsTyped ==
  \A r \in storageRequests :
    /\ r \in RequestRecord /\ r.id < storageAsks
    /\ r.op = "delete" => r.name \in Locations

OneIdEach == \A r, q \in storageRequests : r.id = q.id => r = q

QuestionTyped == askSettings \in {NotAsked, Asked} \cup [stage : {"read"}, name : FieldTexts]

\* What the server keeps once it has every save that is on its way to it.
EndsAs(text) ==
  \/ SentDefaults = {} /\ stored = text
  \/ \E r \in SentDefaults : r.name = text /\ \A q \in SentDefaults : q.id <= r.id

NothingDeleted == \A r \in DoneRequests : r.op = "default"

\* A text left in the field is the value last read or the one saved last.
DraftIsSaved ==
  ~ inField /\ storageDraft # NoDraft => storageDraft = knownDefault \/ EndsAs(storageDraft)

\* The value is asked for again once a save is answered.
DefaultAsked ==
  DoneRequests = {} =>
    /\ askSettings = NotAsked => knownDefault = stored
    /\ askSettings.stage = "read" => askSettings.name = stored

FieldKept ==
  /\ "draft" \notin storageAmiss => NothingDeleted /\ DraftIsSaved
  /\ "settings" \notin storageAmiss => DefaultAsked

StorageInv ==
  StorageTypeOK /\ RequestsTyped /\ OneIdEach /\ QuestionTyped /\ FieldKept

LEMMA StorageTexts ==
  /\ NoText \in FieldTexts /\ NoDraft \notin FieldTexts /\ Locations \subseteq FieldTexts
  /\ Preset \in FieldTexts /\ NoText \notin Locations
  BY StorageAssumption DEF FieldTexts, Locations, NoText, NoDraft

LEMMA StorageBegins ==
  ASSUME StorageInit
  PROVE  StorageInv
  <1>1. storageRequests = {} /\ SentDefaults = {} /\ DoneRequests = {}
    BY DEF StorageInit, SentDefaults, DoneRequests
  <1>2. stored \in FieldTexts /\ knownDefault = stored /\ openedWithValue = stored
    BY StorageTexts DEF StorageInit
  <1>3. {listOpen, inField, askList} \subseteq BOOLEAN
    <2>1. listOpen = FALSE /\ inField = FALSE /\ askList = FALSE
      BY DEF StorageInit
    <2> QED BY <2>1, Zenon
  <1>4. places \subseteq Locations /\ options \subseteq Locations
    BY DEF StorageInit, Locations
  <1>5. storageAsks \in 0..MaxStorageAsks  BY StorageAssumption DEF StorageInit
  <1>6. QuestionTyped /\ askSettings.stage = "idle"  BY DEF StorageInit, QuestionTyped, NotAsked
  <1>7. StorageTypeOK
    BY <1>2, <1>3, <1>4, <1>5, <1>6 DEF StorageInit, StorageTypeOK
  <1>8. FieldKept
    BY <1>1, <1>2, <1>6 DEF FieldKept, NothingDeleted, DraftIsSaved, DefaultAsked, StorageInit
  <1>9. RequestsTyped /\ OneIdEach  BY <1>1 DEF RequestsTyped, OneIdEach
  <1> QED BY <1>6, <1>7, <1>8, <1>9 DEF StorageInv

-----------------------------------------------------------------------------
(* Requests.                                                                *)

LEMMA ValueTyped ==
  ASSUME StorageTypeOK
  PROVE  Value \in FieldTexts
  BY DEF StorageTypeOK, Value

LEMMA RequestAsked ==
  ASSUME RequestsTyped, OneIdEach, storageAsks \in 0..MaxStorageAsks,
         NEW op \in {"default", "delete"}, NEW text \in FieldTexts,
         op = "delete" => text \in Locations, AskStorage(op, text)
  PROVE  /\ RequestsTyped' /\ OneIdEach' /\ storageAsks' \in 0..MaxStorageAsks
         /\ DoneRequests' = DoneRequests
         /\ op = "delete" => SentDefaults' = SentDefaults
         /\ op = "default" => EndsAs(text)'
  <1> DEFINE n == [id |-> storageAsks, op |-> op, name |-> text, stage |-> "sent"]
  <1>1. /\ n \in RequestRecord /\ n.id = storageAsks /\ n.op = op /\ n.name = text /\ n.stage = "sent"
    BY DEF RequestRecord
  <1>2. storageRequests' = storageRequests \cup {n} /\ storageAsks' = storageAsks + 1
        /\ storageAsks < MaxStorageAsks
    BY DEF AskStorage
  <1> HIDE DEF n
  <1>3. storageAsks' \in 0..MaxStorageAsks /\ storageAsks' > storageAsks /\ storageAsks \in Nat
    BY <1>2, StorageAssumption
  <1>4. \A r \in storageRequests : r.id \in Nat /\ r.id < n.id
    BY <1>1 DEF RequestsTyped, RequestRecord
  <1>5. RequestsTyped'
    <2> SUFFICES ASSUME NEW r \in storageRequests'
                 PROVE  /\ r \in RequestRecord /\ r.id < storageAsks'
                        /\ r.op = "delete" => r.name \in Locations
      BY DEF RequestsTyped
    <2>1. CASE r = n  BY <1>1, <1>3, <2>1
    <2>2. CASE r \in storageRequests
      BY <1>1, <1>3, <1>4, <2>2 DEF RequestsTyped
    <2> QED BY <1>2, <2>1, <2>2
  <1>6. OneIdEach'
    <2> SUFFICES ASSUME NEW r \in storageRequests', NEW q \in storageRequests', r.id = q.id
                 PROVE  r = q
      BY DEF OneIdEach
    <2>1. CASE r \in storageRequests /\ q \in storageRequests  BY <2>1 DEF OneIdEach
    <2>2. CASE r = n \/ q = n  BY <1>2, <1>3, <1>1, <1>4, <2>2
    <2> QED BY <1>2, <2>1, <2>2
  <1>7. DoneRequests' = DoneRequests  BY <1>1, <1>2 DEF DoneRequests
  <1>8. op = "delete" => SentDefaults' = SentDefaults  BY <1>1, <1>2 DEF SentDefaults
  <1>9. ASSUME op = "default"  PROVE EndsAs(text)'
    <2>1. SentDefaults' = SentDefaults \cup {n}  BY <1>1, <1>2, <1>9 DEF SentDefaults
    <2>2. \A q \in SentDefaults' : q.id <= n.id
      BY <1>1, <1>3, <1>4, <2>1 DEF SentDefaults
    <2> QED BY <1>1, <2>1, <2>2 DEF EndsAs
  <1> QED BY <1>3, <1>5, <1>6, <1>7, <1>8, <1>9

LEMMA ValueSaved ==
  ASSUME RequestsTyped, OneIdEach, storageAsks \in 0..MaxStorageAsks,
         NEW text \in FieldTexts, SaveValue(text)
  PROVE  /\ RequestsTyped' /\ OneIdEach' /\ storageAsks' \in 0..MaxStorageAsks
         /\ DoneRequests' = DoneRequests
         /\ text = knownDefault \/ EndsAs(text)'
  <1>1. CASE text = knownDefault
    BY <1>1 DEF SaveValue, sentVars, RequestsTyped, OneIdEach, DoneRequests
  <1>2. CASE text # knownDefault
    BY <1>2, RequestAsked DEF SaveValue
  <1> QED BY <1>1, <1>2

LEMMA FieldBlurred ==
  ASSUME StorageTypeOK, RequestsTyped, OneIdEach, BlurField
  PROVE  /\ RequestsTyped' /\ OneIdEach' /\ storageAsks' \in 0..MaxStorageAsks
         /\ DoneRequests' = DoneRequests
         /\ DraftIsSaved /\ UNCHANGED <<storageDraft, knownDefault, stored>> => DraftIsSaved'
  <1>0. storageAsks \in 0..MaxStorageAsks /\ storageDraft \in FieldTexts \cup {NoDraft}
    BY DEF StorageTypeOK
  <1>1. CASE inField /\ storageDraft # NoDraft
    <2>1. PICK text \in FieldTexts : text = storageDraft  BY <1>0, <1>1
    <2>2. SaveValue(text)  BY <1>1, <2>1 DEF BlurField
    <2>3. /\ RequestsTyped' /\ OneIdEach' /\ storageAsks' \in 0..MaxStorageAsks
          /\ DoneRequests' = DoneRequests
          /\ text = knownDefault \/ EndsAs(text)'
      BY <1>0, <2>2, ValueSaved
    <2>4. ASSUME UNCHANGED <<storageDraft, knownDefault, stored>>
          PROVE  DraftIsSaved'
      <3>1. storageDraft' = text /\ (text = knownDefault' \/ EndsAs(text)')
        BY <2>1, <2>3, <2>4
      <3>2. storageDraft' = knownDefault' \/ EndsAs(storageDraft)'  BY <3>1 DEF EndsAs
      <3> QED BY <3>2 DEF DraftIsSaved
    <2> QED BY <2>3, <2>4
  <1>2. CASE ~ (inField /\ storageDraft # NoDraft)
    <2>1. UNCHANGED <<storageRequests, storageAsks>>  BY <1>2 DEF BlurField, sentVars
    <2>2. SentDefaults' = SentDefaults /\ DoneRequests' = DoneRequests
      BY <2>1 DEF SentDefaults, DoneRequests
    <2>3. RequestsTyped' /\ OneIdEach' /\ storageAsks' \in 0..MaxStorageAsks
      BY <1>0, <2>1 DEF RequestsTyped, OneIdEach
    <2>4. ASSUME DraftIsSaved, UNCHANGED <<storageDraft, knownDefault, stored>>
          PROVE  DraftIsSaved'
      <3>1. EndsAs(storageDraft) => EndsAs(storageDraft)'  BY <2>2, <2>4 DEF EndsAs
      <3> QED BY <1>2, <2>4, <3>1 DEF DraftIsSaved
    <2> QED BY <2>2, <2>3, <2>4
  <1> QED BY <1>1, <1>2

LEMMA OptionSaved ==
  ASSUME StorageTypeOK, RequestsTyped, OneIdEach, NEW name \in Locations, ClickOption(name)
  PROVE  /\ RequestsTyped' /\ OneIdEach' /\ storageAsks' \in 0..MaxStorageAsks
         /\ DoneRequests' = DoneRequests
         /\ name = knownDefault \/ EndsAs(name)'
  <1> DEFINE left == IF inField /\ storageDraft # NoDraft THEN {storageDraft} ELSE {}
             saved == left \ {knownDefault}
             chosen == {name} \ {knownDefault}
             after == storageAsks + Cardinality(saved)
             Sent(id, texts) ==
               {[id |-> id, op |-> "default", name |-> t, stage |-> "sent"] : t \in texts}
  <1>0. storageAsks \in 0..MaxStorageAsks /\ MaxStorageAsks \in Nat
        /\ storageDraft \in FieldTexts \cup {NoDraft} /\ name \in FieldTexts
    BY StorageAssumption, StorageTexts DEF StorageTypeOK
  <1>1. /\ storageAsks' = after + Cardinality(chosen) /\ storageAsks' <= MaxStorageAsks
        /\ storageRequests' = storageRequests \cup Sent(storageAsks, saved) \cup Sent(after, chosen)
    BY DEF ClickOption
  <1>2. saved = {} \/ (\E t \in FieldTexts : saved = {t})
    BY <1>0
  <1>3. chosen = {} \/ chosen = {name}  OBVIOUS
  <1>4. Cardinality({}) = 0 /\ \A t : Cardinality({t}) = 1  BY FS_EmptySet, FS_Singleton
  <1>5. Cardinality(saved) \in {0, 1} /\ (saved # {} => Cardinality(saved) = 1)
    BY <1>2, <1>4
  <1>6. Cardinality(chosen) \in {0, 1} /\ (chosen # {} => Cardinality(chosen) = 1)
    BY <1>3, <1>4
  <1>7. /\ after \in Nat /\ storageAsks \in Nat /\ storageAsks <= after
        /\ saved # {} => after = storageAsks + 1
        /\ after <= storageAsks' /\ storageAsks' \in 0..MaxStorageAsks
        /\ chosen # {} => storageAsks' = after + 1
    BY <1>0, <1>1, <1>5, <1>6
  <1> DEFINE First == Sent(storageAsks, saved)
             Second == Sent(after, chosen)
  <1>8. /\ \A r \in First : /\ r \in RequestRecord /\ r.op = "default" /\ r.stage = "sent"
                            /\ r.id = storageAsks /\ saved # {}
        /\ \A r, q \in First : r = q
    BY <1>0, <1>2, <1>7 DEF RequestRecord
  <1>9. /\ \A r \in Second : /\ r \in RequestRecord /\ r.op = "default" /\ r.stage = "sent"
                             /\ r.id = after /\ r.name = name /\ chosen # {}
        /\ \A r, q \in Second : r = q
    <2> DEFINE m == [id |-> after, op |-> "default", name |-> name, stage |-> "sent"]
    <2>1. \A r \in Second : chosen # {} /\ r = m  BY <1>3
    <2>2. /\ m \in RequestRecord /\ m.op = "default" /\ m.stage = "sent"
          /\ m.id = after /\ m.name = name
      <3> HIDE DEF after
      <3> QED BY <1>0, <1>7 DEF RequestRecord
    <2> QED
      <3> HIDE DEF m, Second, chosen, after
      <3> QED BY <2>1, <2>2
  <1>17. chosen # {} => \E r \in Second : TRUE
    <2>1. ASSUME chosen # {}
          PROVE  [id |-> after, op |-> "default", name |-> name, stage |-> "sent"] \in Second
      BY <1>3, <2>1
    <2> QED BY <2>1
  <1>10. storageRequests' = (storageRequests \cup First) \cup Second  BY <1>1
  <1>11. chosen = {} => name = knownDefault  OBVIOUS
  <1> HIDE DEF left, saved, chosen, after, Sent, First, Second
  <1>12. \A r \in storageRequests : r \in RequestRecord /\ r.id \in Nat /\ r.id < storageAsks
    BY DEF RequestsTyped, RequestRecord
  <1>13. RequestsTyped'
    <2> SUFFICES ASSUME NEW r \in storageRequests'
                 PROVE  /\ r \in RequestRecord /\ r.id < storageAsks'
                        /\ r.op = "delete" => r.name \in Locations
      BY DEF RequestsTyped
    <2>1. CASE r \in storageRequests  BY <1>7, <1>12, <2>1 DEF RequestsTyped
    <2>2. CASE r \in First  BY <1>7, <1>8, <2>2
    <2>3. CASE r \in Second  BY <1>7, <1>9, <2>3
    <2> QED BY <1>10, <2>1, <2>2, <2>3
  <1>14. OneIdEach'
    <2> SUFFICES ASSUME NEW r \in storageRequests', NEW q \in storageRequests', r.id = q.id
                 PROVE  r = q
      BY DEF OneIdEach
    <2>1. CASE r \in storageRequests /\ q \in storageRequests  BY <2>1 DEF OneIdEach
    <2>2. CASE r \in storageRequests /\ q \notin storageRequests
      BY <1>7, <1>8, <1>9, <1>10, <1>12, <2>2
    <2>3. CASE r \notin storageRequests /\ q \in storageRequests
      BY <1>7, <1>8, <1>9, <1>10, <1>12, <2>3
    <2>4. CASE r \in First \cup Second /\ q \in First \cup Second
      BY <1>7, <1>8, <1>9, <2>4
    <2> QED BY <1>10, <2>1, <2>2, <2>3, <2>4
  <1>15. DoneRequests' = DoneRequests  BY <1>8, <1>9, <1>10 DEF DoneRequests
  <1>16. ASSUME chosen # {}  PROVE EndsAs(name)'
    <2>1. PICK n \in Second : TRUE  BY <1>16, <1>17
    <2>2. n \in SentDefaults' /\ n.name = name /\ n.id = after
      BY <1>9, <1>10, <2>1 DEF SentDefaults
    <2>3. \A q \in SentDefaults' : q.id <= n.id
      BY <1>7, <1>8, <1>9, <1>10, <1>12, <2>2 DEF SentDefaults
    <2> QED BY <2>2, <2>3 DEF EndsAs
  <1> QED BY <1>7, <1>11, <1>13, <1>14, <1>15, <1>16

LEMMA AppliedTyped ==
  ASSUME RequestsTyped, OneIdEach, NEW r \in storageRequests, Apply(r)
  PROVE  /\ RequestsTyped' /\ OneIdEach'
         /\ stored \in FieldTexts => stored' \in FieldTexts
         /\ places \subseteq Locations => places' \subseteq Locations
         /\ \E d : /\ d.id = r.id /\ d.op = r.op /\ d.stage = "done"
                  /\ storageRequests' = (storageRequests \ {r}) \cup {d}
  <1> DEFINE d == [r EXCEPT !.stage = "done"]
  <1>1. /\ r \in RequestRecord /\ r.id < storageAsks
        /\ r.op = "delete" => r.name \in Locations
    BY DEF RequestsTyped
  <1>2. /\ d \in RequestRecord /\ d.id = r.id /\ d.op = r.op /\ d.name = r.name /\ d.stage = "done"
    BY <1>1 DEF RequestRecord
  <1>3. storageRequests' = (storageRequests \ {r}) \cup {d} /\ storageAsks' = storageAsks
    BY DEF Apply
  <1> HIDE DEF d
  <1>4. RequestsTyped'
    <2> SUFFICES ASSUME NEW q \in storageRequests'
                 PROVE  /\ q \in RequestRecord /\ q.id < storageAsks'
                        /\ q.op = "delete" => q.name \in Locations
      BY DEF RequestsTyped
    <2>1. CASE q = d  BY <1>1, <1>2, <1>3, <2>1
    <2>2. CASE q \in storageRequests  BY <1>3, <2>2 DEF RequestsTyped
    <2> QED BY <1>3, <2>1, <2>2
  <1>5. OneIdEach'  BY <1>2, <1>3 DEF OneIdEach
  <1>6. r.name \in FieldTexts  BY <1>1 DEF RequestRecord
  <1>7. stored \in FieldTexts => stored' \in FieldTexts  BY <1>6, StorageTexts DEF Apply
  <1>8. places \subseteq Locations => places' \subseteq Locations
    BY <1>6 DEF Apply, FieldTexts
  <1> QED BY <1>2, <1>3, <1>4, <1>5, <1>7, <1>8

LEMMA ConfirmAsks ==
  ASSUME StorageTypeOK, RequestsTyped, OneIdEach, ConfirmDelete
  PROVE  /\ RequestsTyped' /\ OneIdEach' /\ storageAsks' \in 0..MaxStorageAsks
         /\ DoneRequests' = DoneRequests /\ SentDefaults' = SentDefaults
  <1>1. AskStorage("delete", toDelete) /\ toDelete \in Locations /\ toDelete \in FieldTexts
    BY StorageTexts DEF ConfirmDelete, StorageTypeOK
  <1> QED BY <1>1, RequestAsked DEF StorageTypeOK

LEMMA EnterSaves ==
  ASSUME StorageTypeOK, RequestsTyped, OneIdEach, EnterPicks \/ EnterAdds
  PROVE  /\ RequestsTyped' /\ OneIdEach' /\ storageAsks' \in 0..MaxStorageAsks
         /\ DoneRequests' = DoneRequests
  <1>0. storageAsks \in 0..MaxStorageAsks /\ Value \in FieldTexts  BY ValueTyped DEF StorageTypeOK
  <1>1. options \subseteq FieldTexts  BY StorageTexts DEF StorageTypeOK
  <1>2. CASE EnterPicks
    <2>1. SaveValue(highlight) /\ highlight \in FieldTexts
      BY <1>1, <1>2 DEF EnterPicks, Listed
    <2> QED BY <1>0, <2>1, ValueSaved
  <1>3. CASE EnterAdds /\ IsNewValue
    <2>1. SaveValue(Value)  BY <1>3 DEF EnterAdds
    <2> QED BY <1>0, <2>1, ValueSaved
  <1>4. CASE EnterAdds /\ ~ IsNewValue
    <2>1. UNCHANGED <<storageRequests, storageAsks>>  BY <1>4 DEF EnterAdds, sentVars
    <2> QED BY <1>0, <2>1 DEF RequestsTyped, OneIdEach, DoneRequests
  <1> QED BY <1>2, <1>3, <1>4

\* What the press on the chevron saves, whether it closes the list or opens it.
LEMMA ChevronSaves ==
  ASSUME StorageTypeOK, RequestsTyped, OneIdEach, ClickChevron
  PROVE  /\ RequestsTyped' /\ OneIdEach' /\ storageAsks' \in 0..MaxStorageAsks
         /\ DoneRequests' = DoneRequests
         /\ DraftIsSaved => DraftIsSaved'
  <1>1. CASE listOpen
    <2>1. BlurField /\ UNCHANGED <<storageDraft, knownDefault, stored>>
      BY <1>1 DEF ClickChevron, BlurField, serverVars, readVars
    <2> QED BY <2>1, FieldBlurred
  <1>2. CASE ~ listOpen
    <2>0. storageAsks \in 0..MaxStorageAsks /\ storageDraft \in FieldTexts \cup {NoDraft}
      BY DEF StorageTypeOK
    <2>1. DraftIsSaved'  BY <1>2 DEF ClickChevron, DraftIsSaved
    <2>2. CASE inField /\ storageDraft # NoDraft
      <3>1. SaveValue(storageDraft) /\ storageDraft \in FieldTexts
        BY <2>0, <2>2 DEF ClickChevron
      <3> QED BY <2>0, <2>1, <3>1, ValueSaved
    <2>3. CASE ~ (inField /\ storageDraft # NoDraft)
      <3>1. UNCHANGED <<storageRequests, storageAsks>>  BY <2>3 DEF ClickChevron, sentVars
      <3> QED BY <2>0, <2>1, <3>1 DEF RequestsTyped, OneIdEach, DoneRequests
    <2> QED BY <2>2, <2>3
  <1> QED BY <1>1, <1>2

\* The steps that send nothing and answer nothing.
Quiet ==
  \/ Focus \/ ArrowDownOpens \/ StorageEscape \/ StartNewEntry \/ CancelDelete
  \/ ReadSettings \/ SettingsAnswered \/ ListAnswered
  \/ SettingsUnanswered \/ ListUnanswered
  \/ \E t \in FieldTexts : Type(t)
  \/ \E n \in Locations : Highlight(n)

LEMMA QuietSendsNothing ==
  ASSUME Quiet
  PROVE  UNCHANGED <<storageRequests, storageAsks, stored, places>>
  BY DEF Quiet, Focus, ArrowDownOpens, StorageEscape, StartNewEntry, CancelDelete, ReadSettings,
         SettingsAnswered, ListAnswered, SettingsUnanswered, ListUnanswered, Type, Highlight,
         sentVars, serverVars

LEMMA RequestsStep ==
  ASSUME StorageTypeOK, RequestsTyped, OneIdEach, StorageNext
  PROVE  RequestsTyped' /\ OneIdEach' /\ storageAsks' \in 0..MaxStorageAsks
  <1>0. storageAsks \in 0..MaxStorageAsks  BY DEF StorageTypeOK
  <1>1. CASE Quiet
    BY <1>0, <1>1, QuietSendsNothing DEF RequestsTyped, OneIdEach
  <1>2. CASE LeaveField  BY <1>2, FieldBlurred DEF LeaveField
  <1>3. CASE EnterPicks \/ EnterAdds  BY <1>3, EnterSaves
  <1>4. CASE ClickChevron  BY <1>4, ChevronSaves
  <1>5. CASE ConfirmDelete  BY <1>5, ConfirmAsks
  <1>6. ASSUME NEW n \in Locations, ClickOption(n)
        PROVE  RequestsTyped' /\ OneIdEach' /\ storageAsks' \in 0..MaxStorageAsks
    BY <1>6, OptionSaved
  <1>7. ASSUME NEW n \in Locations, ClickTrash(n)
        PROVE  RequestsTyped' /\ OneIdEach' /\ storageAsks' \in 0..MaxStorageAsks
    BY <1>7, FieldBlurred DEF ClickTrash
  <1>8. ASSUME NEW r \in storageRequests, Apply(r)
        PROVE  RequestsTyped' /\ OneIdEach' /\ storageAsks' \in 0..MaxStorageAsks
    BY <1>0, <1>8, AppliedTyped DEF Apply
  <1>9. ASSUME NEW r \in storageRequests, Answered(r) \/ StorageFailed(r)
        PROVE  RequestsTyped' /\ OneIdEach' /\ storageAsks' \in 0..MaxStorageAsks
    <2>1. storageRequests' \subseteq storageRequests /\ storageAsks' = storageAsks
      BY <1>9 DEF Answered, StorageFailed
    <2> QED BY <1>0, <2>1 DEF RequestsTyped, OneIdEach
  <1> QED
    BY <1>1, <1>2, <1>3, <1>4, <1>5, <1>6, <1>7, <1>8, <1>9 DEF StorageNext, Quiet

-----------------------------------------------------------------------------
(* Types.                                                                   *)

TextsTyped ==
  /\ stored \in FieldTexts /\ knownDefault \in FieldTexts
  /\ places \subseteq Locations /\ options \subseteq Locations
  /\ storageDraft \in FieldTexts \cup {NoDraft}
  /\ openedWithValue \in FieldTexts
  /\ highlight \in FieldTexts \cup {NoLocation}
  /\ toDelete \in Locations \cup {NoLocation}
  /\ QuestionTyped

FieldFlags ==
  {listOpen, inField, askList} \subseteq BOOLEAN /\ storageAmiss \subseteq {"draft", "settings"}

LEMMA ListedTyped ==
  ASSUME TextsTyped
  PROVE  Listed \subseteq Locations /\ Value \in FieldTexts
  BY DEF TextsTyped, Listed, Value

LEMMA TextsStep ==
  ASSUME TextsTyped, RequestsTyped, OneIdEach, StorageNext
  PROVE  TextsTyped'
  <1>0. /\ Value \in FieldTexts /\ Listed \subseteq Locations /\ Locations \subseteq FieldTexts
        /\ NoText \in FieldTexts /\ QuestionTyped
    BY ListedTyped, StorageTexts DEF TextsTyped
  <1>1. UNCHANGED <<askSettings>> => QuestionTyped'  BY <1>0 DEF QuestionTyped
  <1>2. CASE Focus \/ ArrowDownOpens \/ StorageEscape \/ StartNewEntry \/ CancelDelete
    BY <1>0, <1>1, <1>2
    DEF Focus, ArrowDownOpens, StorageEscape, StartNewEntry, CancelDelete, serverVars, readVars, TextsTyped
  <1>3. ASSUME NEW t \in FieldTexts, Type(t)  PROVE TextsTyped'
    BY <1>0, <1>1, <1>3 DEF Type, serverVars, readVars, TextsTyped
  <1>4. ASSUME NEW n \in Locations, Highlight(n)  PROVE TextsTyped'
    BY <1>0, <1>1, <1>4 DEF Highlight, serverVars, readVars, TextsTyped
  <1>5. CASE EnterPicks
    BY <1>0, <1>1, <1>5 DEF EnterPicks, CommitName, serverVars, readVars, TextsTyped
  <1>6. CASE EnterAdds \/ LeaveField \/ ClickChevron \/ ConfirmDelete
    BY <1>0, <1>1, <1>6
    DEF EnterAdds, LeaveField, ClickChevron, ConfirmDelete, serverVars, readVars, TextsTyped
  <1>7. ASSUME NEW n \in Locations, ClickOption(n)  PROVE TextsTyped'
    <2>1. CommitName(n) /\ UNCHANGED <<serverVars, readVars, openedWithValue, toDelete>>
      BY <1>7 DEF ClickOption
    <2> QED BY <1>0, <1>1, <2>1 DEF CommitName, serverVars, readVars, TextsTyped
  <1>8. ASSUME NEW n \in Locations, ClickTrash(n)  PROVE TextsTyped'
    BY <1>0, <1>1, <1>8 DEF ClickTrash, serverVars, readVars, TextsTyped
  <1>9. ASSUME NEW r \in storageRequests, Apply(r)  PROVE TextsTyped'
    <2>1. /\ stored \in FieldTexts => stored' \in FieldTexts
          /\ places \subseteq Locations => places' \subseteq Locations
      BY <1>9, AppliedTyped
    <2> QED BY <1>1, <1>9, <2>1 DEF Apply, fieldVars, readVars, TextsTyped
  <1>10. ASSUME NEW r \in storageRequests, CloseAnswered(r)
         PROVE  openedWithValue' \in FieldTexts /\ toDelete' \in Locations \cup {NoLocation}
    BY <1>0, <1>10 DEF CloseAnswered, TextsTyped
  <1>11. ASSUME NEW r \in storageRequests, Answered(r)  PROVE TextsTyped'
    <2>1. QuestionTyped'  BY <1>11 DEF Answered, QuestionTyped
    <2> QED BY <1>10, <1>11, <2>1 DEF Answered, serverVars, TextsTyped
  <1>12. ASSUME NEW r \in storageRequests, StorageFailed(r)  PROVE TextsTyped'
    BY <1>1, <1>10, <1>12 DEF StorageFailed, serverVars, readVars, TextsTyped
  <1>13. CASE ReadSettings
    <2>1. QuestionTyped'  BY <1>13 DEF ReadSettings, QuestionTyped, TextsTyped
    <2> QED BY <1>13, <2>1 DEF ReadSettings, serverVars, fieldVars, TextsTyped
  <1>14. CASE SettingsAnswered
    <2>1. QuestionTyped'  BY <1>14 DEF SettingsAnswered, QuestionTyped
    <2>2. askSettings.name \in FieldTexts
      BY <1>0, <1>14 DEF SettingsAnswered, QuestionTyped, NotAsked, Asked
    <2> QED BY <1>14, <2>1, <2>2 DEF SettingsAnswered, serverVars, TextsTyped
  <1>15. CASE ListAnswered
    BY <1>1, <1>15 DEF ListAnswered, serverVars, TextsTyped
  <1>16. CASE SettingsUnanswered \/ ListUnanswered
    <2>1. QuestionTyped'
      BY <1>0, <1>16 DEF SettingsUnanswered, ListUnanswered, QuestionTyped
    <2> QED
      BY <1>16, <2>1 DEF SettingsUnanswered, ListUnanswered, serverVars, fieldVars, TextsTyped
  <1> QED
    BY <1>2, <1>3, <1>4, <1>5, <1>6, <1>7, <1>8, <1>9, <1>11, <1>12, <1>13, <1>14, <1>15, <1>16
    DEF StorageNext

LEMMA FlagsKept ==
  ASSUME FieldFlags, StorageNext
  PROVE  FieldFlags'
  <1>0. /\ listOpen \in BOOLEAN /\ inField \in BOOLEAN /\ askList \in BOOLEAN
        /\ storageAmiss \subseteq {"draft", "settings"}
    BY DEF FieldFlags
  <1>1. listOpen' \in BOOLEAN
    <2>1. (~ listOpen) \in BOOLEAN  OBVIOUS
    <2> QED
      BY <1>0, <2>1
      DEF StorageNext, Focus, LeaveField, ArrowDownOpens, EnterPicks, EnterAdds, StorageEscape, Type,
          Highlight, ClickOption, ClickTrash, StartNewEntry, ClickChevron, CancelDelete, ConfirmDelete,
          Apply, Answered, StorageFailed, ReadSettings, SettingsAnswered, ListAnswered,
          SettingsUnanswered, ListUnanswered, CommitName, CloseAnswered, fieldVars
  <1>2. inField' \in BOOLEAN
    <2>1. (~ listOpen) \in BOOLEAN  OBVIOUS
    <2> QED
      BY <1>0, <2>1
      DEF StorageNext, Focus, LeaveField, ArrowDownOpens, EnterPicks, EnterAdds, StorageEscape, Type,
          Highlight, ClickOption, ClickTrash, StartNewEntry, ClickChevron, CancelDelete, ConfirmDelete,
          Apply, Answered, StorageFailed, ReadSettings, SettingsAnswered, ListAnswered,
          SettingsUnanswered, ListUnanswered, BlurField, CloseAnswered, fieldVars
  <1>3. askList' \in BOOLEAN
    BY <1>0
    DEF StorageNext, Focus, LeaveField, ArrowDownOpens, EnterPicks, EnterAdds, StorageEscape, Type,
        Highlight, ClickOption, ClickTrash, StartNewEntry, ClickChevron, CancelDelete, ConfirmDelete,
        Apply, Answered, StorageFailed, ReadSettings, SettingsAnswered, ListAnswered,
        SettingsUnanswered, ListUnanswered, readVars
  <1>4. storageAmiss' \subseteq {"draft", "settings"}
    BY <1>0
    DEF StorageNext, Focus, LeaveField, ArrowDownOpens, EnterPicks, EnterAdds, StorageEscape, Type,
        Highlight, ClickOption, ClickTrash, StartNewEntry, ClickChevron, CancelDelete, ConfirmDelete,
        Apply, Answered, StorageFailed, ReadSettings, SettingsAnswered, ListAnswered,
        SettingsUnanswered, ListUnanswered
  <1> QED BY <1>1, <1>2, <1>3, <1>4, Zenon DEF FieldFlags

LEMMA StorageTypeStep ==
  ASSUME StorageTypeOK, RequestsTyped, OneIdEach, QuestionTyped, StorageNext
  PROVE  StorageTypeOK' /\ RequestsTyped' /\ OneIdEach' /\ QuestionTyped'
  <1>1. TextsTyped /\ FieldFlags  BY Zenon DEF StorageTypeOK, TextsTyped, FieldFlags
  <1>2. TextsTyped' /\ FieldFlags'  BY <1>1, TextsStep, FlagsKept
  <1>3. RequestsTyped' /\ OneIdEach' /\ storageAsks' \in 0..MaxStorageAsks  BY RequestsStep
  <1>4. QuestionTyped' => askSettings'.stage \in {"idle", "asked", "read"}
    BY DEF QuestionTyped, NotAsked, Asked
  <1>5. StorageTypeOK'
    BY <1>2, <1>3, <1>4, Zenon DEF StorageTypeOK, TextsTyped, FieldFlags
  <1> QED BY <1>2, <1>3, <1>5 DEF TextsTyped

-----------------------------------------------------------------------------
(* What the field shows.                                                    *)

LEMMA FieldIdle ==
  ASSUME FieldKept, SentDefaults' = SentDefaults, DoneRequests' = DoneRequests,
         inField' \/ UNCHANGED <<inField, storageDraft>>,
         UNCHANGED <<stored, knownDefault, askSettings, storageAmiss>>
  PROVE  FieldKept'
  <1>1. NothingDeleted => NothingDeleted'  BY DEF NothingDeleted
  <1>2. DefaultAsked => DefaultAsked'  BY DEF DefaultAsked
  <1>3. DraftIsSaved => DraftIsSaved'  BY DEF DraftIsSaved, EndsAs
  <1> QED BY <1>1, <1>2, <1>3 DEF FieldKept

LEMMA FieldSaves ==
  ASSUME FieldKept, DoneRequests' = DoneRequests, DraftIsSaved => DraftIsSaved',
         UNCHANGED <<stored, knownDefault, askSettings, storageAmiss>>
  PROVE  FieldKept'
  <1>1. NothingDeleted => NothingDeleted'  BY DEF NothingDeleted
  <1>2. DefaultAsked => DefaultAsked'  BY DEF DefaultAsked
  <1> QED BY <1>1, <1>2 DEF FieldKept

\* Applied in the order of asking, and no deletion, a request leaves the draft what is
\* read or saved last.
LEMMA DraftApplied ==
  ASSUME NothingDeleted, DraftIsSaved, RequestsTyped, OneIdEach,
         NEW r \in storageRequests, Apply(r), r.op # "delete", ~ Overtaken(r)
  PROVE  NothingDeleted' /\ DraftIsSaved'
  <1>1. PICK d : /\ d.id = r.id /\ d.op = r.op /\ d.stage = "done"
                 /\ storageRequests' = (storageRequests \ {r}) \cup {d}
    BY AppliedTyped
  <1>2. /\ r.stage = "sent"
        /\ \A s \in storageRequests : s.stage = "sent" => ~ (s.id < r.id)
        /\ UNCHANGED <<knownDefault, askSettings, storageDraft, inField>>
    BY DEF Apply, Overtaken, readVars, fieldVars
  <1>3. \A s \in storageRequests : s \in RequestRecord /\ s.id \in Nat /\ s.op \in {"default", "delete"}
    BY DEF RequestsTyped, RequestRecord
  <1>4. r.op = "default" /\ stored' = r.name  BY <1>2, <1>3 DEF Apply
  <1>5. DoneRequests' = DoneRequests \cup {d}  BY <1>1, <1>2 DEF DoneRequests
  <1>6. SentDefaults' = SentDefaults \ {r} /\ r \in SentDefaults
    BY <1>1, <1>2, <1>4 DEF SentDefaults
  <1>7. NothingDeleted'  BY <1>1, <1>4, <1>5 DEF NothingDeleted
  <1>8. ASSUME NEW text, EndsAs(text)  PROVE EndsAs(text)'
    <2>1. PICK m \in SentDefaults : m.name = text /\ \A q \in SentDefaults : q.id <= m.id
      BY <1>6, <1>8 DEF EndsAs
    <2>2. CASE m = r
      <3>1. \A q \in SentDefaults : q.id = r.id
        BY <1>2, <1>3, <2>1, <2>2 DEF SentDefaults
      <3>2. SentDefaults' = {}  BY <1>6, <3>1 DEF OneIdEach, SentDefaults
      <3> QED BY <1>4, <2>1, <2>2, <3>2 DEF EndsAs
    <2>3. CASE m # r
      <3>1. m \in SentDefaults' /\ \A q \in SentDefaults' : q.id <= m.id  BY <1>6, <2>1, <2>3
      <3> QED BY <2>1, <3>1 DEF EndsAs
    <2> QED BY <2>2, <2>3
  <1>9. DraftIsSaved'
    <2>1. EndsAs(storageDraft) => EndsAs(storageDraft)'
      <3>1. PICK text : text = storageDraft  OBVIOUS
      <3>2. EndsAs(text) => EndsAs(text)'  BY <1>8
      <3> QED BY <1>2, <3>1, <3>2 DEF EndsAs
    <2> QED BY <1>2, <2>1 DEF DraftIsSaved
  <1> QED BY <1>7, <1>9

LEMMA FieldApplied ==
  ASSUME FieldKept, RequestsTyped, OneIdEach, NEW r \in storageRequests, Apply(r)
  PROVE  FieldKept'
  <1>1. ASSUME "draft" \notin storageAmiss'  PROVE NothingDeleted' /\ DraftIsSaved'
    <2>1. "draft" \notin storageAmiss /\ r.op # "delete" /\ ~ Overtaken(r)
      BY <1>1 DEF Apply
    <2> QED BY <2>1, DraftApplied DEF FieldKept
  <1>2. DefaultAsked'
    <2>1. PICK d : /\ d.stage = "done"
                   /\ storageRequests' = (storageRequests \ {r}) \cup {d}
      BY AppliedTyped
    <2> QED BY <2>1 DEF DefaultAsked, DoneRequests
  <1> QED BY <1>1, <1>2 DEF FieldKept

\* A request that was applied goes; nothing was deleted, so no dialog is answered.
LEMMA DraftStays ==
  ASSUME NothingDeleted, DraftIsSaved, NEW r \in storageRequests, r.stage = "done",
         storageRequests' = storageRequests \ {r}, CloseAnswered(r),
         UNCHANGED <<stored, knownDefault, storageDraft>>
  PROVE  NothingDeleted' /\ DraftIsSaved'
  <1>1. r.op = "default"  BY DEF NothingDeleted, DoneRequests
  <1>2. inField' = inField  BY <1>1 DEF CloseAnswered
  <1>3. SentDefaults' = SentDefaults  BY DEF SentDefaults
  <1>4. NothingDeleted'  BY DEF NothingDeleted, DoneRequests
  <1>5. DraftIsSaved'  BY <1>2, <1>3 DEF DraftIsSaved, EndsAs
  <1> QED BY <1>4, <1>5

LEMMA FieldAnswered ==
  ASSUME FieldKept, NEW r \in storageRequests, Answered(r)
  PROVE  FieldKept'
  <1>1. /\ r.stage = "done" /\ storageRequests' = storageRequests \ {r} /\ askSettings' = Asked
        /\ CloseAnswered(r) /\ storageAmiss' = storageAmiss \ {"settings"}
        /\ UNCHANGED <<stored, knownDefault, storageDraft>>
    BY DEF Answered, serverVars
  <1>2. "draft" \notin storageAmiss' => NothingDeleted' /\ DraftIsSaved'
    BY <1>1, DraftStays DEF FieldKept
  <1>3. DefaultAsked'  BY <1>1 DEF DefaultAsked, Asked, NotAsked
  <1> QED BY <1>2, <1>3 DEF FieldKept

LEMMA FieldFailed ==
  ASSUME FieldKept, RequestsTyped, NEW r \in storageRequests, StorageFailed(r)
  PROVE  FieldKept'
  <1>1. /\ storageRequests' = storageRequests \ {r} /\ CloseAnswered(r)
        /\ storageAmiss' = storageAmiss \cup {IF r.stage = "sent" THEN "draft" ELSE "settings"}
        /\ UNCHANGED <<stored, knownDefault, storageDraft, askSettings>>
    BY DEF StorageFailed, serverVars, readVars
  <1>2. r.stage \in {"sent", "done"}  BY DEF RequestsTyped, RequestRecord
  <1>3. CASE r.stage = "sent"
    <2>1. DoneRequests' = DoneRequests  BY <1>1, <1>3 DEF DoneRequests
    <2>2. DefaultAsked => DefaultAsked'  BY <1>1, <2>1 DEF DefaultAsked
    <2> QED BY <1>1, <1>3, <2>2 DEF FieldKept
  <1>4. CASE r.stage = "done"
    <2>1. "draft" \notin storageAmiss' => NothingDeleted' /\ DraftIsSaved'
      BY <1>1, <1>4, DraftStays DEF FieldKept
    <2> QED BY <1>1, <1>4, <2>1 DEF FieldKept
  <1> QED BY <1>2, <1>3, <1>4

LEMMA FieldStep ==
  ASSUME StorageTypeOK, RequestsTyped, OneIdEach, FieldKept, StorageNext
  PROVE  FieldKept'
  <1>1. UNCHANGED <<storageRequests>> => SentDefaults' = SentDefaults /\ DoneRequests' = DoneRequests
    BY DEF SentDefaults, DoneRequests
  <1>2. CASE Focus \/ ArrowDownOpens \/ StorageEscape \/ StartNewEntry \/ CancelDelete \/ ListAnswered
    BY <1>1, <1>2, FieldIdle
    DEF Focus, ArrowDownOpens, StorageEscape, StartNewEntry, CancelDelete, ListAnswered,
        serverVars, readVars, sentVars
  <1>3. ASSUME NEW t \in FieldTexts, Type(t)  PROVE FieldKept'
    BY <1>1, <1>3, FieldIdle DEF Type, serverVars, readVars, sentVars
  <1>4. ASSUME NEW n \in Locations, Highlight(n)  PROVE FieldKept'
    BY <1>1, <1>4, FieldIdle DEF Highlight, serverVars, readVars, sentVars
  <1>5. CASE EnterPicks \/ EnterAdds
    <2>1. UNCHANGED <<stored, knownDefault, askSettings, storageAmiss>>
      BY <1>5 DEF EnterPicks, EnterAdds, serverVars, readVars
    <2>2. DraftIsSaved'
      <3>1. inField /\ inField' = inField  BY <1>5, Zenon DEF EnterPicks, EnterAdds
      <3> QED BY <3>1 DEF DraftIsSaved
    <2>3. DoneRequests' = DoneRequests  BY <1>5, EnterSaves
    <2> QED BY <2>1, <2>2, <2>3, FieldSaves
  <1>6. CASE LeaveField
    <2>1. BlurField /\ UNCHANGED <<stored, knownDefault, askSettings, storageDraft, storageAmiss>>
      BY <1>6 DEF LeaveField, serverVars, readVars
    <2> QED BY <2>1, FieldBlurred, FieldSaves
  <1>7. ASSUME NEW n \in Locations, ClickTrash(n)  PROVE FieldKept'
    <2>1. BlurField /\ UNCHANGED <<stored, knownDefault, askSettings, storageDraft, storageAmiss>>
      BY <1>7 DEF ClickTrash, serverVars, readVars
    <2> QED BY <2>1, FieldBlurred, FieldSaves
  <1>8. CASE ClickChevron
    <2>1. UNCHANGED <<stored, knownDefault, askSettings, storageAmiss>>
      BY <1>8 DEF ClickChevron, serverVars, readVars
    <2> QED BY <1>8, <2>1, ChevronSaves, FieldSaves DEF FieldKept
  <1>9. ASSUME NEW n \in Locations, ClickOption(n)  PROVE FieldKept'
    <2>1. storageDraft' = n /\ UNCHANGED <<stored, knownDefault, askSettings, storageAmiss>>
      BY <1>9 DEF ClickOption, CommitName, serverVars, readVars
    <2>2. DoneRequests' = DoneRequests /\ (n = knownDefault \/ EndsAs(n)')  BY <1>9, OptionSaved
    <2>3. storageDraft' = knownDefault' \/ EndsAs(storageDraft)'  BY <2>1, <2>2 DEF EndsAs
    <2>4. DraftIsSaved'  BY <2>3 DEF DraftIsSaved
    <2> QED BY <2>1, <2>2, <2>4, FieldSaves
  <1>10. CASE ConfirmDelete
    <2>1. UNCHANGED <<stored, knownDefault, askSettings, inField, storageDraft, storageAmiss>>
      BY <1>10 DEF ConfirmDelete, serverVars, readVars
    <2> QED BY <1>10, <2>1, ConfirmAsks, FieldIdle
  <1>11. ASSUME NEW r \in storageRequests, Apply(r)  PROVE FieldKept'
    BY <1>11, FieldApplied
  <1>12. ASSUME NEW r \in storageRequests, Answered(r)  PROVE FieldKept'
    BY <1>12, FieldAnswered
  <1>13. ASSUME NEW r \in storageRequests, StorageFailed(r)  PROVE FieldKept'
    BY <1>13, FieldFailed
  <1>14. CASE ReadSettings
    <2>1. /\ askSettings' = [stage |-> "read", name |-> stored] /\ storageRequests' = storageRequests
          /\ UNCHANGED <<stored, knownDefault, inField, storageDraft, storageAmiss>>
      BY <1>14 DEF ReadSettings, serverVars, fieldVars, sentVars
    <2>2. NothingDeleted /\ DraftIsSaved => NothingDeleted' /\ DraftIsSaved'
      BY <1>1, <2>1 DEF NothingDeleted, DraftIsSaved, EndsAs
    <2>3. DefaultAsked'
      <3>1. askSettings'.stage = "read" /\ askSettings'.name = stored' /\ NotAsked.stage = "idle"
        BY <2>1 DEF NotAsked
      <3> QED BY <3>1 DEF DefaultAsked
    <2> QED BY <2>1, <2>2, <2>3 DEF FieldKept
  <1>15. CASE SettingsAnswered
    <2>1. /\ askSettings.stage = "read" /\ knownDefault' = askSettings.name /\ askSettings' = NotAsked
          /\ storageDraft' = IF knownDefault' # knownDefault THEN NoDraft ELSE storageDraft
          /\ UNCHANGED <<stored, inField, storageRequests, storageAmiss>>
      BY <1>15 DEF SettingsAnswered, serverVars, sentVars
    <2>2. NothingDeleted => NothingDeleted'  BY <1>1, <2>1 DEF NothingDeleted
    <2>3. DefaultAsked => DefaultAsked'
      <3>1. NotAsked.stage = "idle"  BY DEF NotAsked
      <3> QED BY <1>1, <2>1, <3>1 DEF DefaultAsked
    <2>4. DraftIsSaved => DraftIsSaved'  BY <1>1, <2>1 DEF DraftIsSaved, EndsAs
    <2> QED BY <2>1, <2>2, <2>3, <2>4 DEF FieldKept
  <1>16. CASE SettingsUnanswered
    <2>1. /\ storageAmiss' = storageAmiss \cup {"settings"}
          /\ UNCHANGED <<stored, inField, storageRequests, storageDraft, knownDefault>>
      BY <1>16 DEF SettingsUnanswered, serverVars, sentVars, fieldVars
    <2>2. NothingDeleted /\ DraftIsSaved => NothingDeleted' /\ DraftIsSaved'
      BY <1>1, <2>1 DEF NothingDeleted, DraftIsSaved, EndsAs
    <2> QED BY <2>1, <2>2 DEF FieldKept
  <1>17. CASE ListUnanswered
    BY <1>1, <1>17, FieldIdle DEF ListUnanswered, serverVars, sentVars, fieldVars
  <1> QED
    BY <1>2, <1>3, <1>4, <1>5, <1>6, <1>7, <1>8, <1>9, <1>10, <1>11, <1>12, <1>13, <1>14, <1>15,
       <1>16, <1>17
    DEF StorageNext

\* The field has its type; a text left in it is the one read or the one saved last,
\* unless a save failed or overtook another or a location was deleted; and what was
\* saved is asked for again, unless an answer was lost or a question failed since.
THEOREM StorageInvariant == StorageSpec => []StorageInv
  <1>1. ASSUME StorageInv, [StorageNext]_storageVars  PROVE StorageInv'
    <2>1. CASE StorageNext
      BY <1>1, <2>1, StorageTypeStep, FieldStep DEF StorageInv
    <2>2. CASE UNCHANGED storageVars
      <3>1. UNCHANGED <<stored, places, knownDefault, options, storageDraft, listOpen, highlight,
                        openedWithValue, inField, toDelete, storageRequests, storageAsks,
                        askSettings, askList, storageAmiss>>
        BY <2>2 DEF storageVars, serverVars, readVars, fieldVars, sentVars
      <3>2. StorageTypeOK'  BY <1>1, <3>1, Zenon DEF StorageInv, StorageTypeOK
      <3>3. RequestsTyped' /\ OneIdEach' /\ QuestionTyped'
        BY <1>1, <3>1 DEF StorageInv, RequestsTyped, OneIdEach, QuestionTyped
      <3>4. FieldKept => FieldKept'
        BY <3>1, FieldIdle DEF SentDefaults, DoneRequests
      <3> QED BY <1>1, <3>2, <3>3, <3>4 DEF StorageInv
    <2> QED BY <1>1, <2>1, <2>2
  <1> QED BY <1>1, StorageBegins, PTL DEF StorageSpec

\* Once every request and question has come to an end and the field was left, the page
\* knows the default location the server keeps, and shows it.  Left out by name: what it
\* knows, after an answer was lost or a question failed, until it asks again; and what
\* it shows, also after a request that failed, a save that overtook an earlier one or
\* the deletion of a location (SettingsPage.tsx:144-198).
THEOREM FieldComesToRest == StorageSpec => []FieldSettles
  <1>1. ASSUME StorageInv, Settled, "settings" \notin storageAmiss  PROVE knownDefault = stored
    <2>1. DoneRequests = {}  BY <1>1 DEF Settled, DoneRequests
    <2> QED BY <1>1, <2>1 DEF StorageInv, FieldKept, DefaultAsked, Settled
  <1>2. ASSUME StorageInv, Settled, storageAmiss = {}  PROVE Value = stored
    <2>1. SentDefaults = {} /\ knownDefault = stored
      BY <1>1, <1>2 DEF Settled, SentDefaults
    <2>2. storageDraft # NoDraft => storageDraft = stored
      BY <1>2, <2>1 DEF StorageInv, FieldKept, DraftIsSaved, EndsAs, Settled
    <2> QED BY <2>1, <2>2 DEF Value
  <1>3. StorageInv => FieldSettles  BY <1>1, <1>2 DEF FieldSettles
  <1> QED BY <1>3, StorageInvariant, PTL

-----------------------------------------------------------------------------
(*                               THE PERIODS                                *)
-----------------------------------------------------------------------------

USE PeriodAssumption

-----------------------------------------------------------------------------
(* The bounds of the years.                                                 *)

\* Some member of a finite set has the largest value: a smallest subset
\* without one would be what is left of it with one member more.
LEMMA Largest ==
  ASSUME NEW C, IsFiniteSet(C), NEW f \in [C -> Int], NEW K \in SUBSET C, K # {}
  PROVE  \E c \in K : \A d \in K : f[d] <= f[c]
  <1> DEFINE Bad == {X \in SUBSET C : X # {} /\ ~ \E c \in X : \A d \in X : f[d] <= f[c]}
  <1>1. SUFFICES ASSUME Bad # {} PROVE FALSE
    OBVIOUS
  <1>2. IsWellFoundedOn(StrictSubsetOrdering(C), SUBSET C)
    <2>1. FiniteSubsetsOf(C) = SUBSET C  BY FS_FiniteSubsetsOfFinite
    <2>2. IsWellFoundedOn(StrictSubsetOrdering(C), FiniteSubsetsOf(C))
      BY FS_StrictSubsetOrderingWellFounded
    <2> QED BY <2>1, <2>2
  <1>3. PICK X \in Bad : \A Y \in Bad : ~ (<<Y, X>> \in StrictSubsetOrdering(C))
    <2>1. Bad \subseteq SUBSET C  OBVIOUS
    <2> HIDE DEF Bad
    <2> QED BY <1>1, <1>2, <2>1, WFMin
  <1>4. PICK c \in X : TRUE  OBVIOUS
  <1> DEFINE Y == X \ {c}
  <1>5. Y \in SUBSET C /\ <<Y, X>> \in StrictSubsetOrdering(C)
    BY <1>4 DEF StrictSubsetOrdering
  <1>6. Y \notin Bad  BY <1>3, <1>5
  <1>7. CASE Y = {}
    <2>1. X = {c} /\ f[c] <= f[c]  BY <1>4, <1>7
    <2> QED BY <2>1
  <1>8. CASE Y # {}
    <2>1. PICK e \in Y : \A d \in Y : f[d] <= f[e]  BY <1>5, <1>6, <1>8
    <2>2. CASE f[c] <= f[e]
      BY <2>1, <2>2
    <2>3. CASE ~(f[c] <= f[e])
      <3>1. f[c] \in Int /\ \A d \in X : f[d] \in Int  BY <1>4
      <3>2. \A d \in X : f[d] <= f[c]  BY <2>1, <2>3, <3>1
      <3> QED BY <1>4, <3>2
    <2> QED BY <2>2, <2>3
  <1> QED BY <1>7, <1>8

\* Whatever is chosen, some country gives the years their bounds.
LEMMA BoundsTyped ==
  ASSUME NEW chosen \in SUBSET PeriodCountries
  PROVE  LET b == Bounds(chosen) IN
         b.min \in Nat /\ b.max \in Nat /\ b.min <= b.max
  <1> DEFINE K == Considered(chosen)
             low == [c \in PeriodCountries |-> - MinYear[c]]
  <1>1. K \in SUBSET PeriodCountries /\ K # {}
    BY DEF Considered, Known, No
  <1>2. \E c \in K : \A d \in K : MaxYear[d] <= MaxYear[c]
    <2>1. MaxYear \in [PeriodCountries -> Int]  OBVIOUS
    <2> HIDE DEF K
    <2> QED BY <1>1, <2>1, Largest
  <1>3. \E c \in K : \A d \in K : MinYear[c] <= MinYear[d]
    <2>1. low \in [PeriodCountries -> Int]  OBVIOUS
    <2> HIDE DEF K
    <2>2. PICK c \in K : \A d \in K : low[d] <= low[c]
      <3> HIDE DEF low
      <3> QED BY <1>1, <2>1, Largest
    <2>3. \A d \in K : MinYear[c] \in Nat /\ MinYear[d] \in Nat /\ - MinYear[d] <= - MinYear[c]
      BY <1>1, <2>2
    <2> QED BY <2>3
  <1> DEFINE min == CHOOSE y \in {MinYear[c] : c \in K} : \A c \in K : y <= MinYear[c]
             max == CHOOSE y \in {MaxYear[c] : c \in K} : \A c \in K : MaxYear[c] <= y
  <1>4. Bounds(chosen) = [min |-> min, max |-> max]
    BY DEF Bounds
  <1> HIDE DEF K
  <1>5. min \in {MinYear[c] : c \in K} /\ \A c \in K : min <= MinYear[c]
    BY <1>3
  <1>6. max \in {MaxYear[c] : c \in K} /\ \A c \in K : MaxYear[c] <= max
    BY <1>2
  <1> HIDE DEF min, max
  <1>7. min \in Nat /\ max \in Nat  BY <1>1, <1>5, <1>6
  <1>8. min <= max
    <2>1. PICK c \in K : TRUE  BY <1>1
    <2>2. min <= MinYear[c] /\ MinYear[c] <= MaxYear[c] /\ MaxYear[c] <= max
      BY <1>1, <1>5, <1>6
    <2>3. MinYear[c] \in Nat /\ MaxYear[c] \in Nat  BY <1>1
    <2> QED BY <1>7, <2>2, <2>3
  <1> QED BY <1>4, <1>7, <1>8

LEMMA ClampTyped ==
  ASSUME NEW chosen \in SUBSET PeriodCountries, NEW p \in Periods
  PROVE  ClampPeriod(p, Bounds(chosen)) \in Periods
  <1>1. \A y \in Nat : ClampYear(y, Bounds(chosen)) \in Nat
    BY BoundsTyped DEF ClampYear, No
  <1> QED BY <1>1 DEF ClampPeriod, Periods

-----------------------------------------------------------------------------
(* The period in the address.                                               *)

LEMMA EmptyTyped ==
  \A m \in Modes : Empty(m) \in Periods
  BY DEF Empty, Periods, No

\* What the address keeps of a period is a period that asks for the same.
LEMMA RoundTrip ==
  ASSUME NEW p \in Periods
  PROVE  /\ Parsed(Serialized(p)) \in Periods
         /\ ApiParams(Parsed(Serialized(p))) = ApiParams(p)
         /\ Parsed(Serialized(p)).mode = p.mode
         /\ p.mode = "dateRange" => /\ Parsed(Serialized(p)).dateFrom = p.dateFrom
                                    /\ Parsed(Serialized(p)).dateTo = p.dateTo
  <1>1. p.mode \in Modes /\ p.year \in Nat /\ p.yearFrom \in Nat /\ p.yearTo \in Nat
        /\ p.dateFrom \in Nat /\ p.dateTo \in Nat
    BY DEF Periods
  <1>2. CASE p.mode = "year"
    <2>1. Serialized(p) =
            [mode |-> "year", year |-> p.year, yearFrom |-> No, yearTo |-> No,
             dateFrom |-> No, dateTo |-> No]
      BY <1>2 DEF Serialized
    <2>2. Parsed(Serialized(p)) = Serialized(p)  BY <2>1 DEF Parsed, Modes
    <2> QED BY <1>1, <1>2, <2>1, <2>2 DEF Periods, ApiParams, No
  <1>3. CASE p.mode = "yearRange"
    <2>1. Serialized(p) =
            [mode |-> "none", year |-> No, yearFrom |-> p.yearFrom, yearTo |-> p.yearTo,
             dateFrom |-> No, dateTo |-> No]
      BY <1>3 DEF Serialized
    <2>2. Parsed(Serialized(p)) =
            [mode |-> "yearRange", year |-> No, yearFrom |-> p.yearFrom, yearTo |-> p.yearTo,
             dateFrom |-> No, dateTo |-> No]
      <3> DEFINE q == Serialized(p)
      <3>1. q.mode = "none" /\ q.yearFrom = p.yearFrom /\ q.yearTo = p.yearTo  BY <2>1
      <3> HIDE DEF q
      <3>2. Parsed(q) = [Empty("yearRange") EXCEPT !.yearFrom = p.yearFrom, !.yearTo = p.yearTo]
        BY <3>1 DEF Parsed, Modes
      <3> QED BY <3>2 DEF Empty, q
    <2> QED BY <1>1, <1>3, <2>2 DEF Periods, ApiParams, No
  <1>4. CASE p.mode = "dateRange"
    <2>1. Serialized(p) =
            [mode |-> "dateRange", year |-> No, yearFrom |-> No, yearTo |-> No,
             dateFrom |-> p.dateFrom, dateTo |-> p.dateTo]
      BY <1>4 DEF Serialized
    <2>2. Parsed(Serialized(p)) = Serialized(p)  BY <2>1 DEF Parsed, Modes
    <2> QED BY <1>1, <1>4, <2>1, <2>2 DEF Periods, ApiParams, No
  <1> QED BY <1>1, <1>2, <1>3, <1>4 DEF Modes

Filters == [countries : SUBSET PeriodCountries, period : Periods]

\* A change of the filters is stored as it is or as the address keeps it.
LEMMA Stored ==
  ASSUME PeriodTypeOK, NEW f \in Filters, Store(f), UNCHANGED drawer
  PROVE  /\ url' \in Filters /\ draft' \in Filters
         /\ Shown'.countries = f.countries
         /\ Shown'.period = f.period \/ Shown'.period = Parsed(Serialized(f.period))
  <1>1. [f EXCEPT !.period = Parsed(Serialized(@))] \in Filters
    BY RoundTrip DEF Filters
  <1>2. CASE drawer
    BY <1>2 DEF Store, PeriodTypeOK, Filters, Shown
  <1>3. CASE ~drawer
    BY <1>1, <1>3 DEF Store, PeriodTypeOK, Filters, Shown
  <1> QED BY <1>2, <1>3

LEMMA ShownTyped == PeriodTypeOK => Shown \in Filters
  BY DEF PeriodTypeOK, Shown, Filters

LEMMA FieldTyped ==
  ASSUME NEW p, NEW f \in {"dateFrom", "dateTo"}
  PROVE  FieldAfter(p, f) \in {"dateFrom", "dateTo"}
  BY DEF FieldAfter

\* A change within the panel keeps the types.
LEMMA ChangeTyped ==
  ASSUME PeriodTypeOK, NEW p \in Periods, NEW f \in {"dateFrom", "dateTo"}, Change(p, f)
  PROVE  PeriodTypeOK'
  <1>1. [Shown EXCEPT !.period = p] \in Filters  BY ShownTyped DEF Filters
  <1>2. url' \in Filters /\ draft' \in Filters  BY <1>1, Stored DEF Change
  <1>3. activeField' \in {"dateFrom", "dateTo"}  BY FieldTyped DEF Change
  <1> QED BY <1>2, <1>3 DEF Change, PeriodTypeOK, Filters

\* So does a change around it.
LEMMA AroundTyped ==
  ASSUME PeriodTypeOK, NEW g \in Filters, Store(g), panel' = FALSE,
         activeField' \in {"dateFrom", "dateTo"}, UNCHANGED <<phone, drawer>>
  PROVE  PeriodTypeOK'
  <1>1. url' \in Filters /\ draft' \in Filters  BY Stored
  <1> QED BY <1>1 DEF PeriodTypeOK, Filters

-----------------------------------------------------------------------------
(* Theorems.                                                                *)

\* What a click in the calendar makes of the period shown.
LEMMA DayClicked ==
  ASSUME PeriodTypeOK, NEW d \in Dates, DayClick(d)
  PROVE  \E p \in Periods, f \in {"dateFrom", "dateTo"} :
            Change(p, f) /\ InOrder(p) /\ p.mode = "dateRange"
  <1> DEFINE p == Shown.period
  <1>1. p \in Periods /\ p.mode = "dateRange" /\ d \in Nat
    BY ShownTyped DEF DayClick, Filters
  <1>2. p.dateFrom \in Nat /\ p.dateTo \in Nat  BY <1>1 DEF Periods
  <1>3. /\ [p EXCEPT !.dateFrom = d, !.dateTo = p.dateFrom] \in Periods
        /\ [p EXCEPT !.dateTo = d] \in Periods
        /\ [p EXCEPT !.dateFrom = d, !.dateTo = No] \in Periods
        /\ [p EXCEPT !.dateFrom = d] \in Periods
    BY <1>1, <1>2 DEF Periods, No
  <1>4. CASE activeField = "dateTo" /\ p.dateFrom # No /\ d < p.dateFrom
    <2> DEFINE n == [p EXCEPT !.dateFrom = d, !.dateTo = p.dateFrom]
    <2>1. Change(n, "dateTo")  BY <1>4 DEF DayClick
    <2>2. InOrder(n) /\ n.mode = "dateRange"  BY <1>1, <1>2, <1>4 DEF InOrder, Periods
    <2> HIDE DEF n
    <2> QED BY <1>3, <2>1, <2>2 DEF n
  <1>5. CASE activeField = "dateTo" /\ ~(p.dateFrom # No /\ d < p.dateFrom)
    <2> DEFINE n == [p EXCEPT !.dateTo = d]
    <2>1. Change(n, "dateTo")  BY <1>5 DEF DayClick
    <2>2. InOrder(n) /\ n.mode = "dateRange"  BY <1>1, <1>2, <1>5 DEF InOrder, Periods
    <2> HIDE DEF n
    <2> QED BY <1>3, <2>1, <2>2 DEF n
  <1>6. CASE activeField # "dateTo" /\ p.dateTo # No /\ d > p.dateTo
    <2> DEFINE n == [p EXCEPT !.dateFrom = d, !.dateTo = No]
    <2>1. Change(n, "dateTo")  BY <1>6 DEF DayClick
    <2>2. InOrder(n) /\ n.mode = "dateRange"  BY <1>1, <1>2 DEF InOrder, Periods, No
    <2> HIDE DEF n
    <2> QED BY <1>3, <2>1, <2>2 DEF n
  <1>7. CASE activeField # "dateTo" /\ ~(p.dateTo # No /\ d > p.dateTo)
    <2> DEFINE n == [p EXCEPT !.dateFrom = d]
               f == IF p.dateTo = No THEN "dateTo" ELSE "dateFrom"
    <2>1. Change(n, f)  BY <1>7 DEF DayClick
    <2>2. InOrder(n) /\ n.mode = "dateRange"  BY <1>1, <1>2, <1>7 DEF InOrder, Periods
    <2>3. f \in {"dateFrom", "dateTo"}  OBVIOUS
    <2> HIDE DEF n, f
    <2> QED BY <1>3, <2>1, <2>2, <2>3 DEF n
  <1> QED BY <1>4, <1>5, <1>6, <1>7

LEMMA ToggledTyped ==
  ASSUME PeriodTypeOK, NEW c \in PeriodCountries
  PROVE  LET chosen == IF c \in Shown.countries THEN Shown.countries \ {c}
                       ELSE Shown.countries \cup {c}
         IN  /\ chosen \in SUBSET PeriodCountries
             /\ ClampPeriod(Shown.period, Bounds(chosen)) \in Periods
             /\ [countries |-> chosen,
                 period |-> ClampPeriod(Shown.period, Bounds(chosen))] \in Filters
  <1> DEFINE chosen == IF c \in Shown.countries THEN Shown.countries \ {c}
                       ELSE Shown.countries \cup {c}
  <1>1. Shown.countries \in SUBSET PeriodCountries /\ Shown.period \in Periods
    BY ShownTyped DEF Filters
  <1>2. chosen \in SUBSET PeriodCountries  BY <1>1
  <1>3. ClampPeriod(Shown.period, Bounds(chosen)) \in Periods
    <2> HIDE DEF chosen
    <2> QED BY <1>1, <1>2, ClampTyped
  <1> HIDE DEF chosen
  <1>4. [countries |-> chosen, period |-> ClampPeriod(Shown.period, Bounds(chosen))]
          \in Filters
    BY <1>2, <1>3 DEF Filters
  <1> QED BY <1>2, <1>3, <1>4 DEF chosen

\* The type of the filter's state, for any countries, years and dates.
THEOREM PeriodTyped == PeriodSpec => []PeriodTypeOK
  <1>1. PeriodInit => PeriodTypeOK
    <2>1. [countries |-> {}, period |-> Empty("yearRange")]
            \in [countries : SUBSET PeriodCountries, period : Periods]
      BY EmptyTyped DEF Modes
    <2> QED BY <2>1 DEF PeriodInit, PeriodTypeOK
  <1>2. PeriodTypeOK /\ [PeriodNext]_periodVars => PeriodTypeOK'
    <2> SUFFICES ASSUME PeriodTypeOK, [PeriodNext]_periodVars PROVE PeriodTypeOK'
      OBVIOUS
    <2>1. Shown \in Filters /\ Shown.period \in Periods
          /\ Shown.countries \in SUBSET PeriodCountries
      BY ShownTyped DEF Filters
    <2>2. activeField \in {"dateFrom", "dateTo"}  BY DEF PeriodTypeOK
    <2>3. CASE ClickPeriod \/ PressOutsidePeriod \/ EscapePeriod
      BY <2>3 DEF ClickPeriod, PressOutsidePeriod, EscapePeriod, PeriodTypeOK
    <2>4. ASSUME NEW m \in Modes, PickMode(m) PROVE PeriodTypeOK'
      <3>1. [Shown.period EXCEPT !.mode = m] \in Periods  BY <2>1 DEF Periods
      <3> QED BY <2>2, <2>4, <3>1, ChangeTyped DEF PickMode
    <2>5. ASSUME NEW f \in {"year", "yearFrom", "yearTo"}, NEW y \in Years \cup {No},
                 TypeYear(f, y)
          PROVE  PeriodTypeOK'
      <3>1. y \in Nat  BY DEF No
      <3>2. [Shown.period EXCEPT ![f] = y] \in Periods  BY <2>1, <3>1 DEF Periods
      <3> QED BY <2>2, <2>5, <3>2, ChangeTyped DEF TypeYear
    <2>6. ASSUME NEW f \in {"dateFrom", "dateTo"}, NEW d \in Dates \cup {No}, TypeDate(f, d)
          PROVE  PeriodTypeOK'
      <3>1. d \in Nat  BY DEF No
      <3>2. [Shown.period EXCEPT ![f] = d] \in Periods  BY <2>1, <3>1 DEF Periods
      <3> QED BY <2>6, <3>2, ChangeTyped DEF TypeDate
    <2>7. ASSUME NEW f \in {"dateFrom", "dateTo"}, FocusDate(f) PROVE PeriodTypeOK'
      BY <2>7 DEF FocusDate, PeriodTypeOK
    <2>8. ASSUME NEW d \in Dates, DayClick(d) PROVE PeriodTypeOK'
      BY <2>8, DayClicked, ChangeTyped
    <2>9. Empty(Shown.period.mode) \in Periods  BY <2>1, EmptyTyped DEF Periods
    <2>10. CASE ClearPeriod
      BY <2>2, <2>9, <2>10, ChangeTyped DEF ClearPeriod
    <2>11. CASE RemovePeriodChip
      <3>1. [Shown EXCEPT !.period = Empty(Shown.period.mode)] \in Filters
        BY <2>1, <2>9 DEF Filters
      <3> QED BY <2>2, <2>11, <3>1, FieldTyped, AroundTyped DEF RemovePeriodChip
    <2>12. CASE ResetFilters
      <3>1. [countries |-> {}, period |-> Empty("yearRange")] \in Filters
        BY EmptyTyped DEF Filters, Modes
      <3> QED BY <2>2, <2>12, <3>1, FieldTyped, AroundTyped DEF ResetFilters
    <2>13. ASSUME NEW c \in PeriodCountries, ToggleCountry(c) PROVE PeriodTypeOK'
      BY <2>2, <2>13, ToggledTyped, FieldTyped, AroundTyped DEF ToggleCountry
    <2>14. ASSUME NEW c \in PeriodCountries, RemoveCountryChip(c) PROVE PeriodTypeOK'
      <3>1. [Shown EXCEPT !.countries = @ \ {c}] \in Filters  BY <2>1 DEF Filters
      <3> QED BY <2>2, <2>14, <3>1, AroundTyped DEF RemoveCountryChip
    <2>15. CASE OpenDrawer \/ CloseDrawer
      BY <2>15 DEF OpenDrawer, CloseDrawer, PeriodTypeOK
    <2>16. CASE ApplyDraft
      <3>1. [draft EXCEPT !.period = Parsed(Serialized(@))] \in Filters
        BY RoundTrip DEF PeriodTypeOK, Filters
      <3> QED BY <2>16, <3>1 DEF ApplyDraft, PeriodTypeOK, Filters
    <2>17. CASE UNCHANGED periodVars
      BY <2>17 DEF periodVars, PeriodTypeOK
    <2> QED BY <2>3, <2>4, <2>5, <2>6, <2>7, <2>8, <2>10, <2>11, <2>12, <2>13, <2>14, <2>15,
               <2>16, <2>17 DEF PeriodNext
  <1> QED BY <1>1, <1>2, PTL DEF PeriodSpec

\* A link, a reload and "Apply" ask for what the fields describe
\* (periodFilter.ts: serializePeriod, parsePeriod, periodToApiParams).
THEOREM LinkAsksTheSame == PeriodSpec => []AsksWhatIsShown
  <1>1. PeriodTypeOK => AsksWhatIsShown
    BY RoundTrip DEF PeriodTypeOK, AsksWhatIsShown
  <1> QED BY <1>1, PeriodTyped, PTL

\* A click in the calendar leaves a range in order (PeriodFilter.tsx,
\* handleDayClick).
THEOREM CalendarInOrder == PeriodSpec => ClicksOrder
  <1>1. PeriodTypeOK /\ [PeriodNext]_periodVars =>
          [(\E d \in Dates : DayClick(d)) => InOrder(Shown'.period)]_periodVars
    <2> SUFFICES ASSUME PeriodTypeOK, NEW d \in Dates, DayClick(d)
                 PROVE  InOrder(Shown'.period)
      OBVIOUS
    <2>1. PICK p \in Periods, f \in {"dateFrom", "dateTo"} :
             Change(p, f) /\ InOrder(p) /\ p.mode = "dateRange"
      BY DayClicked
    <2>2. [Shown EXCEPT !.period = p] \in Filters
          /\ [Shown EXCEPT !.period = p].period = p
      BY ShownTyped DEF Filters
    <2>3. Shown'.period = p \/ Shown'.period = Parsed(Serialized(p))
      BY <2>1, <2>2, Stored DEF Change
    <2> QED BY <2>1, <2>3, RoundTrip DEF InOrder
  <1> QED BY <1>1, PeriodTyped, PTL DEF PeriodSpec, ClicksOrder

\* A change of the country menu asks for no year outside the bounds
\* (CollectionFiltersPanel.tsx, yearRange.ts: clampPeriod).
THEOREM CountryBoundsYears == PeriodSpec => YearsFollowCountry
  <1> DEFINE Follows ==
        (\E c \in PeriodCountries : ToggleCountry(c)) =>
           LET asks == ApiParams(Shown'.period)
               b == Bounds(Shown'.countries)
           IN \A y \in {asks.yearFrom, asks.yearTo} \ {No} : b.min <= y /\ y <= b.max
  <1>1. PeriodTypeOK /\ [PeriodNext]_periodVars => [Follows]_periodVars
    <2> SUFFICES ASSUME PeriodTypeOK, NEW c \in PeriodCountries, ToggleCountry(c)
                 PROVE  LET asks == ApiParams(Shown'.period)
                            b == Bounds(Shown'.countries)
                        IN \A y \in {asks.yearFrom, asks.yearTo} \ {No} :
                              b.min <= y /\ y <= b.max
      OBVIOUS
    <2> DEFINE chosen == IF c \in Shown.countries THEN Shown.countries \ {c}
                         ELSE Shown.countries \cup {c}
               b == Bounds(chosen)
               p == ClampPeriod(Shown.period, b)
               g == [countries |-> chosen, period |-> p]
    <2>1. chosen \in SUBSET PeriodCountries /\ p \in Periods /\ g \in Filters
      BY ToggledTyped
    <2>2. Store(g) /\ UNCHANGED drawer  BY DEF ToggleCountry
    <2>3. b.min \in Nat /\ b.max \in Nat /\ b.min <= b.max
      <3> HIDE DEF chosen
      <3> QED BY <2>1, BoundsTyped
    <2>4. g.countries = chosen /\ g.period = p  OBVIOUS
    <2>5. Shown.period \in Periods  BY ShownTyped DEF Filters
    <2> HIDE DEF chosen, b, g
    <2>6. Shown'.countries = chosen /\ ApiParams(Shown'.period) = ApiParams(p)
      <3> HIDE DEF p
      <3> QED BY <2>1, <2>2, <2>4, Stored, RoundTrip
    <2>7. \A y \in Nat : LET z == ClampYear(y, b) IN
                         z # No => b.min <= z /\ z <= b.max
      BY <2>3 DEF ClampYear
    <2>8. \A y \in {ApiParams(p).yearFrom, ApiParams(p).yearTo} \ {No} :
             b.min <= y /\ y <= b.max
      <3> DEFINE s == Shown.period
      <3>1. s \in Periods  BY <2>5
      <3> HIDE DEF s
      <3>2. p = ClampPeriod(s, b)  BY DEF s
      <3>3. CASE s.mode = "year"
        <4>1. p = [s EXCEPT !.year = ClampYear(s.year, b)]  BY <3>2, <3>3 DEF ClampPeriod
        <4>2. ApiParams(p).yearFrom = ClampYear(s.year, b)
              /\ ApiParams(p).yearTo = ClampYear(s.year, b)
          BY <3>1, <3>3, <4>1 DEF ApiParams, Periods
        <4>3. s.year \in Nat  BY <3>1 DEF Periods
        <4> HIDE DEF p
        <4> QED BY <2>7, <4>2, <4>3
      <3>4. CASE s.mode = "yearRange"
        <4>1. p = [s EXCEPT !.yearFrom = ClampYear(s.yearFrom, b),
                           !.yearTo = ClampYear(s.yearTo, b)]
          BY <3>2, <3>4 DEF ClampPeriod
        <4>2. ApiParams(p).yearFrom = ClampYear(s.yearFrom, b)
              /\ ApiParams(p).yearTo = ClampYear(s.yearTo, b)
          BY <3>1, <3>4, <4>1 DEF ApiParams, Periods
        <4>3. s.yearFrom \in Nat /\ s.yearTo \in Nat  BY <3>1 DEF Periods
        <4> HIDE DEF p
        <4> QED BY <2>7, <4>2, <4>3
      <3>5. CASE s.mode = "dateRange"
        BY <3>1, <3>2, <3>5 DEF ClampPeriod, ApiParams, Periods
      <3> QED BY <3>1, <3>3, <3>4, <3>5 DEF Periods, Modes
    <2> QED BY <2>6, <2>8 DEF b
  <1> QED BY <1>1, PeriodTyped, PTL DEF PeriodSpec, YearsFollowCountry

-----------------------------------------------------------------------------
(* The months of the charts.                                                *)

\* Every month has a day: at least 28, at most 31.
LEMMA MonthLengths ==
  ASSUME NEW y \in Int, NEW m \in Int
  PROVE  DaysInMonth(y, m) \in 28..31
  BY DEF DaysInMonth

\* JavaScript's twofold remainder is the month of the calendar, also before the
\* year nought.
LEMMA TwofoldRemainder ==
  ASSUME NEW a \in Int
  PROVE  /\ Remainder(Remainder(a, 12) + 12, 12) = a % 12
         /\ a % 12 \in 0..11
  <1>1. CASE a >= 0
    <2>1. a % 12 \in 0..11  BY <1>1
    <2>2. ((a % 12) + 12) % 12 = a % 12  BY <2>1
    <2> QED BY <1>1, <2>1, <2>2 DEF Remainder
  <1>2. CASE a < 0
    <2> DEFINE b == - a
    <2>1. b \in Nat /\ b % 12 \in 0..11  BY <1>2
    <2>2. - (b % 12) + 12 >= 0  BY <2>1
    <2>3. (- (b % 12) + 12) % 12 = a % 12  BY <2>1, <1>2
    <2>4. a % 12 \in 0..11  BY <1>2
    <2> QED BY <1>2, <2>1, <2>2, <2>3, <2>4 DEF Remainder
  <1> QED BY <1>1, <1>2

\* A shifted day is a day of the calendar, in the month the server's own
\* arithmetic gives (period.ts:13-18 of shiftMonths and _shift_month).
THEOREM ShiftAgrees ==
  ASSUME NEW day, IsDay(day), NEW months \in Int
  PROVE  /\ IsDay(ShiftMonths(day, months))
         /\ ShiftMonths(day, months).y = ServerShift(day, months).y
         /\ ShiftMonths(day, months).m = ServerShift(day, months).m
  <1> DEFINE total == MonthsOf(day, months)
             year == total \div 12
             month == (total % 12) + 1
  <1>1. day.y \in Int /\ day.m \in Int /\ day.d \in Int /\ day.d >= 1
    BY MonthLengths DEF IsDay
  <1>2. total \in Int  BY <1>1 DEF MonthsOf
  <1>3. year \in Int /\ month \in 1..12  BY <1>2, TwofoldRemainder
  <1>4. DaysInMonth(year, month) \in 28..31  BY <1>3, MonthLengths
  <1>5. ShiftMonths(day, months) =
          [y |-> year, m |-> month,
           d |-> IF day.d < DaysInMonth(year, month) THEN day.d ELSE DaysInMonth(year, month)]
    BY <1>2, TwofoldRemainder DEF ShiftMonths
  <1>6. IsDay(ShiftMonths(day, months))
    <2> HIDE DEF year, month
    <2> QED BY <1>1, <1>3, <1>4, <1>5 DEF IsDay
  <1>7. ServerShift(day, months) = [y |-> year, m |-> month, d |-> 1]  BY DEF ServerShift
  <1> QED BY <1>5, <1>6, <1>7

\* Shifted by no months a day is itself.
LEMMA ShiftByNothing ==
  ASSUME NEW day, IsDay(day)
  PROVE  ShiftMonths(day, 0) = day
  <1> DEFINE total == MonthsOf(day, 0)
             last == DaysInMonth(day.y, day.m)
  <1>1. day \in [y : Int, m : Int, d : Int] /\ day.m \in 1..12 /\ day.d \in 1..last
    BY DEF IsDay
  <1>2. total = day.y * 12 + (day.m - 1)  BY <1>1 DEF MonthsOf
  <1>3. total \in Int /\ total \div 12 = day.y /\ (total % 12) + 1 = day.m
    <2> DEFINE y == day.y
               m == day.m - 1
    <2>1. y \in Int /\ m \in 0..11  BY <1>1
    <2>2. (y * 12 + m) \div 12 = y /\ (y * 12 + m) % 12 = m
      <3> HIDE DEF y, m
      <3> QED BY <2>1
    <2> QED BY <1>1, <1>2, <2>2
  <1>4. Remainder(Remainder(total, 12) + 12, 12) + 1 = day.m
    <2> HIDE DEF total
    <2> QED BY <1>3, TwofoldRemainder
  <1>5. ShiftMonths(day, 0) =
          [y |-> day.y, m |-> day.m, d |-> IF day.d < last THEN day.d ELSE last]
    <2> HIDE DEF last
    <2>1. ShiftMonths(day, 0).y = day.y /\ ShiftMonths(day, 0).m = day.m
      BY <1>3, <1>4 DEF ShiftMonths
    <2> QED BY <1>3, <1>4, <2>1 DEF ShiftMonths, last
  <1>6. last \in 28..31  BY <1>1, MonthLengths
  <1>7. (IF day.d < last THEN day.d ELSE last) = day.d
    <2> HIDE DEF last
    <2> QED BY <1>1, <1>6
  <1> QED BY <1>1, <1>5, <1>7

\* Shifted back by any number of months a day is never later.
LEMMA ShiftedBack ==
  ASSUME NEW day, IsDay(day), NEW k \in Nat \ {0}
  PROVE  ~Later(ShiftMonths(day, - k), day)
  <1> DEFINE back == ShiftMonths(day, - k)
             total == MonthsOf(day, - k)
  <1>1. day.y \in Int /\ day.m \in 1..12 /\ - k \in Int  BY DEF IsDay
  <1>2. total = day.y * 12 + (day.m - 1) - k /\ total \in Int  BY <1>1 DEF MonthsOf
  <1>3. IsDay(back) /\ back.y = ServerShift(day, - k).y /\ back.m = ServerShift(day, - k).m
    BY <1>1, ShiftAgrees
  <1>4. back.y = total \div 12 /\ back.m = (total % 12) + 1
    BY <1>3 DEF ServerShift
  <1>5. back.y \in Int /\ back.m \in 1..12
    <2> HIDE DEF back
    <2> QED BY <1>3 DEF IsDay
  <1>6. (total \div 12) * 12 + (total % 12) = total
    <2> HIDE DEF total
    <2> QED BY <1>2
  <1>7. day.y > back.y \/ (day.y = back.y /\ day.m > back.m)
    <2> HIDE DEF back, total
    <2>1. back.y * 12 + (back.m - 1) = day.y * 12 + (day.m - 1) - k
      BY <1>2, <1>4, <1>6
    <2>2. ASSUME NEW y \in Int, NEW b \in Int, NEW m \in 1..12, NEW n \in 1..12,
                 b * 12 + (n - 1) = y * 12 + (m - 1) - k
          PROVE  y > b \/ (y = b /\ m > n)
      BY <2>2
    <2> QED BY <1>1, <1>5, <2>1, <2>2
  <1> QED
    <2> HIDE DEF back
    <2>1. ~Later(back, day)  BY <1>1, <1>5, <1>7 DEF Later
    <2> QED BY <2>1 DEF back

\* For every set of days: the fields hold days or nothing, and a lit preset is
\* a range the charts are asked for.
THEOREM PresetsAreAsked == ChartSpec => [](ChartTypeOK /\ LitPresetIsAsked)
  <1> DEFINE Inv == ChartTypeOK /\ LitPresetIsAsked
  <1>1. ASSUME NEW p \in Presets, NEW day \in ChartDays
        PROVE  /\ RangeFrom(p, day) \in FieldDays /\ RangeTo(day) \in FieldDays
               /\ IsDay(RangeFrom(p, day)) /\ IsDay(RangeTo(day))
               /\ ~Later(RangeFrom(p, day), RangeTo(day))
    <2>1. IsDay(day)  BY ChartDaysAssumption
    <2>2. PresetMonths(p) \in Nat \ {0} /\ - PresetMonths(p) \in Int
      BY DEF Presets, PresetMonths
    <2>3. IsDay(RangeFrom(p, day))  BY <2>1, <2>2, ShiftAgrees DEF RangeFrom
    <2>4. RangeTo(day) = day  BY <2>1, ShiftByNothing DEF RangeTo
    <2>5. ~Later(RangeFrom(p, day), day)  BY <2>1, <2>2, ShiftedBack DEF RangeFrom
    <2> QED BY <2>1, <2>3, <2>4, <2>5 DEF FieldDays, IsDay
  <1>2. ChartInit => Inv
    BY <1>1 DEF ChartInit, ChartTypeOK, LitPresetIsAsked, InvalidRange, Presets
  <1>3. Inv /\ [ChartNext]_chartVars => Inv'
    <2> SUFFICES ASSUME Inv, [ChartNext]_chartVars PROVE Inv'
      OBVIOUS
    <2>1. ASSUME NEW p \in Presets, PickPreset(p) PROVE Inv'
      BY <2>1, <1>1 DEF PickPreset, ChartTypeOK, LitPresetIsAsked, InvalidRange
    <2>2. ASSUME NEW day \in ChartDays \cup {NoDay}, PickFrom(day) \/ PickTo(day) PROVE Inv'
      <3>1. day \in FieldDays  BY ChartDaysAssumption DEF FieldDays, IsDay, NoDay
      <3> QED BY <2>2, <3>1 DEF PickFrom, PickTo, ChartTypeOK, LitPresetIsAsked, InvalidRange
    <2>3. CASE NextDay
      BY <2>3 DEF NextDay, ChartTypeOK, LitPresetIsAsked, InvalidRange
    <2>4. CASE UNCHANGED chartVars
      BY <2>4 DEF chartVars, ChartTypeOK, LitPresetIsAsked, InvalidRange
    <2> QED BY <2>1, <2>2, <2>3, <2>4 DEF ChartNext
  <1> QED BY <1>2, <1>3, PTL DEF ChartSpec

-----------------------------------------------------------------------------
(*                                THE MENUS                                 *)
-----------------------------------------------------------------------------
(* Arrays that are filtered.                                                *)

\* A set of numbers has a least one.
LEMMA Least ==
  ASSUME NEW S \in SUBSET Nat, S # {}
  PROVE  \E n \in S : \A m \in S : ~ (m < n)
  <1>1. \E n \in S : \A m \in S : ~ (<<m, n>> \in OpToRel(<, Nat))
    BY NatLessThanWellFounded, WFMin
  <1> QED BY <1>1 DEF OpToRel

\* What holds of 0, and of n + 1 whenever it holds of n, holds of every number.
LEMMA CountInduction ==
  ASSUME NEW Good, 0 \in Good, \A n \in Nat : n \in Good => n + 1 \in Good
  PROVE  Nat \subseteq Good
  <1> DEFINE Bad == Nat \ Good
  <1>1. SUFFICES ASSUME Bad # {} PROVE FALSE
    OBVIOUS
  <1>2. PICK n \in Bad : \A m \in Bad : ~ (m < n)
    BY <1>1, Least
  <1>3. n - 1 \in Nat /\ n - 1 \in Good
    BY <1>2
  <1> QED BY <1>2, <1>3

\* The function kept is what is left of the first elements, up to m of them.
Keeps(kept, array, these, m) ==
  kept = [n \in 0..m |->
           IF n = 0 THEN << >>
           ELSE IF array[n] \in these THEN Append(kept[n - 1], array[n]) ELSE kept[n - 1]]

\* A filtered array is what such a function makes of the whole array.
LEMMA FilterIs ==
  ASSUME NEW array, NEW these
  PROVE  Filter(array, these)
           = (CHOOSE kept : Keeps(kept, array, these, Len(array)))[Len(array)]
  BY DEF Filter, Keeps

\* There is one, however many elements are gone through.
LEMMA KeepsExists ==
  ASSUME NEW array, NEW these
  PROVE  \A m \in Nat : \E kept : Keeps(kept, array, these, m)
  <1> DEFINE Good == {m \in Nat : \E kept : Keeps(kept, array, these, m)}
  <1>1. 0 \in Good
    <2>1. Keeps([n \in 0..0 |-> << >>], array, these, 0)
      BY DEF Keeps
    <2> QED BY <2>1
  <1>2. ASSUME NEW m \in Nat, m \in Good PROVE m + 1 \in Good
    <2>1. PICK kept : Keeps(kept, array, these, m)  BY <1>2
    <2> DEFINE last == IF array[m + 1] \in these THEN Append(kept[m], array[m + 1]) ELSE kept[m]
               more == [n \in 0..(m + 1) |-> IF n = m + 1 THEN last ELSE kept[n]]
    <2>2. \A n \in 0..m : kept[n] = IF n = 0 THEN << >>
                                    ELSE IF array[n] \in these THEN Append(kept[n - 1], array[n])
                                    ELSE kept[n - 1]
      BY <2>1 DEF Keeps
    <2>3. \A n \in 0..m : more[n] = kept[n]  OBVIOUS
    <2>4. more[m + 1] = last  OBVIOUS
    <2>5. more = [n \in 0..(m + 1) |-> more[n]]  OBVIOUS
    <2> HIDE DEF more
    <2>6. \A n \in 0..(m + 1) :
            more[n] = IF n = 0 THEN << >>
                      ELSE IF array[n] \in these THEN Append(more[n - 1], array[n])
                      ELSE more[n - 1]
      <3>1. \A n \in 0..m : n # 0 => n - 1 \in 0..m  OBVIOUS
      <3>2. \A n \in 0..(m + 1) : n = m + 1 \/ n \in 0..m  OBVIOUS
      <3> QED BY <2>2, <2>3, <2>4, <3>1, <3>2
    <2>7. Keeps(more, array, these, m + 1)
      BY <2>5, <2>6 DEF Keeps
    <2> QED BY <2>7
  <1>3. Nat \subseteq Good
    <2> HIDE DEF Good
    <2> QED BY <1>1, <1>2, CountInduction
  <1> QED BY <1>3

\* One more element at the end.
LEMMA AppendElements ==
  ASSUME NEW T, NEW array \in Seq(T), NEW x \in T
  PROVE  /\ Append(array, x) \in Seq(T)
         /\ Len(Append(array, x)) = Len(array) + 1
         /\ Range(Append(array, x)) = Range(array) \cup {x}
         /\ IsInjective(array) /\ x \notin Range(array) => IsInjective(Append(array, x))
  <1> DEFINE q == Append(array, x)
  <1>1. /\ q \in Seq(T) /\ Len(q) = Len(array) + 1
        /\ DOMAIN array = 1..Len(array) /\ DOMAIN q = 1..(Len(array) + 1)
        /\ q[Len(array) + 1] = x
        /\ \A i \in 1..Len(array) : q[i] = array[i]
    OBVIOUS
  <1>2. Len(array) \in Nat  OBVIOUS
  <1> HIDE DEF q
  <1>3. \A i \in DOMAIN q : i \in DOMAIN array \/ i = Len(array) + 1
    BY <1>1, <1>2
  <1>4. Range(q) = Range(array) \cup {x}
    <2>1. DOMAIN array \subseteq DOMAIN q /\ Len(array) + 1 \in DOMAIN q
      BY <1>1, <1>2
    <2>2. \A i \in DOMAIN q : q[i] \in Range(array) \cup {x}
      BY <1>1, <1>3 DEF Range
    <2>3. Range(q) \subseteq Range(array) \cup {x}
      BY <2>2 DEF Range
    <2>4. x \in Range(q) /\ Range(array) \subseteq Range(q)
      BY <1>1, <2>1 DEF Range
    <2> QED BY <2>3, <2>4
  <1>5. ASSUME IsInjective(array), x \notin Range(array) PROVE IsInjective(q)
    <2>1. \A i \in DOMAIN array : q[i] = array[i] /\ q[i] # x
      BY <1>1, <1>5 DEF Range
    <2> QED BY <1>1, <1>2, <1>3, <1>5, <2>1 DEF IsInjective
  <1> QED BY <1>1, <1>4, <1>5 DEF q

\* What filter returns: no longer an array, of the elements that stay, and no element
\* twice that was there once.
LEMMA FilterFacts ==
  ASSUME NEW T, NEW array \in Seq(T), NEW these
  PROVE  /\ Filter(array, these) \in Seq(T)
         /\ Len(Filter(array, these)) <= Len(array)
         /\ Range(Filter(array, these)) = Range(array) \cap these
         /\ IsInjective(array) => IsInjective(Filter(array, these))
  <1> DEFINE m == Len(array)
             k == CHOOSE kept : Keeps(kept, array, these, m)
             First(n) == {array[i] : i \in 1..n}
  <1>0. m \in Nat  OBVIOUS
  <1>1. Filter(array, these) = k[m] /\ Keeps(k, array, these, m)
    <2>1. Filter(array, these) = k[m]  BY FilterIs
    <2>2. \E kept : Keeps(kept, array, these, m)  BY <1>0, KeepsExists
    <2> QED BY <2>1, <2>2
  <1>2. \A n \in 0..m : k[n] = IF n = 0 THEN << >>
                               ELSE IF array[n] \in these THEN Append(k[n - 1], array[n])
                               ELSE k[n - 1]
    BY <1>1 DEF Keeps
  <1>3. DOMAIN array = 1..m /\ \A i \in 1..m : array[i] \in T  OBVIOUS
  <1> HIDE DEF m, k
  <1> DEFINE Right(n) == /\ k[n] \in Seq(T) /\ Len(k[n]) <= n
                         /\ Range(k[n]) = First(n) \cap these
                         /\ IsInjective(array) => IsInjective(k[n])
             Good == {n \in Nat : n <= m => Right(n)}
  <1>4. 0 \in Good
    <2>1. k[0] = << >>  BY <1>0, <1>2
    <2>2. First(0) = {}  OBVIOUS
    <2>3. << >> \in Seq(T) /\ Len(<< >>) = 0 /\ DOMAIN << >> = {}  OBVIOUS
    <2>4. Range(<< >>) = {} /\ IsInjective(<< >>)  BY <2>3 DEF Range, IsInjective
    <2>5. Right(0)
      <3> HIDE DEF First
      <3> QED BY <2>1, <2>2, <2>3, <2>4
    <2> QED BY <2>5
  <1>5. ASSUME NEW n \in Nat, n \in Good PROVE n + 1 \in Good
    <2>1. SUFFICES ASSUME n + 1 <= m PROVE Right(n + 1)
      OBVIOUS
    <2> DEFINE x == array[n + 1]
    <2>2. Right(n)  BY <1>0, <1>5, <2>1
    <2>3. k[n + 1] = IF x \in these THEN Append(k[n], x) ELSE k[n]
      <3>1. n + 1 \in 0..m /\ n + 1 # 0 /\ (n + 1) - 1 = n  BY <1>0, <2>1
      <3> HIDE DEF Good, First, Right
      <3> QED BY <1>2, <3>1
    <2>4. x \in T  BY <1>0, <1>3, <2>1
    <2>5. First(n + 1) = First(n) \cup {x}
      <3>1. 1..(n + 1) = (1..n) \cup {n + 1}  OBVIOUS
      <3> QED BY <3>1
    <2>6. IsInjective(array) => x \notin First(n)
      BY <1>0, <1>3, <2>1 DEF IsInjective
    <2> HIDE DEF x, First
    <2>7. CASE x \in these
      <3>1. k[n + 1] = Append(k[n], x)  BY <2>3, <2>7
      <3>2. IsInjective(array) => x \notin Range(k[n])  BY <2>2, <2>6
      <3>3. /\ k[n + 1] \in Seq(T) /\ Len(k[n + 1]) = Len(k[n]) + 1
            /\ Range(k[n + 1]) = Range(k[n]) \cup {x}
            /\ IsInjective(k[n]) /\ x \notin Range(k[n]) => IsInjective(k[n + 1])
        BY <2>2, <2>4, <3>1, AppendElements
      <3>4. Len(k[n]) \in Nat  BY <2>2
      <3> QED BY <2>2, <2>5, <2>7, <3>2, <3>3, <3>4
    <2>8. CASE x \notin these
      <3>1. k[n + 1] = k[n]  BY <2>3, <2>8
      <3>2. Len(k[n]) \in Nat  BY <2>2
      <3> QED BY <2>2, <2>5, <2>8, <3>1, <3>2
    <2> QED BY <2>7, <2>8
  <1>6. Nat \subseteq Good
    <2> HIDE DEF Good
    <2> QED BY <1>4, <1>5, CountInduction
  <1>7. Right(m)
    <2>1. m \in Good  BY <1>0, <1>6
    <2>2. m <= m  BY <1>0
    <2> HIDE DEF First
    <2> QED BY <2>1, <2>2
  <1>8. First(m) = Range(array)  BY <1>3 DEF Range
  <1> QED BY <1>1, <1>7, <1>8 DEF m

\* A filter that takes every element leaves the array as it is.
LEMMA FilterAll ==
  ASSUME NEW T, NEW array \in Seq(T), NEW these, T \subseteq these
  PROVE  Filter(array, these) = array
  <1> DEFINE m == Len(array)
             k == CHOOSE kept : Keeps(kept, array, these, m)
             Good == {n \in Nat : n <= m => k[n] = [i \in 1..n |-> array[i]]}
  <1>0. m \in Nat  OBVIOUS
  <1>1. Filter(array, these) = k[m] /\ Keeps(k, array, these, m)
    <2>1. Filter(array, these) = k[m]  BY FilterIs
    <2>2. \E kept : Keeps(kept, array, these, m)  BY <1>0, KeepsExists
    <2> QED BY <2>1, <2>2
  <1>2. \A i \in 1..m : array[i] \in T /\ array[i] \in these  OBVIOUS
  <1>3. array = [i \in 1..m |-> array[i]]  OBVIOUS
  <1> HIDE DEF m, k
  <1>4. k[0] = << >> /\ \A n \in 1..m : k[n] = Append(k[n - 1], array[n])
    <2>1. 0 \in 0..m /\ \A n \in 1..m : n \in 0..m /\ n # 0
      BY <1>0
    <2>2. \A n \in 0..m : k[n] = IF n = 0 THEN << >>
                                 ELSE IF array[n] \in these THEN Append(k[n - 1], array[n])
                                 ELSE k[n - 1]
      BY <1>1 DEF Keeps
    <2> QED BY <1>2, <2>1, <2>2
  <1>5. 0 \in Good
    <2>1. [i \in 1..0 |-> array[i]] = << >>
      OBVIOUS
    <2> QED BY <1>4, <2>1
  <1>6. ASSUME NEW n \in Nat, n \in Good PROVE n + 1 \in Good
    <2>1. SUFFICES ASSUME n + 1 <= m PROVE k[n + 1] = [i \in 1..(n + 1) |-> array[i]]
      OBVIOUS
    <2> DEFINE front == [i \in 1..n |-> array[i]]
    <2>2. k[n + 1] = Append(front, array[n + 1])
      <3>1. k[n] = front /\ n + 1 \in 1..m /\ (n + 1) - 1 = n
        BY <1>0, <1>6, <2>1
      <3> HIDE DEF Good, front
      <3> QED BY <1>4, <3>1
    <2>3. front \in Seq(T) /\ Len(front) = n /\ array[n + 1] \in T
      BY <1>0, <1>2, <2>1
    <2>4. Append(front, array[n + 1]) = [i \in 1..(n + 1) |-> array[i]]
      BY <2>3
    <2> QED BY <2>2, <2>4
  <1>7. Nat \subseteq Good
    <2> HIDE DEF Good
    <2> QED BY <1>5, <1>6, CountInduction
  <1>8. k[m] = [i \in 1..m |-> array[i]]
    BY <1>0, <1>7
  <1> QED BY <1>1, <1>3, <1>8

\* An array with nothing twice is as long as it has elements.
LEMMA InjectiveCounts ==
  ASSUME NEW T, NEW array \in Seq(T), IsInjective(array)
  PROVE  Len(array) = Cardinality(Range(array))
  <1>1. IsFiniteSet(1..Len(array)) /\ Cardinality(1..Len(array)) = Len(array)
    <2> DEFINE m == Len(array)
    <2>1. 1 \in Int /\ m \in Int /\ m \in Nat  OBVIOUS
    <2> HIDE DEF m
    <2>2. \A a, b \in Int :
            IsFiniteSet(a..b) /\ Cardinality(a..b) = IF a > b THEN 0 ELSE b - a + 1
      BY FS_Interval
    <2>3. IsFiniteSet(1..m) /\ Cardinality(1..m) = IF 1 > m THEN 0 ELSE m - 1 + 1
      BY <2>1, <2>2
    <2>4. (IF 1 > m THEN 0 ELSE m - 1 + 1) = m  BY <2>1
    <2> QED BY <2>3, <2>4 DEF m
  <1>2. array \in Bijection(1..Len(array), Range(array))
    <2>1. DOMAIN array = 1..Len(array) /\ array = [i \in 1..Len(array) |-> array[i]]  OBVIOUS
    <2>2. \A i, j \in 1..Len(array) : array[i] = array[j] => i = j
      BY <2>1 DEF IsInjective
    <2>3. array \in [1..Len(array) -> Range(array)]  BY <2>1 DEF Range
    <2>4. \A x \in Range(array) : \E i \in 1..Len(array) : array[i] = x
      BY <2>1 DEF Range
    <2>5. array \in Injection(1..Len(array), Range(array))
      BY <2>2, <2>3 DEF Injection
    <2>6. array \in Surjection(1..Len(array), Range(array))
      BY <2>3, <2>4 DEF Surjection
    <2> QED BY <2>5, <2>6 DEF Bijection
  <1>3. ExistsBijection(1..Len(array), Range(array))
    BY <1>2 DEF ExistsBijection
  <1> QED BY <1>1, <1>3, FS_Bijection

-----------------------------------------------------------------------------
(* The menus.                                                               *)

USE MenusAssumption

\* Nothing is chosen twice.
MenuInv == MenuTypeOK /\ IsInjective(values)

\* The rows are options, and no more of them than there are.
LEMMA MenuRowsTyped ==
  ASSUME NEW q
  PROVE  /\ Filtered(q) \in Seq(Options) /\ Len(Filtered(q)) \in 0..Count
         /\ DOMAIN Filtered(q) = 1..Len(Filtered(q))
         /\ \A r \in DOMAIN Filtered(q) : Filtered(q)[r] \in Options
  <1> DEFINE all == [i \in Options |-> i]
             these == IF q = NoQuery \/ ~searchable THEN Options ELSE Found(q)
  <1>1. all \in Seq(Options) /\ Len(all) = Count
    BY DEF Options
  <1>2. Filtered(q) = Filter(all, these)
    BY DEF Filtered
  <1> HIDE DEF all, these
  <1>3. Filtered(q) \in Seq(Options) /\ Len(Filtered(q)) <= Count
    BY <1>1, <1>2, FilterFacts
  <1> QED BY <1>3

LEMMA ClampedIn ==
  ASSUME NEW row \in 1..Count, NEW list \in Seq(Options), Len(list) \in 0..Count
  PROVE  Clamped(row, list) \in 1..Count
  BY DEF Clamped, Smaller, Larger

\* A menu that is opened.
LEMMA OpensTyped ==
  ASSUME MenuInv, MenuOpened, UNCHANGED <<menuKind, searchable, value, values>>
  PROVE  MenuInv'
  <1>1. MenuRows \in Seq(Options) /\ Len(MenuRows) \in 0..Count
    BY MenuRowsTyped DEF MenuRows
  <1>2. RowOf(value, MenuRows) \in 1..Count
    BY <1>1 DEF RowOf
  <1>3. active' \in 0..Count
    <2>1. Clamped(RowOf(value, MenuRows), MenuRows) \in 1..Count
      BY <1>1, <1>2, ClampedIn
    <2> QED BY <2>1 DEF MenuOpened
  <1> QED BY <1>3 DEF MenuInv, MenuTypeOK, MenuOpened

\* What a choice does to what is chosen.
LEMMA Toggled ==
  ASSUME MenuInv, NEW option \in Options, ToggleOption(option)
  PROVE  /\ values' \in Seq(Options) /\ IsInjective(values')
         /\ option \in Range(values) => Range(values') = Range(values) \ {option}
         /\ option \notin Range(values) => Range(values') = Range(values) \cup {option}
  <1>1. values \in Seq(Options) /\ IsInjective(values)  BY DEF MenuInv, MenuTypeOK
  <1>2. values' = IF option \in Range(values) THEN Filter(values, Options \ {option})
                  ELSE Append(values, option)
    BY DEF ToggleOption, Range
  <1>3. Range(values) \subseteq Options  BY <1>1 DEF Range
  <1>4. CASE option \in Range(values)
    <2>1. /\ values' \in Seq(Options) /\ IsInjective(values')
          /\ Range(values') = Range(values) \cap (Options \ {option})
      BY <1>1, <1>2, <1>4, FilterFacts
    <2> QED BY <1>3, <1>4, <2>1
  <1>5. CASE option \notin Range(values)
    BY <1>1, <1>2, <1>5, AppendElements
  <1> QED BY <1>4, <1>5

\* A choice is a row's, by a key or by a click.
Picks(option) ==
  \/ menuKind = "select" /\ Select(option)
  \/ menuKind = "multi" /\ ToggleOption(option) /\ focus' \in {focus, "list"}

LEMMA PicksTyped ==
  ASSUME MenuInv, NEW option \in Options, Picks(option), active' \in 0..Count,
         UNCHANGED <<menuKind, searchable, query>>
  PROVE  MenuInv'
  <1>1. CASE menuKind = "select" /\ Select(option)
    BY <1>1 DEF MenuInv, MenuTypeOK, Select
  <1>2. CASE menuKind = "multi" /\ ToggleOption(option) /\ focus' \in {focus, "list"}
    <2>1. values' \in Seq(Options) /\ IsInjective(values')  BY <1>2, Toggled
    <2> QED BY <1>2, <2>1 DEF MenuInv, MenuTypeOK, ToggleOption
  <1> QED BY <1>1, <1>2 DEF Picks

\* The row under the highlight, or under the pointer.
LEMMA RowPicks ==
  ASSUME MenuInv
  PROVE  /\ EnterKey => \E r \in DOMAIN MenuRows : Picks(MenuRows[r]) /\ active' = active
         /\ \A row : ClickRow(row) => row \in DOMAIN MenuRows /\ Picks(MenuRows[row]) /\ active' = row
  BY DEF EnterKey, ClickRow, Picks

\* Every step keeps the highlight among the rows and what is chosen apart.
LEMMA MenuStep == MenuInv /\ [MenuNext]_menuVars => MenuInv'
  <1> SUFFICES ASSUME MenuInv, [MenuNext]_menuVars PROVE MenuInv'
    OBVIOUS
  <1>0. /\ MenuRows \in Seq(Options) /\ Len(MenuRows) \in 0..Count
        /\ DOMAIN MenuRows = 1..Len(MenuRows)
        /\ \A r \in DOMAIN MenuRows : MenuRows[r] \in Options
    BY MenuRowsTyped DEF MenuRows
  <1>1. CASE ClickTrigger \/ TriggerKey
    <2>1. CASE MenuOpened /\ UNCHANGED <<menuKind, searchable, value, values>>
      BY <2>1, OpensTyped
    <2>2. CASE UNCHANGED <<menuKind, searchable, query, active, value, values>>
               /\ menuOpen' \in BOOLEAN /\ focus' \in {focus, "trigger"}
      BY <2>2 DEF MenuInv, MenuTypeOK
    <2>3. menuOpen \in BOOLEAN  BY DEF MenuInv, MenuTypeOK
    <2> QED BY <1>1, <2>1, <2>2, <2>3 DEF ClickTrigger, TriggerKey
  <1>2. CASE TabToTrigger \/ PressOutside \/ TabAway
    BY <1>2 DEF TabToTrigger, PressOutside, TabAway, MenuInv, MenuTypeOK
  <1>3. CASE EscapeMenu
    BY <1>3 DEF EscapeMenu, MenuInv, MenuTypeOK
  <1>4. ASSUME NEW q \in Needles \cup {NoQuery}, Search(q) PROVE MenuInv'
    <2>1. active' \in 0..Count
      <3>1. active \in 0..Count  BY DEF MenuInv, MenuTypeOK
      <3>2. Len(Filtered(q)) \in 0..Count  BY MenuRowsTyped
      <3> QED BY <1>4, <3>1, <3>2 DEF Search, Clamped, Smaller, Larger
    <2> QED BY <1>4, <2>1 DEF Search, MenuInv, MenuTypeOK
  <1>5. ASSUME NEW delta \in {-1, 1}, MoveActive(delta) PROVE MenuInv'
    <2>1. active' \in 0..Count
      <3>1. active \in 0..Count  BY DEF MenuInv, MenuTypeOK
      <3> QED BY <1>0, <1>5, <3>1 DEF MoveActive
    <2> QED BY <1>5, <2>1 DEF MoveActive, MenuInv, MenuTypeOK
  <1>6. ASSUME NEW row \in 0..Count, JumpTo(row) PROVE MenuInv'
    BY <1>6 DEF JumpTo, MenuInv, MenuTypeOK
  <1>7. ASSUME NEW row \in Options, Hover(row) PROVE MenuInv'
    BY <1>7 DEF Hover, Options, MenuInv, MenuTypeOK
  <1>8. ASSUME NEW row \in Options, ClickRow(row) PROVE MenuInv'
    <2>1. row \in DOMAIN MenuRows /\ Picks(MenuRows[row]) /\ active' = row
      BY <1>8, RowPicks
    <2>2. active' \in 0..Count  BY <2>1 DEF Options
    <2> QED BY <1>0, <1>8, <2>1, <2>2, PicksTyped DEF ClickRow
  <1>9. CASE EnterKey
    <2>1. PICK r \in DOMAIN MenuRows : Picks(MenuRows[r]) /\ active' = active
      BY <1>9, RowPicks
    <2>2. active' \in 0..Count  BY <2>1 DEF MenuInv, MenuTypeOK
    <2> QED BY <1>0, <1>9, <2>1, <2>2, PicksTyped DEF EnterKey
  <1>10. CASE ClearAll
    <2>1. values' = << >> /\ values' \in Seq(Options) /\ IsInjective(values')
      BY <1>10 DEF ClearAll, IsInjective
    <2> QED BY <1>10, <2>1 DEF ClearAll, MenuInv, MenuTypeOK
  <1>11. CASE UNCHANGED menuVars
    BY <1>11 DEF menuVars, MenuInv, MenuTypeOK
  <1> QED
    BY <1>1, <1>2, <1>3, <1>4, <1>5, <1>6, <1>7, <1>8, <1>9, <1>10, <1>11 DEF MenuNext

LEMMA MenuBegins == MenuInit => MenuInv
  <1> SUFFICES ASSUME MenuInit PROVE MenuInv
    OBVIOUS
  <1>1. << >> \in Seq(Options) /\ IsInjective(<< >>)  BY DEF IsInjective
  <1>2. 1 \in 0..Count /\ value \in Options \cup {0}  BY DEF MenuInit, Options
  <1> QED BY <1>1, <1>2 DEF MenuInit, MenuInv, MenuTypeOK

\* Both menus keep to their type: the highlight stays within the options, whatever a
\* search has hidden when a key moves it (the clamping effect of Select and MultiSelect).
THEOREM MenusTyped == MenuSpec => []MenuTypeOK
<1>1. MenuInv => MenuTypeOK  BY DEF MenuInv
<1> QED BY <1>1, MenuBegins, MenuStep, PTL DEF MenuSpec

\* A click or a key in a menu changes the choice by one option of those listed, or clears
\* it by its own row: what a search hides stays chosen, nothing is chosen twice, and a
\* disabled option is never taken (select, toggle and handleListKeyDown).
THEOREM OneChoice == MenuSpec => ChoosesOne
  <1> DEFINE Fine ==
        /\ value' # value => value' \notin Barred
        /\ values' # values =>
             /\ Len(values') = Cardinality(Range(values'))
             /\ \/ Range(values') = {}
                \/ \E option \in Range(MenuRows) :
                     \/ option \notin Range(values) /\ Range(values') = Range(values) \cup {option}
                     \/ option \in Range(values) /\ Range(values') = Range(values) \ {option}
         Whole ==
        /\ value' # value => value' \notin Barred
        /\ values' # values =>
             LET was == {values[i] : i \in DOMAIN values}
                 is  == {values'[i] : i \in DOMAIN values'}
             IN /\ Len(values') = Cardinality(is)
                /\ \/ is = {}
                   \/ \E option \in {MenuRows[r] : r \in DOMAIN MenuRows} :
                          \/ option \notin was /\ is = was \cup {option}
                          \/ option \in was /\ is = was \ {option}
  <1>1. ASSUME MenuInv, [MenuNext]_menuVars PROVE Fine
    <2>0. \A r \in DOMAIN MenuRows : MenuRows[r] \in Options /\ MenuRows[r] \in Range(MenuRows)
      BY MenuRowsTyped DEF MenuRows, Range
    <2>1. ASSUME NEW r \in DOMAIN MenuRows, Picks(MenuRows[r]) PROVE Fine
      <3>1. CASE Select(MenuRows[r])
        BY <3>1 DEF Select
      <3>2. CASE ToggleOption(MenuRows[r])
        <4>1. /\ values' \in Seq(Options) /\ IsInjective(values')
              /\ MenuRows[r] \in Range(values) => Range(values') = Range(values) \ {MenuRows[r]}
              /\ MenuRows[r] \notin Range(values) => Range(values') = Range(values) \cup {MenuRows[r]}
          BY <1>1, <2>0, <3>2, Toggled
        <4>2. Len(values') = Cardinality(Range(values'))
          BY <4>1, InjectiveCounts
        <4>3. value' = value  BY <3>2 DEF ToggleOption
        <4> QED BY <2>0, <4>1, <4>2, <4>3
      <3> QED BY <2>1, <3>1, <3>2 DEF Picks
    <2>2. ASSUME NEW row \in Options, ClickRow(row) PROVE Fine
      BY <1>1, <2>1, <2>2, RowPicks
    <2>3. CASE EnterKey
      BY <1>1, <2>1, <2>3, RowPicks
    <2>4. CASE ClearAll
      <3>1. values' = << >> /\ value' = value  BY <2>4 DEF ClearAll
      <3>2. Range(<< >>) = {} /\ Len(<< >>) = 0  BY DEF Range
      <3> QED BY <3>1, <3>2, FS_EmptySet
    <2>5. CASE UNCHANGED <<value, values>>
      BY <2>5
    <2> QED
      BY <1>1, <2>2, <2>3, <2>4, <2>5
      DEF MenuNext, menuVars, ClickTrigger, TriggerKey, TabToTrigger, PressOutside, EscapeMenu,
          TabAway, Search, MoveActive, JumpTo, Hover
  <1>2. Fine => Whole
    BY DEF Range
  <1>3. MenuInv /\ [MenuNext]_menuVars => [Whole]_menuVars
    BY <1>1, <1>2
  <1> QED BY <1>3, MenuBegins, MenuStep, PTL DEF MenuSpec, ChoosesOne

\* Whatever was searched for before, a menu opens on its whole list (the effect that
\* empties the search box when `open` changes): no option is hidden for no visible reason.
THEOREM WholeListOpens == MenuSpec => OpensWhole
  <1> DEFINE Whole == ~menuOpen /\ menuOpen' => MenuRows' = [i \in Options |-> i]
  <1>1. ASSUME MenuInv, [MenuNext]_menuVars PROVE Whole
    <2>1. SUFFICES ASSUME ~menuOpen, menuOpen' PROVE MenuRows' = [i \in Options |-> i]
      OBVIOUS
    <2>2. query' = NoQuery
      BY <1>1, <2>1
      DEF MenuNext, menuVars, ClickTrigger, TriggerKey, MenuOpened, TabToTrigger, PressOutside,
          EscapeMenu, ListHears, TabAway, Search, MoveActive, JumpTo, Hover, EnterKey, ClickRow,
          ClearAll, Select, ToggleOption
    <2>3. MenuRows' = Filter([i \in Options |-> i], Options)
      BY <2>2 DEF MenuRows, Filtered
    <2>4. [i \in Options |-> i] \in Seq(Options)
      BY DEF Options
    <2> QED BY <2>3, <2>4, FilterAll
  <1>2. MenuInv /\ [MenuNext]_menuVars => [Whole]_menuVars
    BY <1>1
  <1> QED BY <1>2, MenuBegins, MenuStep, PTL DEF MenuSpec, OpensWhole
=============================================================================
