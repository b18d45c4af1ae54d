------------------------------ MODULE Purchases -------------------------------
(***************************************************************************)
(* Coins, the expenses booked with them, and the catalog items both point  *)
(* at (services/collection.py, expenses.py, catalog.py).                   *)
(*                                                                         *)
(* A request reads rows statement by statement and writes at the end, in   *)
(* one transaction: of a row it has loaded only the columns it changed.    *)
(* Foreign keys are checked when it writes; a row that has gone by then    *)
(* fails an UPDATE (and the request, see Abort) and is ignored by DELETE.  *)
(* One currency stands for the foreign ones; names, grades, sellers and    *)
(* notes are left out, and so are the amounts of supporting expenses.      *)
(***************************************************************************)
EXTENDS Naturals, FiniteSets

CONSTANTS
  Coins,      \* ids of collection_items
  Expenses,   \* ids of expenses
  Items,      \* ids of catalog_items
  Personal,   \* those a user enters, the others are shared
  Null,
  Prices, Quantities, Dates,
  RateOn,     \* the exchange rate published for a date
  Requests

ASSUME PersonalAssumption == Personal \subseteq Items
ASSUME NullAssumption == Null \notin Coins \union Items
ASSUME MoneyAssumption ==
  /\ Prices \subseteq Nat /\ Quantities \subseteq Nat /\ Dates \subseteq Nat
  /\ RateOn \in [Dates -> Nat]

CoinColumns == {"price", "quantity", "date", "rate"}
ExpenseColumns == {"amount", "date", "rate"}
CoinPay == [CoinColumns -> Nat]
ExpensePay == [ExpenseColumns -> Nat]

\* Ids come from a sequence: a row once deleted does not come back.
Life == {"unborn", "kept", "deleted"}

CoinRow == [is : Life, item : Items \union {Null}, pay : CoinPay]
ExpenseRow == [is : Life, kind : {"purchase", "supporting"},
               coin : Coins \union {Null}, item : Items \union {Null},
               pay : ExpensePay]

NoCoinPay == [k \in CoinColumns |-> 0]
NoExpensePay == [k \in ExpenseColumns |-> 0]
NoCoin(is) == [is |-> is, item |-> Null, pay |-> NoCoinPay]
NoExpense(is) == [is |-> is, kind |-> "supporting", coin |-> Null,
                  item |-> Null, pay |-> NoExpensePay]

VARIABLES
  items,     \* catalog_items: whether each is there
  archived,  \* the shared items archived
  coin,      \* collection_items
  expense,   \* expenses
  req        \* the requests in flight

tables == <<items, archived, coin, expense>>
vars == <<tables, req>>

(***************************************************************************)
(* `loaded` and `entry` are the columns of the coin and of its expense as  *)
(* read, `pay` those of the coin as changed in memory.  `coins` and `rows` *)
(* are the coins and the expenses a deletion has found so far, `todo` the  *)
(* coins whose expense it has still to look for.                           *)
(***************************************************************************)
Request ==
  [op : {"none", "buy", "update", "delete", "add", "edit", "remove",
         "deletePersonal", "countCoins", "countExpenses", "deleteShared"},
   coins : SUBSET Coins, todo : SUBSET Coins, rows : SUBSET Expenses,
   item : Items \union {Null}, money : BOOLEAN,
   loaded : CoinPay, pay : CoinPay, entry : ExpensePay]

Idle == [op |-> "none", coins |-> {}, todo |-> {}, rows |-> {}, item |-> Null,
         money |-> FALSE, loaded |-> NoCoinPay, pay |-> NoCoinPay,
         entry |-> NoExpensePay]

TypeOK ==
  /\ items \in [Items -> Life]
  /\ archived \subseteq Items
  /\ coin \in [Coins -> CoinRow]
  /\ expense \in [Expenses -> ExpenseRow]
  /\ req \in [Requests -> Request]

Init ==
  /\ items = [x \in Items |-> IF x \in Personal THEN "unborn" ELSE "kept"]
  /\ archived = {}
  /\ coin = [c \in Coins |-> NoCoin("unborn")]
  /\ expense = [e \in Expenses |-> NoExpense("unborn")]
  /\ req = [r \in Requests |-> Idle]

KeptItems == {x \in Items : items[x] = "kept"}
KeptCoins == {c \in Coins : coin[c].is = "kept"}
KeptExpenses == {e \in Expenses : expense[e].is = "kept"}
CoinsOf(x) == {c \in KeptCoins : coin[c].item = x}

Finish(r) == req' = [req EXCEPT ![r] = Idle]
Begin(r, request) == req[r] = Idle /\ req' = [req EXCEPT ![r] = request]

\* What UPDATE writes: the columns that differ from what was loaded.
Written(loaded, new, row) ==
  [k \in DOMAIN row |-> IF new[k] # loaded[k] THEN new[k] ELSE row[k]]

\* The rate is that of the purchase date (_resolve_rate).
Paid(price, quantity, date) ==
  [k \in CoinColumns |-> CASE k = "price" -> price
                           [] k = "quantity" -> quantity
                           [] k = "date" -> date
                           [] k = "rate" -> RateOn[date]]

\* Mutant of Booking: the amount is the price of one.
BookingPerUnit(pay) ==
  [k \in ExpenseColumns |-> CASE k = "amount" -> pay["price"]
                              [] k = "date" -> pay["date"]
                              [] k = "rate" -> pay["rate"]]

\* The columns of the purchase expense that follow from the coin.
Booking(pay) ==
  [k \in ExpenseColumns |-> CASE k = "amount" -> pay["price"] * pay["quantity"]
                              [] k = "date" -> pay["date"]
                              [] k = "rate" -> pay["rate"]]

\* Mutant of PurchaseOf: the category is not asked for.
PurchaseOfAnyCategory(c) == {e \in KeptExpenses : expense[e].coin = c}

\* purchase_expense_for
PurchaseOf(c) ==
  {e \in KeptExpenses : expense[e].kind = "purchase" /\ expense[e].coin = c}

-----------------------------------------------------------------------------
(***************************************************************************)
(* POST /collection: the coin, its purchase expense and the supporting     *)
(* expenses of the purchase.                                               *)
(***************************************************************************)
Purchase(c, e, extras, x, pay) ==
  /\ coin[c].is = "unborn"
  /\ \A f \in extras \union {e} : expense[f].is = "unborn"
  /\ coin' = [coin EXCEPT ![c] = [is |-> "kept", item |-> x, pay |-> pay]]
  /\ expense' = [f \in Expenses |->
       CASE f = e ->
              [is |-> "kept", kind |-> "purchase", coin |-> c, item |-> x,
               pay |-> Booking(pay)]
         [] f \in extras \ {e} ->
              [is |-> "kept", kind |-> "supporting", coin |-> c, item |-> x,
               pay |-> NoExpensePay]
         [] OTHER -> expense[f]]

StartBuy(r, x, pay) ==
  /\ x \in KeptItems
  /\ Begin(r, [Idle EXCEPT !.op = "buy", !.item = x, !.pay = pay])
  /\ UNCHANGED tables

CommitBuy(r, c, e, extras) ==
  /\ req[r].op = "buy"
  /\ req[r].item \in KeptItems
  /\ Purchase(c, e, extras, req[r].item, req[r].pay)
  /\ Finish(r)
  /\ UNCHANGED <<items, archived>>

\* With newCatalogItem the personal item is one more insert before the coin.
BuyNew(x, c, e, extras, pay) ==
  /\ x \in Personal
  /\ items[x] = "unborn"
  /\ items' = [items EXCEPT ![x] = "kept"]
  /\ Purchase(c, e, extras, x, pay)
  /\ UNCHANGED <<archived, req>>

-----------------------------------------------------------------------------
(***************************************************************************)
(* PATCH and DELETE /collection/{id}: the coin is read, then its expense.  *)
(***************************************************************************)

\* Fields left out of the payload keep the loaded value; with any field about
\* money in it the rate is looked up again.
StartUpdate(r, c, money, pay) ==
  /\ c \in KeptCoins
  /\ ~ money => pay = coin[c].pay
  /\ Begin(r, [Idle EXCEPT !.op = "update", !.coins = {c}, !.todo = {c},
                           !.money = money, !.loaded = coin[c].pay,
                           !.pay = pay])
  /\ UNCHANGED tables

StartDelete(r, c) ==
  /\ c \in KeptCoins
  /\ Begin(r, [Idle EXCEPT !.op = "delete", !.coins = {c}, !.todo = {c}])
  /\ UNCHANGED tables

ReadExpense(r) ==
  /\ req[r].op \in {"update", "delete", "deletePersonal"}
  /\ \E c \in req[r].todo :
       LET found == PurchaseOf(c)
       IN \E rows \in IF found = {} THEN {{}} ELSE {{e} : e \in found} :
            req' = [req EXCEPT ![r] = [req[r] EXCEPT
                      !.todo = req[r].todo \ {c},
                      !.rows = req[r].rows \union rows,
                      !.entry = IF req[r].op = "update" /\ rows # {}
                                THEN expense[CHOOSE e \in rows : TRUE].pay
                                ELSE req[r].entry]]
  /\ UNCHANGED tables

\* _sync_expense: all the columns, whether or not money changed.
Sync(e, pay, entry) ==
  /\ Booking(pay) # entry => e \in KeptExpenses
  /\ expense' = [expense EXCEPT ![e] = [expense[e] EXCEPT !.pay =
                   Written(entry, Booking(pay), expense[e].pay)]]

\* A coin found without its expense gets one when money changed; its id is a
\* reference the row inserted must be able to make.
BookMissing(c, money, pay) ==
  IF money
  THEN /\ c \in KeptCoins
       /\ \E e \in Expenses :
            /\ expense[e].is = "unborn"
            /\ expense' = [expense EXCEPT ![e] =
                 [is |-> "kept", kind |-> "purchase", coin |-> c,
                  item |-> coin[c].item, pay |-> Booking(pay)]]
  ELSE UNCHANGED expense

CommitUpdate(r) ==
  /\ req[r].op = "update"
  /\ req[r].todo = {}
  /\ \E c \in req[r].coins :
       /\ req[r].pay # req[r].loaded => c \in KeptCoins
       /\ coin' = [coin EXCEPT ![c] = [coin[c] EXCEPT !.pay =
                     Written(req[r].loaded, req[r].pay, coin[c].pay)]]
       /\ IF req[r].rows = {}
          THEN BookMissing(c, req[r].money, req[r].pay)
          ELSE \E e \in req[r].rows : Sync(e, req[r].pay, req[r].entry)
  /\ Finish(r)
  /\ UNCHANGED <<items, archived>>

\* Rows are deleted and what still refers to them is detached (SET NULL).
Delete(coins, rows, gone) ==
  /\ coin' = [c \in Coins |-> IF c \in coins THEN NoCoin("deleted") ELSE coin[c]]
  /\ expense' = [e \in Expenses |->
       IF e \in rows THEN NoExpense("deleted")
       ELSE [expense[e] EXCEPT
               !.coin = IF expense[e].coin \in coins THEN Null ELSE expense[e].coin,
               !.item = IF expense[e].item \in gone THEN Null ELSE expense[e].item]]
  /\ items' = [x \in Items |-> IF x \in gone THEN "deleted" ELSE items[x]]

\* Mutant of CommitDelete: the purchase expense is left to SET NULL.
CommitDeleteOnlyCoin(r) ==
  /\ req[r].op = "delete"
  /\ req[r].todo = {}
  /\ Delete(req[r].coins, {}, {})
  /\ Finish(r)
  /\ UNCHANGED archived

CommitDelete(r) ==
  /\ req[r].op = "delete"
  /\ req[r].todo = {}
  /\ Delete(req[r].coins, req[r].rows, {})
  /\ Finish(r)
  /\ UNCHANGED archived

-----------------------------------------------------------------------------
(***************************************************************************)
(* Expenses entered by hand, and supporting ones edited or removed.        *)
(***************************************************************************)
StartAdd(r, x) ==
  /\ x \in KeptItems \union {Null}
  /\ Begin(r, [Idle EXCEPT !.op = "add", !.item = x])
  /\ UNCHANGED tables

CommitAdd(r, e) ==
  /\ req[r].op = "add"
  /\ req[r].item \in KeptItems \union {Null}
  /\ expense[e].is = "unborn"
  /\ expense' = [expense EXCEPT ![e] =
       [NoExpense("kept") EXCEPT !.item = req[r].item]]
  /\ Finish(r)
  /\ UNCHANGED <<items, archived, coin>>

\* _get_editable refuses the purchase expense of a coin.
Editable(e) == e \in KeptExpenses /\ expense[e].kind = "supporting"

StartEdit(r, e, x) ==
  /\ Editable(e)
  /\ x \in KeptItems \union {Null}
  /\ x # expense[e].item
  /\ Begin(r, [Idle EXCEPT !.op = "edit", !.rows = {e}, !.item = x])
  /\ UNCHANGED tables

CommitEdit(r) ==
  /\ req[r].op = "edit"
  /\ req[r].item \in KeptItems \union {Null}
  /\ \E e \in req[r].rows :
       /\ e \in KeptExpenses
       /\ expense' = [expense EXCEPT ![e] = [expense[e] EXCEPT !.item = req[r].item]]
  /\ Finish(r)
  /\ UNCHANGED <<items, archived, coin>>

StartRemove(r, e) ==
  /\ Editable(e)
  /\ Begin(r, [Idle EXCEPT !.op = "remove", !.rows = {e}])
  /\ UNCHANGED tables

CommitRemove(r) ==
  /\ req[r].op = "remove"
  /\ Delete({}, req[r].rows, {})
  /\ Finish(r)
  /\ UNCHANGED archived

-----------------------------------------------------------------------------
(***************************************************************************)
(* DELETE /catalog/{id}, archiving                                         *)
(***************************************************************************)

\* POST /catalog by a user
CreatePersonal(x) ==
  /\ x \in Personal
  /\ items[x] = "unborn"
  /\ items' = [items EXCEPT ![x] = "kept"]
  /\ UNCHANGED <<archived, coin, expense, req>>

Archive(x) ==
  /\ x \in KeptItems \ (Personal \union archived)
  /\ archived' = archived \union {x}
  /\ UNCHANGED <<items, coin, expense, req>>

Unarchive(x) ==
  /\ x \in KeptItems \intersect archived
  /\ archived' = archived \ {x}
  /\ UNCHANGED <<items, coin, expense, req>>

\* The author's coins on the item are listed, then the expense of each.
StartDeletePersonal(r, x) ==
  /\ x \in KeptItems \intersect Personal
  /\ Begin(r, [Idle EXCEPT !.op = "deletePersonal", !.item = x,
                           !.coins = CoinsOf(x), !.todo = CoinsOf(x)])
  /\ UNCHANGED tables

\* A coin bought since the list was read keeps the item (NO ACTION).
CommitDeletePersonal(r) ==
  /\ req[r].op = "deletePersonal"
  /\ req[r].todo = {}
  /\ CoinsOf(req[r].item) \subseteq req[r].coins
  /\ Delete(req[r].coins, req[r].rows, {req[r].item})
  /\ Finish(r)
  /\ UNCHANGED archived

StartDeleteShared(r, x) ==
  /\ x \in KeptItems \intersect archived
  /\ Begin(r, [Idle EXCEPT !.op = "countCoins", !.item = x])
  /\ UNCHANGED tables

\* count_references is two statements.
CountCoins(r) ==
  /\ req[r].op = "countCoins"
  /\ req' = [req EXCEPT ![r] =
               IF CoinsOf(req[r].item) = {}
               THEN [req[r] EXCEPT !.op = "countExpenses"] ELSE Idle]
  /\ UNCHANGED tables

CountExpenses(r) ==
  /\ req[r].op = "countExpenses"
  /\ req' = [req EXCEPT ![r] =
               IF \E e \in KeptExpenses : expense[e].item = req[r].item
               THEN Idle ELSE [req[r] EXCEPT !.op = "deleteShared"]]
  /\ UNCHANGED tables

CommitDeleteShared(r) ==
  /\ req[r].op = "deleteShared"
  /\ CoinsOf(req[r].item) = {}
  /\ Delete({}, {}, {req[r].item})
  /\ archived' = archived \ {req[r].item}
  /\ Finish(r)

-----------------------------------------------------------------------------
\* A constraint, a row that has gone, a deadlock or a lost connection.
Abort(r) ==
  /\ req[r] # Idle
  /\ Finish(r)
  /\ UNCHANGED tables

Payments == {Paid(p, q, d) : p \in Prices, q \in Quantities, d \in Dates}

CoinStep(r) ==
  \/ \E x \in Items, pay \in Payments : StartBuy(r, x, pay)
  \/ \E c \in Coins, e \in Expenses, extras \in SUBSET Expenses :
       CommitBuy(r, c, e, extras)
  \/ \E c \in Coins :
       \/ StartDelete(r, c)
       \/ StartUpdate(r, c, FALSE, coin[c].pay)
       \/ \E pay \in Payments : StartUpdate(r, c, TRUE, pay)
  \/ ReadExpense(r)
  \/ CommitUpdate(r)
  \/ CommitDelete(r)

ExpenseStep(r) ==
  \/ \E x \in Items \union {Null} : StartAdd(r, x)
  \/ \E e \in Expenses :
       \/ CommitAdd(r, e)
       \/ StartRemove(r, e)
       \/ \E x \in Items \union {Null} : StartEdit(r, e, x)
  \/ CommitEdit(r)
  \/ CommitRemove(r)

ItemStep(r) ==
  \/ \E x \in Items : StartDeletePersonal(r, x) \/ StartDeleteShared(r, x)
  \/ CommitDeletePersonal(r)
  \/ CountCoins(r)
  \/ CountExpenses(r)
  \/ CommitDeleteShared(r)

Next ==
  \/ \E r \in Requests :
       CoinStep(r) \/ ExpenseStep(r) \/ ItemStep(r) \/ Abort(r)
  \/ \E x \in Items :
       \/ CreatePersonal(x) \/ Archive(x) \/ Unarchive(x)
       \/ \E c \in Coins, e \in Expenses, extras \in SUBSET Expenses,
             pay \in Payments : BuyNew(x, c, e, extras, pay)

Spec == Init /\ [][Next]_vars

-----------------------------------------------------------------------------
(***************************************************************************)
(* Properties                                                              *)
(***************************************************************************)

\* A coin kept has exactly one purchase expense, booked to the same catalog
\* item, and there is no purchase expense without its coin, whatever requests
\* buy, edit and delete at once: spend counts every coin once and none that is
\* gone (create, update, delete, _delete_personal).
Booked ==
  /\ \A c \in KeptCoins :
       \E e \in PurchaseOf(c) :
         /\ PurchaseOf(c) = {e}
         /\ expense[e].item = coin[c].item
  /\ \A e \in KeptExpenses :
       expense[e].kind = "purchase" => expense[e].coin \in KeptCoins

\* What the foreign keys keep: nobody refers to a row that has gone.
References ==
  /\ \A c \in KeptCoins : coin[c].item \in KeptItems
  /\ \A e \in KeptExpenses :
       /\ expense[e].coin \in KeptCoins \union {Null}
       /\ expense[e].item \in KeptItems \union {Null}

\* The purchase expense a request has found is that of one of its coins, for as
\* long as there is one; a request that found none has a coin that is gone.
Found ==
  \A r \in Requests :
    /\ req[r].todo \subseteq req[r].coins
    /\ \A c \in req[r].coins : coin[c].is # "unborn"
    /\ \A e \in req[r].rows : expense[e].is # "unborn"
    /\ req[r].op \in {"update", "delete", "deletePersonal"} =>
         /\ \A e \in req[r].rows \intersect KeptExpenses :
              \E c \in req[r].coins \ req[r].todo : e \in PurchaseOf(c)
         /\ \A c \in (req[r].coins \ req[r].todo) \intersect KeptCoins :
              PurchaseOf(c) \subseteq req[r].rows
    /\ req[r].op \in {"deletePersonal", "countCoins", "countExpenses",
                      "deleteShared"} => req[r].item \in Items
    /\ req[r].op \in {"edit", "remove"} =>
         \A e \in req[r].rows \intersect KeptExpenses :
           expense[e].kind = "supporting"

IInv == TypeOK /\ Booked /\ References /\ Found

\* Only the user's own removal takes a supporting expense away; when its coin
\* or its catalog item goes it stays in the journal, detached (BR-4, BR-10).
SupportingSurvive ==
  [][\A e \in KeptExpenses :
       expense[e].kind = "supporting" =>
         \/ expense'[e].is = "kept" /\ expense'[e].kind = "supporting"
         \/ \E r \in Requests : CommitRemove(r) /\ e \in req[r].rows]_vars

Agrees(c) ==
  \A e \in PurchaseOf(c) :
    /\ expense[e].pay["amount"] = coin[c].pay["price"] * coin[c].pay["quantity"]
    /\ expense[e].pay["date"] = coin[c].pay["date"]
    /\ expense[e].pay["rate"] = coin[c].pay["rate"]

\* A PATCH whose two rows nobody changed since it read them leaves amount, date
\* and rate agreeing, even when they did not before (_sync_expense).
UpdateHeals ==
  [][\A r \in Requests, c \in KeptCoins :
       /\ CommitUpdate(r)
       /\ req[r].coins = {c}
       /\ req[r].loaded = coin[c].pay
       /\ \A e \in PurchaseOf(c) : expense[e].pay = req[r].entry
       => Agrees(c)']_vars

(***************************************************************************)
(* What the documentation promises and the code does not keep.             *)
(***************************************************************************)

\* docs/business-rules.md, BR-4: amount "unit price * quantity".
AmountAgrees == \A c \in KeptCoins : Agrees(c)

\* BR-10, "All conditions at once": a shared record is deleted when it is
\* "already archived" and "no collection_items or expenses reference it".
DeletesUnusedArchive ==
  [][\A r \in Requests :
       CommitDeleteShared(r) /\ req[r].item \in KeptItems =>
         /\ req[r].item \in archived
         /\ \A e \in KeptExpenses : expense[e].item # req[r].item]_vars
=============================================================================
