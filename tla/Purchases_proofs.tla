--------------------------- MODULE Purchases_proofs ---------------------------
(***************************************************************************)
(* Proofs about Purchases, for any number of coins, expenses, items, terms *)
(* of purchase and concurrent requests.                                    *)
(***************************************************************************)
EXTENDS Purchases, TLAPS

USE PersonalAssumption, NullAssumption

-----------------------------------------------------------------------------
(* Type correctness of rows and requests. *)

LEMMA PayTyped ==
  /\ NoCoinPay \in CoinPay
  /\ NoExpensePay \in ExpensePay
  /\ \A pay \in CoinPay : Booking(pay) \in ExpensePay
<1>1. NoCoinPay \in CoinPay
  BY DEF NoCoinPay, CoinPay
<1>2. NoExpensePay \in ExpensePay
  BY DEF NoExpensePay, ExpensePay
<1>3. ASSUME NEW pay \in CoinPay
      PROVE  Booking(pay) \in ExpensePay
  <2>1. /\ pay["price"] \in Nat /\ pay["quantity"] \in Nat
        /\ pay["date"] \in Nat /\ pay["rate"] \in Nat
    BY DEF CoinPay, CoinColumns
  <2>2. pay["price"] * pay["quantity"] \in Nat
    BY <2>1
  <2>3. QED
    BY <2>1, <2>2 DEF Booking, ExpensePay, ExpenseColumns
<1>4. QED
  BY <1>1, <1>2, <1>3

LEMMA PaymentsTyped == Payments \subseteq CoinPay
<1> SUFFICES ASSUME NEW p \in Prices, NEW q \in Quantities, NEW d \in Dates
             PROVE  Paid(p, q, d) \in CoinPay
  BY DEF Payments
<1>1. p \in Nat /\ q \in Nat /\ d \in Nat /\ RateOn[d] \in Nat
  BY MoneyAssumption
<1>2. QED
  BY <1>1 DEF Paid, CoinPay, CoinColumns

\* A row updated keeps its type.
LEMMA WrittenTyped ==
  /\ \A a, b, c \in CoinPay : Written(a, b, c) \in CoinPay
  /\ \A a, b, c \in ExpensePay : Written(a, b, c) \in ExpensePay
  BY DEF Written, CoinPay, ExpensePay

LEMMA NoRowTyped ==
  ASSUME NEW is \in Life
  PROVE  /\ NoCoin(is) \in CoinRow
         /\ NoExpense(is) \in ExpenseRow
  BY PayTyped DEF NoCoin, NoExpense, CoinRow, ExpenseRow

LEMMA RowFields ==
  /\ \A row \in CoinRow, pay \in CoinPay : [row EXCEPT !.pay = pay] \in CoinRow
  /\ \A row \in ExpenseRow, pay \in ExpensePay :
       [row EXCEPT !.pay = pay] \in ExpenseRow
  /\ \A row \in ExpenseRow, x \in Items \union {Null} :
       [row EXCEPT !.item = x] \in ExpenseRow
  /\ \A row \in ExpenseRow, c \in Coins \union {Null}, x \in Items \union {Null} :
       [row EXCEPT !.coin = c, !.item = x] \in ExpenseRow
  BY DEF CoinRow, ExpenseRow

LEMMA IdleTyped == Idle \in Request
  BY PayTyped DEF Idle, Request

-----------------------------------------------------------------------------
(* Requests that have read rows. *)

\* What a request's record says of the tables.
Sound(x) ==
  /\ x.todo \subseteq x.coins
  /\ \A c \in x.coins : coin[c].is # "unborn"
  /\ \A e \in x.rows : expense[e].is # "unborn"
  /\ x.op \in {"update", "delete", "deletePersonal"} =>
       /\ \A e \in x.rows \intersect KeptExpenses :
            \E c \in x.coins \ x.todo : e \in PurchaseOf(c)
       /\ \A c \in (x.coins \ x.todo) \intersect KeptCoins :
            PurchaseOf(c) \subseteq x.rows
  /\ x.op \in {"deletePersonal", "countCoins", "countExpenses", "deleteShared"} =>
       x.item \in Items
  /\ x.op \in {"edit", "remove"} =>
       \A e \in x.rows \intersect KeptExpenses : expense[e].kind = "supporting"

LEMMA FoundIsSound == Found <=> \A r \in Requests : Sound(req[r])
  BY DEF Found, Sound

LEMMA IdleSound == Sound(Idle)
  BY DEF Sound, Idle

\* A step that only writes one request.
LEMMA QuietStep ==
  ASSUME IInv, NEW r \in Requests, NEW x \in Request, Sound(x),
         req' = [req EXCEPT ![r] = x], UNCHANGED tables
  PROVE  IInv'
<1>1. TypeOK'
  BY DEF IInv, TypeOK, tables
<1>2. Booked' /\ References'
  BY DEF IInv, Booked, References, tables, KeptCoins, KeptExpenses, KeptItems,
         PurchaseOf
<1>3. Found'
  <2> SUFFICES ASSUME NEW q \in Requests
               PROVE  Sound(req[q])'
    BY DEF Found, Sound
  <2>1. Sound(req'[q])
    BY FoundIsSound DEF IInv, TypeOK
  <2>2. QED
    BY <2>1 DEF Sound, tables, KeptCoins, KeptExpenses, PurchaseOf
<1>4. QED
  BY <1>1, <1>2, <1>3 DEF IInv

\* A step that writes the tables ends its own request and no other.
Ends == \A q \in Requests : req'[q] \in {req[q], Idle}

LEMMA FinishEnds ==
  ASSUME TypeOK, NEW r \in Requests, Finish(r)
  PROVE  Ends /\ req' \in [Requests -> Request]
  BY IdleTyped DEF Ends, Finish, TypeOK

LEMMA FoundStep ==
  ASSUME IInv, Ends, \A x \in Request : Sound(x) => Sound(x)'
  PROVE  Found'
<1> SUFFICES ASSUME NEW q \in Requests
             PROVE  Sound(req[q])'
  BY DEF Found, Sound
<1>1. req[q] \in Request /\ Sound(req[q])
  BY FoundIsSound DEF IInv, TypeOK
<1>2. CASE req'[q] = req[q]
  BY <1>1, <1>2 DEF Sound
<1>3. CASE req'[q] = Idle
  BY <1>3 DEF Sound, Idle
<1>4. QED
  BY <1>2, <1>3 DEF Ends

-----------------------------------------------------------------------------
(* The steps that write tables. *)

\* A purchase: fresh ids, so no request knows of them.
LEMMA PurchaseKeeps ==
  ASSUME IInv, NEW c \in Coins, NEW e \in Expenses, NEW extras \in SUBSET Expenses,
         NEW x \in Items, NEW pay \in CoinPay, Purchase(c, e, extras, x, pay),
         x \in KeptItems', KeptItems \subseteq KeptItems',
         items' \in [Items -> Life], UNCHANGED archived,
         Ends, req' \in [Requests -> Request]
  PROVE  IInv'
<1>1. TypeOK'
  <2>1. [is |-> "kept", item |-> x, pay |-> pay] \in CoinRow
    BY DEF CoinRow, Life
  <2>2. /\ [is |-> "kept", kind |-> "purchase", coin |-> c, item |-> x,
            pay |-> Booking(pay)] \in ExpenseRow
        /\ [is |-> "kept", kind |-> "supporting", coin |-> c, item |-> x,
            pay |-> NoExpensePay] \in ExpenseRow
    BY PayTyped DEF ExpenseRow, Life
  <2>3. coin' \in [Coins -> CoinRow]
    BY <2>1 DEF Purchase, IInv, TypeOK
  <2>4. expense' \in [Expenses -> ExpenseRow]
    BY <2>2 DEF Purchase, IInv, TypeOK
  <2>5. QED
    BY <2>3, <2>4 DEF IInv, TypeOK
<1>2. /\ coin[c].is = "unborn"
      /\ coin'[c].is = "kept" /\ coin'[c].item = x
      /\ \A d \in Coins \ {c} : coin'[d] = coin[d]
  BY DEF Purchase, IInv, TypeOK
<1>3. /\ \A f \in extras \union {e} : expense[f].is = "unborn"
      /\ \A f \in extras \union {e} :
           /\ expense'[f].is = "kept" /\ expense'[f].coin = c
           /\ expense'[f].item = x
           /\ expense'[f].kind = "purchase" <=> f = e
      /\ \A f \in Expenses \ (extras \union {e}) : expense'[f] = expense[f]
  BY DEF Purchase
<1>4. /\ KeptCoins' = KeptCoins \union {c} /\ c \notin KeptCoins
      /\ KeptExpenses' = KeptExpenses \union extras \union {e}
      /\ (extras \union {e}) \intersect KeptExpenses = {}
  BY <1>2, <1>3 DEF KeptCoins, KeptExpenses
<1>5. ASSUME NEW d \in Coins \ {c}
      PROVE  PurchaseOf(d)' = PurchaseOf(d)
  <2>1. ASSUME NEW f \in Expenses
        PROVE  f \in PurchaseOf(d)' <=> f \in PurchaseOf(d)
    <3>1. CASE f \in extras \union {e}
      BY <1>3, <1>4, <3>1 DEF PurchaseOf
    <3>2. CASE f \notin extras \union {e}
      BY <1>3, <3>2 DEF PurchaseOf, KeptExpenses
    <3>3. QED
      BY <3>1, <3>2
  <2>2. PurchaseOf(d) \subseteq Expenses /\ PurchaseOf(d)' \subseteq Expenses
    BY DEF PurchaseOf, KeptExpenses
  <2>3. QED
    BY <2>1, <2>2
<1>6. \A f \in KeptExpenses : expense[f].coin # c
  BY <1>4 DEF IInv, References
<1>7. PurchaseOf(c)' = {e}
  <2>1. ASSUME NEW f \in Expenses
        PROVE  f \in PurchaseOf(c)' <=> f = e
    <3>1. CASE f \in extras \union {e}
      BY <1>3, <1>4, <3>1 DEF PurchaseOf
    <3>2. CASE f \notin extras \union {e}
      BY <1>3, <1>6, <3>2 DEF PurchaseOf, KeptExpenses
    <3>3. QED
      BY <3>1, <3>2
  <2>2. PurchaseOf(c)' \subseteq Expenses
    BY DEF PurchaseOf, KeptExpenses
  <2>3. QED
    BY <2>1, <2>2
<1>8. Booked'
  <2>1. ASSUME NEW d \in KeptCoins'
        PROVE  \E f \in PurchaseOf(d)' :
                 PurchaseOf(d)' = {f} /\ expense'[f].item = coin'[d].item
    <3>1. CASE d = c
      BY <1>2, <1>3, <1>7, <3>1
    <3>2. CASE d # c
      <4>1. d \in KeptCoins
        BY <1>4, <3>2
      <4>2. PICK f \in PurchaseOf(d) :
              PurchaseOf(d) = {f} /\ expense[f].item = coin[d].item
        BY <4>1 DEF IInv, Booked
      <4>3. f \in KeptExpenses
        BY <4>2 DEF PurchaseOf
      <4>4. expense'[f] = expense[f] /\ coin'[d] = coin[d]
        BY <1>2, <1>3, <1>4, <3>2, <4>1, <4>3 DEF KeptCoins, KeptExpenses
      <4>5. PurchaseOf(d)' = PurchaseOf(d)
        BY <1>5, <3>2, <4>1 DEF KeptCoins
      <4>6. QED
        BY <4>2, <4>4, <4>5
    <3>3. QED
      BY <3>1, <3>2
  <2>2. ASSUME NEW f \in KeptExpenses', expense'[f].kind = "purchase"
        PROVE  expense'[f].coin \in KeptCoins'
    <3>1. CASE f \in extras \union {e}
      BY <1>3, <1>4, <3>1
    <3>2. CASE f \notin extras \union {e}
      <4>1. f \in KeptExpenses /\ expense'[f] = expense[f]
        BY <1>3, <1>4, <3>2 DEF KeptExpenses
      <4>2. QED
        BY <1>4, <2>2, <4>1 DEF IInv, Booked
    <3>3. QED
      BY <3>1, <3>2
  <2>3. QED
    BY <2>1, <2>2 DEF Booked
<1>9. References'
  <2>1. ASSUME NEW d \in KeptCoins'
        PROVE  coin'[d].item \in KeptItems'
    <3>1. CASE d = c
      BY <1>2, <3>1
    <3>2. CASE d # c
      <4>1. d \in KeptCoins /\ coin'[d] = coin[d]
        BY <1>2, <1>4, <3>2 DEF KeptCoins
      <4>2. QED
        BY <4>1 DEF IInv, References
    <3>3. QED
      BY <3>1, <3>2
  <2>2. ASSUME NEW f \in KeptExpenses'
        PROVE  /\ expense'[f].coin \in KeptCoins' \union {Null}
               /\ expense'[f].item \in KeptItems' \union {Null}
    <3>1. CASE f \in extras \union {e}
      BY <1>3, <1>4, <3>1
    <3>2. CASE f \notin extras \union {e}
      <4>1. f \in KeptExpenses /\ expense'[f] = expense[f]
        BY <1>3, <1>4, <3>2 DEF KeptExpenses
      <4>2. QED
        BY <1>4, <4>1 DEF IInv, References
    <3>3. QED
      BY <3>1, <3>2
  <2>3. QED
    BY <2>1, <2>2 DEF References
<1>10. ASSUME NEW y \in Request, Sound(y)
       PROVE  Sound(y)'
  <2>1. y.coins \subseteq Coins /\ y.rows \subseteq Expenses
    BY DEF Request
  <2>2. c \notin y.coins /\ y.rows \intersect (extras \union {e}) = {}
    BY <1>2, <1>3, <1>10 DEF Sound
  <2>3. /\ \A d \in y.coins : coin'[d] = coin[d] /\ PurchaseOf(d)' = PurchaseOf(d)
        /\ \A f \in y.rows : expense'[f] = expense[f]
    BY <1>2, <1>3, <1>5, <2>1, <2>2
  <2>4. /\ y.rows \intersect KeptExpenses' = y.rows \intersect KeptExpenses
        /\ y.coins \intersect KeptCoins' = y.coins \intersect KeptCoins
    BY <1>4, <2>2
  <2>5. QED
    BY <1>10, <2>3, <2>4 DEF Sound
<1>11. Found'
  BY <1>10, FoundStep
<1>12. QED
  BY <1>1, <1>8, <1>9, <1>11 DEF IInv

\* A deletion that takes with its coins their purchase expenses and no other,
\* and no item whose coins stay.
LEMMA DeleteKeeps ==
  ASSUME IInv, NEW coins \in SUBSET Coins, NEW rows \in SUBSET Expenses,
         NEW gone \in SUBSET Items, Delete(coins, rows, gone),
         \A c \in coins : coin[c].is # "unborn" /\ PurchaseOf(c) \subseteq rows,
         \A e \in rows : expense[e].is # "unborn",
         \A e \in rows \intersect KeptExpenses :
           expense[e].kind = "purchase" => expense[e].coin \in coins,
         \A x \in gone : CoinsOf(x) \subseteq coins,
         archived' \subseteq Items, Ends, req' \in [Requests -> Request]
  PROVE  IInv'
<1>1. TypeOK'
  <2>1. coin' \in [Coins -> CoinRow]
    BY NoRowTyped DEF Delete, IInv, TypeOK, Life
  <2>2. ASSUME NEW e \in Expenses
        PROVE  expense'[e] \in ExpenseRow
    <3>1. expense[e] \in ExpenseRow
      BY DEF IInv, TypeOK
    <3>2. /\ (IF expense[e].coin \in coins THEN Null ELSE expense[e].coin)
               \in Coins \union {Null}
          /\ (IF expense[e].item \in gone THEN Null ELSE expense[e].item)
               \in Items \union {Null}
      BY <3>1 DEF ExpenseRow
    <3>3. QED
      BY <3>1, <3>2, RowFields, NoRowTyped DEF Delete, Life
  <2>3. expense' \in [Expenses -> ExpenseRow]
    BY <2>2 DEF Delete
  <2>4. items' \in [Items -> Life]
    BY DEF Delete, IInv, TypeOK, Life
  <2>5. QED
    BY <2>1, <2>3, <2>4 DEF TypeOK
<1>2. /\ \A c \in Coins \ coins : coin'[c] = coin[c]
      /\ \A c \in coins : coin'[c].is = "deleted"
      /\ KeptCoins' = KeptCoins \ coins
  BY DEF Delete, KeptCoins, NoCoin
<1>3. /\ \A e \in rows : expense'[e].is = "deleted"
      /\ \A e \in Expenses \ rows :
           /\ expense'[e].is = expense[e].is
           /\ expense'[e].kind = expense[e].kind
           /\ expense'[e].coin =
                IF expense[e].coin \in coins THEN Null ELSE expense[e].coin
           /\ expense'[e].item =
                IF expense[e].item \in gone THEN Null ELSE expense[e].item
  <2>1. \A e \in rows : expense'[e].is = "deleted"
    BY DEF Delete, NoExpense
  <2>2. ASSUME NEW e \in Expenses \ rows
        PROVE  /\ expense'[e].is = expense[e].is
               /\ expense'[e].kind = expense[e].kind
               /\ expense'[e].coin =
                    IF expense[e].coin \in coins THEN Null ELSE expense[e].coin
               /\ expense'[e].item =
                    IF expense[e].item \in gone THEN Null ELSE expense[e].item
    <3>1. expense[e] \in ExpenseRow
      BY DEF IInv, TypeOK
    <3>2. QED
      BY <3>1 DEF Delete, ExpenseRow
  <2>3. QED
    BY <2>1, <2>2
<1>4. KeptExpenses' = KeptExpenses \ rows
  BY <1>3 DEF KeptExpenses
<1>5. KeptItems' = KeptItems \ gone
  BY DEF Delete, KeptItems
<1>6. \A e \in KeptExpenses' :
        expense[e].kind = "purchase" =>
          /\ expense[e].coin \in KeptCoins'
          /\ expense'[e].coin = expense[e].coin
  <2> SUFFICES ASSUME NEW e \in KeptExpenses', expense[e].kind = "purchase"
               PROVE  /\ expense[e].coin \in KeptCoins'
                      /\ expense'[e].coin = expense[e].coin
    OBVIOUS
  <2>1. e \in KeptExpenses /\ e \notin rows /\ e \in Expenses
    BY <1>4 DEF KeptExpenses
  <2>2. expense[e].coin \in KeptCoins
    BY <2>1 DEF IInv, Booked
  <2>3. expense[e].coin \notin coins
    BY <2>1 DEF PurchaseOf
  <2>4. QED
    BY <1>2, <1>3, <2>1, <2>2, <2>3
<1>7. \A c \in KeptCoins' : PurchaseOf(c)' = PurchaseOf(c)
  <2> SUFFICES ASSUME NEW c \in KeptCoins', NEW e
               PROVE  e \in PurchaseOf(c)' <=> e \in PurchaseOf(c)
    OBVIOUS
  <2>1. c \in KeptCoins /\ c \notin coins /\ c # Null
    BY <1>2 DEF KeptCoins
  <2>2. ASSUME e \in PurchaseOf(c)
        PROVE  e \in PurchaseOf(c)'
    <3>1. e \in KeptExpenses /\ expense[e].kind = "purchase" /\ expense[e].coin = c
      BY <2>2 DEF PurchaseOf
    <3>2. e \notin rows
      BY <2>1, <3>1
    <3>3. QED
      BY <1>3, <1>4, <1>6, <3>1, <3>2 DEF PurchaseOf, KeptExpenses
  <2>3. ASSUME e \in PurchaseOf(c)'
        PROVE  e \in PurchaseOf(c)
    BY <1>3, <1>4, <2>1, <2>3 DEF PurchaseOf, KeptExpenses
  <2>4. QED
    BY <2>2, <2>3
<1>8. Booked'
  <2>1. ASSUME NEW c \in KeptCoins'
        PROVE  \E f \in PurchaseOf(c)' :
                 PurchaseOf(c)' = {f} /\ expense'[f].item = coin'[c].item
    <3>1. c \in KeptCoins /\ c \notin coins /\ coin'[c] = coin[c]
      BY <1>2 DEF KeptCoins
    <3>2. PICK f \in PurchaseOf(c) :
            PurchaseOf(c) = {f} /\ expense[f].item = coin[c].item
      BY <3>1 DEF IInv, Booked
    <3>3. coin[c].item \notin gone
      BY <3>1 DEF CoinsOf
    <3>4. f \in PurchaseOf(c)'
      BY <1>7, <3>2
    <3>5. f \in Expenses \ rows
      BY <1>4, <3>4 DEF PurchaseOf, KeptExpenses
    <3>6. expense'[f].item = expense[f].item
      BY <1>3, <3>2, <3>3, <3>5
    <3>7. QED
      BY <1>7, <3>1, <3>2, <3>4, <3>6
  <2>2. ASSUME NEW e \in KeptExpenses', expense'[e].kind = "purchase"
        PROVE  expense'[e].coin \in KeptCoins'
    <3>1. e \in Expenses \ rows
      BY <1>4 DEF KeptExpenses
    <3>2. QED
      BY <1>3, <1>6, <2>2, <3>1
  <2>3. QED
    BY <2>1, <2>2 DEF Booked
<1>9. References'
  <2>1. ASSUME NEW c \in KeptCoins'
        PROVE  coin'[c].item \in KeptItems'
    <3>1. c \in KeptCoins /\ c \notin coins /\ coin'[c] = coin[c]
      BY <1>2 DEF KeptCoins
    <3>2. coin[c].item \notin gone
      BY <3>1 DEF CoinsOf
    <3>3. QED
      BY <1>5, <3>1, <3>2 DEF IInv, References
  <2>2. ASSUME NEW e \in KeptExpenses'
        PROVE  /\ expense'[e].coin \in KeptCoins' \union {Null}
               /\ expense'[e].item \in KeptItems' \union {Null}
    <3>1. e \in Expenses \ rows /\ e \in KeptExpenses
      BY <1>4 DEF KeptExpenses
    <3>2. QED
      BY <1>2, <1>3, <1>5, <3>1 DEF IInv, References
  <2>3. QED
    BY <2>1, <2>2 DEF References
<1>10. ASSUME NEW y \in Request, Sound(y)
       PROVE  Sound(y)'
  <2>1. y.coins \subseteq Coins /\ y.rows \subseteq Expenses
    BY DEF Request
  <2>2. /\ \A c \in y.coins : coin'[c].is # "unborn"
        /\ \A e \in y.rows : expense'[e].is # "unborn"
    BY <1>2, <1>3, <1>10, <2>1 DEF Sound
  <2>3. ASSUME y.op \in {"update", "delete", "deletePersonal"}
        PROVE  /\ \A e \in y.rows \intersect KeptExpenses' :
                    \E c \in y.coins \ y.todo : e \in PurchaseOf(c)'
               /\ \A c \in (y.coins \ y.todo) \intersect KeptCoins' :
                    PurchaseOf(c)' \subseteq y.rows
    <3>1. ASSUME NEW e \in y.rows \intersect KeptExpenses'
          PROVE  \E c \in y.coins \ y.todo : e \in PurchaseOf(c)'
      <4>1. PICK c \in y.coins \ y.todo : e \in PurchaseOf(c)
        BY <1>4, <1>10, <2>3, <3>1 DEF Sound
      <4>2. c \in KeptCoins'
        BY <1>6, <4>1 DEF PurchaseOf
      <4>3. QED
        BY <1>7, <4>1, <4>2
    <3>2. ASSUME NEW c \in (y.coins \ y.todo) \intersect KeptCoins'
          PROVE  PurchaseOf(c)' \subseteq y.rows
      BY <1>2, <1>7, <1>10, <2>3 DEF Sound
    <3>3. QED
      BY <3>1, <3>2
  <2>4. ASSUME y.op \in {"edit", "remove"}
        PROVE  \A e \in y.rows \intersect KeptExpenses' :
                 expense'[e].kind = "supporting"
    BY <1>3, <1>4, <1>10, <2>1, <2>4 DEF Sound
  <2>5. QED
    BY <1>10, <2>2, <2>3, <2>4 DEF Sound
<1>11. Found'
  BY <1>10, FoundStep
<1>12. QED
  BY <1>1, <1>8, <1>9, <1>11 DEF IInv

\* A step that changes columns only: of coins what was paid, of expenses also
\* the item, as long as they are no purchase.
LEMMA ColumnsKeep ==
  ASSUME IInv, TypeOK', UNCHANGED items, Ends,
         \A c \in Coins : coin'[c].is = coin[c].is /\ coin'[c].item = coin[c].item,
         \A e \in Expenses :
           /\ expense'[e].is = expense[e].is
           /\ expense'[e].kind = expense[e].kind
           /\ expense'[e].coin = expense[e].coin
           /\ \/ expense'[e].item = expense[e].item
              \/ /\ expense[e].kind = "supporting"
                 /\ expense'[e].item \in KeptItems \union {Null}
  PROVE  IInv'
<1>1. /\ KeptCoins' = KeptCoins /\ KeptExpenses' = KeptExpenses
      /\ KeptItems' = KeptItems
  BY DEF KeptCoins, KeptExpenses, KeptItems
<1>2. ASSUME NEW c
      PROVE  PurchaseOf(c)' = PurchaseOf(c)
  BY <1>1 DEF PurchaseOf, KeptExpenses
<1>3. Booked'
  <2>1. ASSUME NEW c \in KeptCoins
        PROVE  \E f \in PurchaseOf(c)' :
                 PurchaseOf(c)' = {f} /\ expense'[f].item = coin'[c].item
    <3>1. PICK f \in PurchaseOf(c) :
            PurchaseOf(c) = {f} /\ expense[f].item = coin[c].item
      BY DEF IInv, Booked
    <3>2. f \in Expenses /\ expense[f].kind = "purchase" /\ c \in Coins
      BY DEF PurchaseOf, KeptExpenses, KeptCoins
    <3>3. expense'[f].item = expense[f].item /\ coin'[c].item = coin[c].item
      BY <3>2
    <3>4. QED
      BY <1>2, <3>1, <3>3
  <2>2. \A e \in KeptExpenses :
          expense'[e].kind = "purchase" => expense'[e].coin \in KeptCoins
    BY DEF IInv, Booked, KeptExpenses
  <2>3. QED
    BY <1>1, <2>1, <2>2 DEF Booked
<1>4. References'
  <2>1. \A c \in KeptCoins : coin'[c].item \in KeptItems
    BY DEF IInv, References, KeptCoins
  <2>2. \A e \in KeptExpenses :
          /\ expense'[e].coin \in KeptCoins \union {Null}
          /\ expense'[e].item \in KeptItems \union {Null}
    BY DEF IInv, References, KeptExpenses
  <2>3. QED
    BY <1>1, <2>1, <2>2 DEF References
<1>5. ASSUME NEW y \in Request, Sound(y)
      PROVE  Sound(y)'
  <2>1. y.coins \subseteq Coins /\ y.rows \subseteq Expenses
    BY DEF Request
  <2>2. /\ \A c \in y.coins : coin'[c].is # "unborn"
        /\ \A e \in y.rows : expense'[e].is # "unborn"
    BY <1>5, <2>1 DEF Sound
  <2>3. y.op \in {"edit", "remove"} =>
          \A e \in y.rows \intersect KeptExpenses' : expense'[e].kind = "supporting"
    BY <1>1, <1>5, <2>1 DEF Sound
  <2>4. y.op \in {"update", "delete", "deletePersonal"} =>
          /\ \A e \in y.rows \intersect KeptExpenses' :
               \E c \in y.coins \ y.todo : e \in PurchaseOf(c)'
          /\ \A c \in (y.coins \ y.todo) \intersect KeptCoins' :
               PurchaseOf(c)' \subseteq y.rows
    BY <1>1, <1>2, <1>5 DEF Sound
  <2>5. QED
    BY <1>5, <2>2, <2>3, <2>4 DEF Sound
<1>6. Found'
  BY <1>5, FoundStep
<1>7. QED
  BY <1>3, <1>4, <1>6 DEF IInv

\* Items that appear, and marks of archived ones.
LEMMA ItemsKeep ==
  ASSUME IInv, items' \in [Items -> Life], KeptItems \subseteq KeptItems',
         archived' \subseteq Items, UNCHANGED <<coin, expense, req>>
  PROVE  IInv'
<1>1. TypeOK' /\ Booked'
  BY DEF IInv, TypeOK, Booked, KeptCoins, KeptExpenses, PurchaseOf
<1>2. References'
  BY DEF IInv, References, KeptCoins, KeptExpenses
<1>3. Found'
  BY DEF IInv, Found, KeptCoins, KeptExpenses, PurchaseOf
<1>4. QED
  BY <1>1, <1>2, <1>3 DEF IInv

\* An expense entered by hand has a fresh id and names no coin.
LEMMA AddKeeps ==
  ASSUME IInv, NEW r \in Requests, NEW e \in Expenses, CommitAdd(r, e)
  PROVE  IInv'
<1> DEFINE row == [NoExpense("kept") EXCEPT !.item = req[r].item]
<1>0. Ends /\ req' \in [Requests -> Request]
  BY FinishEnds DEF IInv, CommitAdd
<1>1. /\ row.is = "kept" /\ row.kind = "supporting" /\ row.coin = Null
      /\ row.item = req[r].item
  BY DEF NoExpense
<1>2. row \in ExpenseRow
  <2>1. req[r].item \in Items \union {Null}
    BY DEF CommitAdd, KeptItems
  <2>2. QED
    BY <2>1, RowFields, NoRowTyped DEF Life
<1>3. expense' = [expense EXCEPT ![e] = row] /\ expense[e].is = "unborn"
  BY DEF CommitAdd
<1>4. req[r].item \in KeptItems \union {Null} /\ UNCHANGED <<items, archived, coin>>
  BY DEF CommitAdd
<1> HIDE DEF row
<1>5. /\ expense'[e] = row
      /\ \A f \in Expenses \ {e} : expense'[f] = expense[f]
  BY <1>3 DEF IInv, TypeOK
<1>6. /\ KeptExpenses' = KeptExpenses \union {e} /\ e \notin KeptExpenses
      /\ KeptCoins' = KeptCoins /\ KeptItems' = KeptItems
  BY <1>1, <1>3, <1>4, <1>5 DEF KeptExpenses, KeptCoins, KeptItems
<1>7. ASSUME NEW c
      PROVE  PurchaseOf(c)' = PurchaseOf(c)
  <2>1. ASSUME NEW f
        PROVE  f \in PurchaseOf(c)' <=> f \in PurchaseOf(c)
    BY <1>1, <1>5, <1>6 DEF PurchaseOf, KeptExpenses
  <2>2. QED
    BY <2>1
<1>8. TypeOK'
  BY <1>0, <1>2, <1>3, <1>4 DEF IInv, TypeOK
<1>9. Booked'
  <2>1. \A c \in KeptCoins : PurchaseOf(c) \subseteq Expenses \ {e}
    BY <1>6 DEF PurchaseOf, KeptExpenses
  <2>2. ASSUME NEW c \in KeptCoins
        PROVE  \E f \in PurchaseOf(c)' :
                 PurchaseOf(c)' = {f} /\ expense'[f].item = coin'[c].item
    BY <1>4, <1>5, <1>7, <2>1 DEF IInv, Booked
  <2>3. ASSUME NEW f \in KeptExpenses', expense'[f].kind = "purchase"
        PROVE  expense'[f].coin \in KeptCoins
    BY <1>1, <1>5, <1>6, <2>3 DEF IInv, Booked, KeptExpenses
  <2>4. QED
    BY <1>6, <2>2, <2>3 DEF Booked
<1>10. References'
  <2>1. ASSUME NEW f \in KeptExpenses'
        PROVE  /\ expense'[f].coin \in KeptCoins \union {Null}
               /\ expense'[f].item \in KeptItems \union {Null}
    BY <1>1, <1>4, <1>5, <1>6 DEF IInv, References, KeptExpenses
  <2>2. QED
    BY <1>4, <1>6, <2>1 DEF IInv, References
<1>11. ASSUME NEW y \in Request, Sound(y)
       PROVE  Sound(y)'
  <2>1. y.rows \subseteq Expenses \ {e}
    BY <1>3, <1>11 DEF Sound, Request
  <2>2. /\ \A f \in y.rows : expense'[f] = expense[f]
        /\ y.rows \intersect KeptExpenses' = y.rows \intersect KeptExpenses
    BY <1>5, <1>6, <2>1
  <2>3. QED
    BY <1>4, <1>6, <1>7, <1>11, <2>2 DEF Sound
<1>12. Found'
  BY <1>0, <1>11, FoundStep
<1>13. QED
  BY <1>8, <1>9, <1>10, <1>12 DEF IInv

-----------------------------------------------------------------------------
(* The actions. *)

LEMMA StartTyped ==
  /\ \A x \in Items, pay \in CoinPay :
       [Idle EXCEPT !.op = "buy", !.item = x, !.pay = pay] \in Request
  /\ \A c \in Coins, money \in BOOLEAN, loaded, pay \in CoinPay :
       [Idle EXCEPT !.op = "update", !.coins = {c}, !.todo = {c},
                    !.money = money, !.loaded = loaded, !.pay = pay] \in Request
  /\ \A c \in Coins :
       [Idle EXCEPT !.op = "delete", !.coins = {c}, !.todo = {c}] \in Request
  /\ \A x \in Items \union {Null} : [Idle EXCEPT !.op = "add", !.item = x] \in Request
  /\ \A e \in Expenses, x \in Items \union {Null} :
       [Idle EXCEPT !.op = "edit", !.rows = {e}, !.item = x] \in Request
  /\ \A e \in Expenses : [Idle EXCEPT !.op = "remove", !.rows = {e}] \in Request
  /\ \A x \in Items, coins \in SUBSET Coins :
       [Idle EXCEPT !.op = "deletePersonal", !.item = x, !.coins = coins,
                    !.todo = coins] \in Request
  /\ \A x \in Items : [Idle EXCEPT !.op = "countCoins", !.item = x] \in Request
<1>1. \A x \in Items, pay \in CoinPay :
       [Idle EXCEPT !.op = "buy", !.item = x, !.pay = pay] \in Request
  BY PayTyped DEF Idle, Request
<1>2. \A c \in Coins, money \in BOOLEAN, loaded, pay \in CoinPay :
       [Idle EXCEPT !.op = "update", !.coins = {c}, !.todo = {c},
                    !.money = money, !.loaded = loaded, !.pay = pay] \in Request
  BY PayTyped DEF Idle, Request
<1>3. \A c \in Coins :
       [Idle EXCEPT !.op = "delete", !.coins = {c}, !.todo = {c}] \in Request
  BY PayTyped DEF Idle, Request
<1>4. \A x \in Items \union {Null} : [Idle EXCEPT !.op = "add", !.item = x] \in Request
  BY PayTyped DEF Idle, Request
<1>5. \A e \in Expenses, x \in Items \union {Null} :
       [Idle EXCEPT !.op = "edit", !.rows = {e}, !.item = x] \in Request
  BY PayTyped DEF Idle, Request
<1>6. \A e \in Expenses : [Idle EXCEPT !.op = "remove", !.rows = {e}] \in Request
  BY PayTyped DEF Idle, Request
<1>7. \A x \in Items, coins \in SUBSET Coins :
       [Idle EXCEPT !.op = "deletePersonal", !.item = x, !.coins = coins,
                    !.todo = coins] \in Request
  BY PayTyped DEF Idle, Request
<1>8. \A x \in Items : [Idle EXCEPT !.op = "countCoins", !.item = x] \in Request
  BY PayTyped DEF Idle, Request
<1>9. QED
  BY <1>1, <1>2, <1>3, <1>4, <1>5, <1>6, <1>7, <1>8

\* A request that begins has read rows that are there, and no expense yet but
\* the one the user edits or removes.
Starts(r) ==
  \/ \E x \in Items, pay \in Payments : StartBuy(r, x, pay)
  \/ \E c \in Coins :
       \/ StartDelete(r, c)
       \/ StartUpdate(r, c, FALSE, coin[c].pay)
       \/ \E pay \in Payments : StartUpdate(r, c, TRUE, pay)
  \/ \E x \in Items \union {Null} : StartAdd(r, x)
  \/ \E e \in Expenses :
       \/ StartRemove(r, e)
       \/ \E x \in Items \union {Null} : StartEdit(r, e, x)
  \/ \E x \in Items : StartDeletePersonal(r, x) \/ StartDeleteShared(r, x)

LEMMA BeginKeeps ==
  ASSUME IInv, NEW r \in Requests, NEW x \in Request, Sound(x),
         Begin(r, x), UNCHANGED tables
  PROVE  IInv'
  BY QuietStep DEF Begin

LEMMA StartsKeep ==
  ASSUME IInv, NEW r \in Requests, Starts(r)
  PROVE  IInv'
<1>1. ASSUME NEW x \in Items, NEW pay \in Payments, StartBuy(r, x, pay)
      PROVE  IInv'
  <2> DEFINE q == [Idle EXCEPT !.op = "buy", !.item = x, !.pay = pay]
  <2>1. q \in Request
    BY StartTyped, PaymentsTyped
  <2>2. Sound(q)
    BY DEF Sound, Idle
  <2>3. Begin(r, q) /\ UNCHANGED tables
    BY <1>1 DEF StartBuy
  <2> HIDE DEF q
  <2>4. QED
    BY <2>1, <2>2, <2>3, BeginKeeps
<1>2. ASSUME NEW c \in Coins, NEW money \in BOOLEAN, NEW pay \in CoinPay,
             StartUpdate(r, c, money, pay)
      PROVE  IInv'
  <2> DEFINE q == [Idle EXCEPT !.op = "update", !.coins = {c}, !.todo = {c},
                               !.money = money, !.loaded = coin[c].pay,
                               !.pay = pay]
  <2>1. coin[c].pay \in CoinPay
    BY DEF IInv, TypeOK, CoinRow
  <2>2. q \in Request
    BY <2>1, StartTyped
  <2>3. coin[c].is = "kept"
    BY <1>2 DEF StartUpdate, KeptCoins
  <2>4. Sound(q)
    BY <2>3 DEF Sound, Idle
  <2>5. Begin(r, q) /\ UNCHANGED tables
    BY <1>2 DEF StartUpdate
  <2> HIDE DEF q
  <2>6. QED
    BY <2>2, <2>4, <2>5, BeginKeeps
<1>3. ASSUME NEW c \in Coins, StartDelete(r, c)
      PROVE  IInv'
  <2> DEFINE q == [Idle EXCEPT !.op = "delete", !.coins = {c}, !.todo = {c}]
  <2>1. q \in Request
    BY StartTyped
  <2>2. Sound(q)
    BY <1>3 DEF Sound, Idle, StartDelete, KeptCoins
  <2>3. Begin(r, q) /\ UNCHANGED tables
    BY <1>3 DEF StartDelete
  <2> HIDE DEF q
  <2>4. QED
    BY <2>1, <2>2, <2>3, BeginKeeps
<1>4. ASSUME NEW x \in Items \union {Null}, StartAdd(r, x)
      PROVE  IInv'
  <2> DEFINE q == [Idle EXCEPT !.op = "add", !.item = x]
  <2>1. q \in Request
    BY StartTyped
  <2>2. Sound(q)
    BY DEF Sound, Idle
  <2>3. Begin(r, q) /\ UNCHANGED tables
    BY <1>4 DEF StartAdd
  <2> HIDE DEF q
  <2>4. QED
    BY <2>1, <2>2, <2>3, BeginKeeps
<1>5. ASSUME NEW e \in Expenses, NEW x \in Items \union {Null}, StartEdit(r, e, x)
      PROVE  IInv'
  <2> DEFINE q == [Idle EXCEPT !.op = "edit", !.rows = {e}, !.item = x]
  <2>1. q \in Request
    BY StartTyped
  <2>2. Sound(q)
    BY <1>5 DEF Sound, Idle, StartEdit, Editable, KeptExpenses
  <2>3. Begin(r, q) /\ UNCHANGED tables
    BY <1>5 DEF StartEdit
  <2> HIDE DEF q
  <2>4. QED
    BY <2>1, <2>2, <2>3, BeginKeeps
<1>6. ASSUME NEW e \in Expenses, StartRemove(r, e)
      PROVE  IInv'
  <2> DEFINE q == [Idle EXCEPT !.op = "remove", !.rows = {e}]
  <2>1. q \in Request
    BY StartTyped
  <2>2. Sound(q)
    BY <1>6 DEF Sound, Idle, StartRemove, Editable, KeptExpenses
  <2>3. Begin(r, q) /\ UNCHANGED tables
    BY <1>6 DEF StartRemove
  <2> HIDE DEF q
  <2>4. QED
    BY <2>1, <2>2, <2>3, BeginKeeps
<1>7. ASSUME NEW x \in Items, StartDeletePersonal(r, x)
      PROVE  IInv'
  <2> DEFINE q == [Idle EXCEPT !.op = "deletePersonal", !.item = x,
                               !.coins = CoinsOf(x), !.todo = CoinsOf(x)]
  <2>1. CoinsOf(x) \in SUBSET Coins
    BY DEF CoinsOf, KeptCoins
  <2>2. q \in Request
    BY <2>1, StartTyped
  <2>3. Sound(q)
    BY DEF Sound, Idle, CoinsOf, KeptCoins
  <2>4. Begin(r, q) /\ UNCHANGED tables
    BY <1>7 DEF StartDeletePersonal
  <2> HIDE DEF q
  <2>5. QED
    BY <2>2, <2>3, <2>4, BeginKeeps
<1>8. ASSUME NEW x \in Items, StartDeleteShared(r, x)
      PROVE  IInv'
  <2> DEFINE q == [Idle EXCEPT !.op = "countCoins", !.item = x]
  <2>1. q \in Request
    BY StartTyped
  <2>2. Sound(q)
    BY DEF Sound, Idle
  <2>3. Begin(r, q) /\ UNCHANGED tables
    BY <1>8 DEF StartDeleteShared
  <2> HIDE DEF q
  <2>4. QED
    BY <2>1, <2>2, <2>3, BeginKeeps
<1>9. \A c \in Coins : coin[c].pay \in CoinPay
  BY DEF IInv, TypeOK, CoinRow
<1>10. QED
  BY <1>1, <1>2, <1>3, <1>4, <1>5, <1>6, <1>7, <1>8, <1>9, PaymentsTyped DEF Starts

LEMMA FieldsTyped ==
  /\ \A q \in Request, t \in SUBSET Coins, rows \in SUBSET Expenses,
        pay \in ExpensePay :
       [q EXCEPT !.todo = t, !.rows = rows, !.entry = pay] \in Request
  /\ \A q \in Request, op \in {"countExpenses", "deleteShared"} :
       [q EXCEPT !.op = op] \in Request
  BY DEF Request

\* Having looked for a coin's purchase expense, a request has it if it is there.
LEMMA ReadKeeps ==
  ASSUME IInv, NEW r \in Requests, ReadExpense(r)
  PROVE  IInv'
<1> DEFINE old == req[r]
<1>1. old \in Request /\ Sound(old)
  BY FoundIsSound DEF IInv, TypeOK
<1>2. PICK c \in old.todo :
        \E rows \in IF PurchaseOf(c) = {} THEN {{}} ELSE {{e} : e \in PurchaseOf(c)} :
          req' = [req EXCEPT ![r] = [old EXCEPT
                    !.todo = old.todo \ {c},
                    !.rows = old.rows \union rows,
                    !.entry = IF old.op = "update" /\ rows # {}
                              THEN expense[CHOOSE e \in rows : TRUE].pay
                              ELSE old.entry]]
  BY DEF ReadExpense
<1>3. PICK rows \in IF PurchaseOf(c) = {} THEN {{}} ELSE {{e} : e \in PurchaseOf(c)} :
          req' = [req EXCEPT ![r] = [old EXCEPT
                    !.todo = old.todo \ {c},
                    !.rows = old.rows \union rows,
                    !.entry = IF old.op = "update" /\ rows # {}
                              THEN expense[CHOOSE e \in rows : TRUE].pay
                              ELSE old.entry]]
  BY <1>2
<1> DEFINE pay == IF old.op = "update" /\ rows # {}
                  THEN expense[CHOOSE e \in rows : TRUE].pay
                  ELSE old.entry
           new == [old EXCEPT !.todo = old.todo \ {c},
                              !.rows = old.rows \union rows, !.entry = pay]
<1>4. c \in Coins /\ old.todo \subseteq Coins /\ old.rows \subseteq Expenses
      /\ old.entry \in ExpensePay /\ old.coins \subseteq Coins
  BY <1>1, <1>2 DEF Request
<1>5. rows \subseteq PurchaseOf(c)
  BY <1>3
<1>6. PurchaseOf(c) \subseteq rows
  <2>1. CASE c \in KeptCoins
    <3>1. PICK e \in PurchaseOf(c) : PurchaseOf(c) = {e}
      BY <2>1 DEF IInv, Booked
    <3>2. QED
      BY <1>3, <3>1
  <2>2. CASE c \notin KeptCoins
    <3>1. PurchaseOf(c) = {}
      BY <2>2 DEF IInv, Booked, PurchaseOf
    <3>2. QED
      BY <3>1
  <2>3. QED
    BY <2>1, <2>2
<1>7. rows \subseteq KeptExpenses /\ rows \subseteq Expenses
  BY <1>5 DEF PurchaseOf, KeptExpenses
<1>8. pay \in ExpensePay
  <2>1. CASE old.op = "update" /\ rows # {}
    <3>1. (CHOOSE e \in rows : TRUE) \in Expenses
      BY <1>7, <2>1
    <3>2. QED
      BY <2>1, <3>1 DEF IInv, TypeOK, ExpenseRow
  <2>2. CASE ~ (old.op = "update" /\ rows # {})
    BY <1>4, <2>2
  <2>3. QED
    BY <2>1, <2>2
<1>9. req' = [req EXCEPT ![r] = new] /\ UNCHANGED tables
  BY <1>3 DEF ReadExpense
<1> HIDE DEF pay
<1>10. new \in Request
  BY <1>1, <1>4, <1>7, <1>8, FieldsTyped
<1>11. /\ new.op = old.op /\ new.coins = old.coins
       /\ new.todo = old.todo \ {c} /\ new.rows = old.rows \union rows
       /\ new.item = old.item
  BY <1>1 DEF Request
<1> HIDE DEF new
<1>12. Sound(new)
  <2>1. old.op \in {"update", "delete", "deletePersonal"}
    BY DEF ReadExpense
  <2>2. \A e \in new.rows : expense[e].is # "unborn"
    BY <1>1, <1>7, <1>11 DEF Sound, KeptExpenses
  <2>3. c \in old.coins
    BY <1>1, <1>2, <2>1 DEF Sound
  <2>4. ASSUME NEW e \in new.rows \intersect KeptExpenses
        PROVE  \E d \in new.coins \ new.todo : e \in PurchaseOf(d)
    <3>1. CASE e \in rows
      BY <1>5, <1>11, <2>3, <3>1
    <3>2. CASE e \in old.rows
      <4>1. PICK d \in old.coins \ old.todo : e \in PurchaseOf(d)
        BY <1>1, <2>1, <2>4, <3>2 DEF Sound
      <4>2. d \in new.coins \ new.todo
        BY <1>11, <4>1
      <4>3. QED
        BY <4>1, <4>2
    <3>3. QED
      BY <1>11, <2>4, <3>1, <3>2
  <2>5. ASSUME NEW d \in (new.coins \ new.todo) \intersect KeptCoins
        PROVE  PurchaseOf(d) \subseteq new.rows
    <3>1. CASE d = c
      BY <1>6, <1>11, <3>1
    <3>2. CASE d # c
      BY <1>1, <1>11, <2>1, <2>5, <3>2 DEF Sound
    <3>3. QED
      BY <3>1, <3>2
  <2>6. QED
    BY <1>1, <1>11, <2>1, <2>2, <2>4, <2>5 DEF Sound
<1>13. QED
  BY <1>9, <1>10, <1>12, QuietStep

LEMMA CountKeeps ==
  ASSUME IInv, NEW r \in Requests, CountCoins(r) \/ CountExpenses(r)
  PROVE  IInv'
<1> DEFINE old == req[r]
<1>1. old \in Request /\ Sound(old)
  BY FoundIsSound DEF IInv, TypeOK
<1>a. old.item \in Items
  BY <1>1 DEF Sound, CountCoins, CountExpenses
<1>2. \A op \in {"countExpenses", "deleteShared"} :
        /\ [old EXCEPT !.op = op] \in Request
        /\ Sound([old EXCEPT !.op = op])
  <2> TAKE op \in {"countExpenses", "deleteShared"}
  <2> DEFINE new == [old EXCEPT !.op = op]
  <2>1. /\ new.op = op /\ new.coins = old.coins /\ new.rows = old.rows
        /\ new.todo = old.todo /\ new.item = old.item
    BY <1>1 DEF Request
  <2>2. new \in Request
    BY <1>1, FieldsTyped
  <2> HIDE DEF new
  <2>3. Sound(new)
    BY <1>1, <1>a, <2>1 DEF Sound
  <2>4. QED
    BY <2>2, <2>3 DEF new
<1>3. UNCHANGED tables
  BY DEF CountCoins, CountExpenses
<1>4. \E x \in Request : Sound(x) /\ req' = [req EXCEPT ![r] = x]
  BY <1>2, IdleTyped, IdleSound DEF CountCoins, CountExpenses
<1>5. QED
  BY <1>3, <1>4, QuietStep

LEMMA CommitBuyKeeps ==
  ASSUME IInv, NEW r \in Requests, NEW c \in Coins, NEW e \in Expenses,
         NEW extras \in SUBSET Expenses, CommitBuy(r, c, e, extras)
  PROVE  IInv'
<1>1. req[r].pay \in CoinPay
  BY DEF IInv, TypeOK, Request
<1>2. req[r].item \in KeptItems /\ req[r].item \in Items /\ KeptItems' = KeptItems
  BY DEF CommitBuy, KeptItems
<1>3. Ends /\ req' \in [Requests -> Request]
  BY FinishEnds DEF IInv, CommitBuy
<1>4. QED
  BY <1>1, <1>2, <1>3, PurchaseKeeps DEF CommitBuy, IInv, TypeOK

LEMMA BuyNewKeeps ==
  ASSUME IInv, NEW x \in Items, NEW c \in Coins, NEW e \in Expenses,
         NEW extras \in SUBSET Expenses, NEW pay \in Payments,
         BuyNew(x, c, e, extras, pay)
  PROVE  IInv'
<1>1. pay \in CoinPay
  BY PaymentsTyped
<1>2. /\ items' \in [Items -> Life]
      /\ x \in KeptItems' /\ KeptItems \subseteq KeptItems'
  BY DEF BuyNew, IInv, TypeOK, Life, KeptItems
<1>3. Ends /\ req' \in [Requests -> Request]
  BY DEF BuyNew, Ends, IInv, TypeOK
<1>4. QED
  BY <1>1, <1>2, <1>3, PurchaseKeeps DEF BuyNew

LEMMA CommitUpdateKeeps ==
  ASSUME IInv, NEW r \in Requests, CommitUpdate(r)
  PROVE  IInv'
<1> DEFINE q == req[r]
<1>1. q \in Request /\ Sound(q) /\ q.op = "update" /\ q.todo = {}
  BY FoundIsSound DEF IInv, TypeOK, CommitUpdate
<1>2. PICK c \in q.coins :
        /\ coin' = [coin EXCEPT ![c] = [coin[c] EXCEPT !.pay =
                      Written(q.loaded, q.pay, coin[c].pay)]]
        /\ IF q.rows = {} THEN BookMissing(c, q.money, q.pay)
           ELSE \E e \in q.rows : Sync(e, q.pay, q.entry)
  BY DEF CommitUpdate
<1>3. /\ c \in Coins /\ q.rows \subseteq Expenses
      /\ q.loaded \in CoinPay /\ q.pay \in CoinPay /\ q.entry \in ExpensePay
  BY <1>1, <1>2 DEF Request
<1>4. coin[c] \in CoinRow /\ coin[c].pay \in CoinPay
  BY <1>3 DEF IInv, TypeOK, CoinRow
<1>5. coin' \in [Coins -> CoinRow]
  <2>1. [coin[c] EXCEPT !.pay = Written(q.loaded, q.pay, coin[c].pay)] \in CoinRow
    BY <1>3, <1>4, WrittenTyped, RowFields
  <2>2. QED
    BY <1>2, <1>3, <2>1 DEF IInv, TypeOK
<1>6. \A d \in Coins : coin'[d].is = coin[d].is /\ coin'[d].item = coin[d].item
  BY <1>2, <1>4 DEF IInv, TypeOK, CoinRow
<1>7. /\ expense' \in [Expenses -> ExpenseRow]
      /\ \A e \in Expenses :
           /\ expense'[e].is = expense[e].is
           /\ expense'[e].kind = expense[e].kind
           /\ expense'[e].coin = expense[e].coin
           /\ expense'[e].item = expense[e].item
  <2>1. CASE q.rows = {}
    <3>1. ASSUME c \in KeptCoins
          PROVE  FALSE
      BY <1>1, <1>2, <2>1, <3>1 DEF Sound, IInv, Booked
    <3>2. UNCHANGED expense
      BY <1>2, <2>1, <3>1 DEF BookMissing
    <3>3. QED
      BY <3>2 DEF IInv, TypeOK
  <2>2. CASE q.rows # {}
    <3>1. PICK e \in q.rows : Sync(e, q.pay, q.entry)
      BY <1>2, <2>2
    <3>2. e \in Expenses /\ expense[e] \in ExpenseRow /\ expense[e].pay \in ExpensePay
      BY <1>3, <3>1 DEF IInv, TypeOK, ExpenseRow
    <3>3. Written(q.entry, Booking(q.pay), expense[e].pay) \in ExpensePay
      BY <1>3, <3>2, PayTyped, WrittenTyped
    <3> DEFINE row == [expense[e] EXCEPT !.pay =
                         Written(q.entry, Booking(q.pay), expense[e].pay)]
    <3>4. expense' = [expense EXCEPT ![e] = row]
      BY <3>1 DEF Sync
    <3>5. /\ row \in ExpenseRow
          /\ row.is = expense[e].is /\ row.kind = expense[e].kind
          /\ row.coin = expense[e].coin /\ row.item = expense[e].item
      BY <3>2, <3>3, RowFields DEF ExpenseRow
    <3> HIDE DEF row
    <3>6. QED
      BY <3>2, <3>4, <3>5 DEF IInv, TypeOK
  <2>3. QED
    BY <2>1, <2>2
<1>8. Ends /\ req' \in [Requests -> Request]
  BY FinishEnds DEF IInv, CommitUpdate
<1>9. TypeOK' /\ UNCHANGED items
  BY <1>5, <1>7, <1>8 DEF IInv, TypeOK, CommitUpdate
<1>10. QED
  BY <1>6, <1>7, <1>8, <1>9, ColumnsKeep

LEMMA CommitEditKeeps ==
  ASSUME IInv, NEW r \in Requests, CommitEdit(r)
  PROVE  IInv'
<1> DEFINE x == req[r].item
<1>1. req[r] \in Request /\ Sound(req[r]) /\ req[r].op = "edit"
  BY FoundIsSound DEF IInv, TypeOK, CommitEdit
<1>2. PICK e \in req[r].rows :
        /\ e \in KeptExpenses
        /\ expense' = [expense EXCEPT ![e] = [expense[e] EXCEPT !.item = x]]
  BY DEF CommitEdit
<1>3. /\ e \in Expenses /\ expense[e] \in ExpenseRow
      /\ expense[e].kind = "supporting"
  BY <1>1, <1>2 DEF Sound, KeptExpenses, IInv, TypeOK
<1>4. x \in KeptItems \union {Null} /\ x \in Items \union {Null}
  BY DEF CommitEdit, KeptItems
<1> DEFINE row == [expense[e] EXCEPT !.item = x]
<1>5. /\ row \in ExpenseRow
      /\ row.is = expense[e].is /\ row.kind = expense[e].kind
      /\ row.coin = expense[e].coin /\ row.item = x
  BY <1>3, <1>4, RowFields DEF ExpenseRow
<1>6. expense' = [expense EXCEPT ![e] = row]
  BY <1>2
<1> HIDE DEF row, x
<1>7. /\ expense' \in [Expenses -> ExpenseRow]
      /\ \A f \in Expenses :
           /\ expense'[f].is = expense[f].is
           /\ expense'[f].kind = expense[f].kind
           /\ expense'[f].coin = expense[f].coin
           /\ \/ expense'[f].item = expense[f].item
              \/ /\ expense[f].kind = "supporting"
                 /\ expense'[f].item \in KeptItems \union {Null}
  BY <1>3, <1>4, <1>5, <1>6 DEF IInv, TypeOK
<1>8. Ends /\ req' \in [Requests -> Request]
  BY FinishEnds DEF IInv, CommitEdit
<1>9. UNCHANGED <<items, archived, coin>>
  BY DEF CommitEdit
<1>10. TypeOK'
  BY <1>7, <1>8, <1>9 DEF IInv, TypeOK
<1>11. QED
  BY <1>7, <1>8, <1>9, <1>10, ColumnsKeep

\* The coins a deletion takes are those it has looked for, so it has found the
\* purchase expenses of all of them.
LEMMA CommitDeletesKeep ==
  ASSUME IInv, NEW r \in Requests,
         \/ CommitDelete(r) \/ CommitRemove(r)
         \/ CommitDeletePersonal(r) \/ CommitDeleteShared(r)
  PROVE  IInv'
<1> DEFINE q == req[r]
<1>1. q \in Request /\ Sound(q)
  BY FoundIsSound DEF IInv, TypeOK
<1>2. /\ q.coins \in SUBSET Coins /\ q.rows \in SUBSET Expenses
      /\ \A e \in q.rows : expense[e].is # "unborn"
      /\ \A c \in q.coins : coin[c].is # "unborn"
  BY <1>1 DEF Request, Sound
<1>3. Ends /\ req' \in [Requests -> Request]
  BY FinishEnds
     DEF IInv, CommitDelete, CommitRemove, CommitDeletePersonal, CommitDeleteShared
<1>4. archived' \subseteq Items
  BY DEF IInv, TypeOK, CommitDelete, CommitRemove, CommitDeletePersonal,
         CommitDeleteShared
<1>5. ASSUME q.op \in {"delete", "deletePersonal"}, q.todo = {}
      PROVE  /\ \A c \in q.coins : PurchaseOf(c) \subseteq q.rows
             /\ \A e \in q.rows \intersect KeptExpenses : expense[e].coin \in q.coins
  <2>1. ASSUME NEW c \in q.coins
        PROVE  PurchaseOf(c) \subseteq q.rows
    <3>1. CASE c \in KeptCoins
      BY <1>1, <1>5, <3>1 DEF Sound
    <3>2. CASE c \notin KeptCoins
      BY <3>2 DEF IInv, Booked, PurchaseOf
    <3>3. QED
      BY <3>1, <3>2
  <2>2. \A e \in q.rows \intersect KeptExpenses : expense[e].coin \in q.coins
    BY <1>1, <1>5 DEF Sound, PurchaseOf
  <2>3. QED
    BY <2>1, <2>2
<1>6. CASE CommitDelete(r)
  BY <1>2, <1>3, <1>4, <1>5, <1>6, DeleteKeeps DEF CommitDelete
<1>7. CASE CommitRemove(r)
  <2>1. \A e \in q.rows \intersect KeptExpenses : expense[e].kind = "supporting"
    BY <1>1, <1>7 DEF CommitRemove, Sound
  <2>2. Delete({}, q.rows, {})
    BY <1>7 DEF CommitRemove
  <2>3. QED
    BY <1>2, <1>3, <1>4, <2>1, <2>2, DeleteKeeps
<1>8. CASE CommitDeletePersonal(r)
  <2>1. /\ q.op = "deletePersonal" /\ q.todo = {}
        /\ CoinsOf(q.item) \subseteq q.coins
        /\ Delete(q.coins, q.rows, {q.item})
    BY <1>8 DEF CommitDeletePersonal
  <2>2. q.item \in Items
    BY <1>1, <2>1 DEF Sound
  <2>3. QED
    BY <1>2, <1>3, <1>4, <1>5, <2>1, <2>2, DeleteKeeps
<1>9. CASE CommitDeleteShared(r)
  <2>1. CoinsOf(q.item) = {} /\ Delete({}, {}, {q.item})
    BY <1>9 DEF CommitDeleteShared
  <2>2. q.item \in Items
    BY <1>1, <1>9 DEF Sound, CommitDeleteShared
  <2>3. QED
    BY <1>3, <1>4, <2>1, <2>2, DeleteKeeps
<1>10. QED
  BY <1>6, <1>7, <1>8, <1>9

LEMMA InitIInv == Init => IInv
<1> SUFFICES ASSUME Init
             PROVE  IInv
  OBVIOUS
<1>1. TypeOK
  BY NoRowTyped, IdleTyped DEF Init, TypeOK, Life
<1>2. KeptCoins = {} /\ KeptExpenses = {}
  BY DEF Init, KeptCoins, KeptExpenses, NoCoin, NoExpense
<1>3. Booked /\ References
  BY <1>2 DEF Booked, References
<1>4. Found
  BY IdleSound, FoundIsSound DEF Init
<1>5. QED
  BY <1>1, <1>3, <1>4 DEF IInv

LEMMA ItemActionsKeep ==
  ASSUME IInv, NEW x \in Items, CreatePersonal(x) \/ Archive(x) \/ Unarchive(x)
  PROVE  IInv'
<1>1. CASE CreatePersonal(x)
  <2>1. items' \in [Items -> Life] /\ KeptItems \subseteq KeptItems'
    BY <1>1 DEF CreatePersonal, IInv, TypeOK, Life, KeptItems
  <2>2. QED
    BY <1>1, <2>1, ItemsKeep DEF CreatePersonal, IInv, TypeOK
<1>2. CASE Archive(x) \/ Unarchive(x)
  <2>1. /\ items' \in [Items -> Life] /\ KeptItems \subseteq KeptItems'
        /\ archived' \subseteq Items
    BY <1>2 DEF Archive, Unarchive, IInv, TypeOK, KeptItems
  <2>2. QED
    BY <1>2, <2>1, ItemsKeep DEF Archive, Unarchive
<1>3. QED
  BY <1>1, <1>2

LEMMA AbortKeeps ==
  ASSUME IInv, NEW r \in Requests, Abort(r)
  PROVE  IInv'
  BY IdleTyped, IdleSound, QuietStep DEF Abort, Finish

LEMMA NextIInv == IInv /\ [Next]_vars => IInv'
<1> SUFFICES ASSUME IInv, [Next]_vars
             PROVE  IInv'
  OBVIOUS
<1>1. ASSUME NEW r \in Requests, CoinStep(r)
      PROVE  IInv'
  BY <1>1, StartsKeep, CommitBuyKeeps, ReadKeeps, CommitUpdateKeeps,
     CommitDeletesKeep DEF CoinStep, Starts
<1>2. ASSUME NEW r \in Requests, ExpenseStep(r)
      PROVE  IInv'
  BY <1>2, StartsKeep, AddKeeps, CommitEditKeeps, CommitDeletesKeep
     DEF ExpenseStep, Starts
<1>3. ASSUME NEW r \in Requests, ItemStep(r)
      PROVE  IInv'
  BY <1>3, StartsKeep, CountKeeps, CommitDeletesKeep DEF ItemStep, Starts
<1>4. ASSUME NEW x \in Items,
             \/ CreatePersonal(x) \/ Archive(x) \/ Unarchive(x)
             \/ \E c \in Coins, e \in Expenses, extras \in SUBSET Expenses,
                   pay \in Payments : BuyNew(x, c, e, extras, pay)
      PROVE  IInv'
  BY <1>4, ItemActionsKeep, BuyNewKeeps
<1>5. CASE UNCHANGED vars
  BY <1>5 DEF vars, tables, IInv, TypeOK, Booked, References, Found, KeptItems,
              KeptCoins, KeptExpenses, PurchaseOf
<1>6. QED
  BY <1>1, <1>2, <1>3, <1>4, <1>5, AbortKeeps DEF Next

\* Every coin kept has its one purchase expense, and every purchase expense its
\* coin; nothing refers to a row that has gone: in every reachable state.
THEOREM Invariance == Spec => []IInv
  BY InitIInv, NextIInv, PTL DEF Spec

-----------------------------------------------------------------------------
(* What becomes of supporting expenses. *)

\* An expense a step does not delete stays what it is.
Stays(e) == expense'[e].is = expense[e].is /\ expense'[e].kind = expense[e].kind

LEMMA DeleteSpares ==
  ASSUME TypeOK, NEW coins, NEW rows, NEW gone, Delete(coins, rows, gone),
         NEW e \in Expenses \ rows
  PROVE  Stays(e)
  BY DEF Delete, Stays, TypeOK, ExpenseRow

\* No deletion of a coin or of an item takes a supporting expense with it: only
\* the user's own removal does (_sync_expense, ON DELETE SET NULL).
THEOREM SupportingExpensesSurvive == Spec => SupportingSurvive
<1>1. ASSUME IInv, Next, NEW e \in KeptExpenses, expense[e].kind = "supporting",
             ~ \E r \in Requests : CommitRemove(r) /\ e \in req[r].rows
      PROVE  Stays(e)
  <2>0. e \in Expenses /\ expense[e].is = "kept" /\ expense[e] \in ExpenseRow
    BY <1>1 DEF KeptExpenses, IInv, TypeOK
  <2>1. ASSUME UNCHANGED expense
        PROVE  Stays(e)
    BY <2>1 DEF Stays
  <2>2. ASSUME NEW c, NEW f, NEW extras, NEW x, NEW pay, Purchase(c, f, extras, x, pay)
        PROVE  Stays(e)
    <3>1. e \notin extras \union {f}
      BY <2>0, <2>2 DEF Purchase
    <3>2. QED
      BY <2>0, <2>2, <3>1 DEF Purchase, Stays
  <2>3. ASSUME NEW r \in Requests, CommitUpdate(r)
        PROVE  Stays(e)
    <3>1. PICK c \in req[r].coins :
            IF req[r].rows = {} THEN BookMissing(c, req[r].money, req[r].pay)
            ELSE \E f \in req[r].rows : Sync(f, req[r].pay, req[r].entry)
      BY <2>3 DEF CommitUpdate
    <3>2. CASE req[r].rows = {}
      BY <2>0, <3>1, <3>2, <1>1 DEF BookMissing, Stays, IInv, TypeOK
    <3>3. CASE req[r].rows # {}
      BY <2>0, <3>1, <3>3, <1>1 DEF Sync, Stays, IInv, TypeOK, ExpenseRow
    <3>4. QED
      BY <3>2, <3>3
  <2>4. ASSUME NEW r \in Requests, CommitDelete(r) \/ CommitDeletePersonal(r)
        PROVE  Stays(e)
    <3>1. req[r].op \in {"delete", "deletePersonal"}
      BY <2>4 DEF CommitDelete, CommitDeletePersonal
    <3>2. \A f \in req[r].rows \intersect KeptExpenses : expense[f].kind = "purchase"
      BY <1>1, <3>1 DEF IInv, Found, PurchaseOf
    <3>3. e \notin req[r].rows
      BY <1>1, <3>2
    <3>4. QED
      BY <1>1, <2>0, <2>4, <3>3, DeleteSpares
         DEF IInv, CommitDelete, CommitDeletePersonal
  <2>5. ASSUME NEW r \in Requests, CommitRemove(r) \/ CommitDeleteShared(r)
        PROVE  Stays(e)
    BY <1>1, <2>0, <2>5, DeleteSpares DEF IInv, CommitRemove, CommitDeleteShared
  <2>6. ASSUME NEW r \in Requests, NEW f \in Expenses, CommitAdd(r, f)
        PROVE  Stays(e)
    BY <1>1, <2>0, <2>6 DEF CommitAdd, Stays, IInv, TypeOK
  <2>7. ASSUME NEW r \in Requests, CommitEdit(r)
        PROVE  Stays(e)
    BY <1>1, <2>0, <2>7 DEF CommitEdit, Stays, IInv, TypeOK, ExpenseRow
  <2>8. ASSUME NEW r \in Requests,
               Starts(r) \/ ReadExpense(r) \/ CountCoins(r) \/ CountExpenses(r)
                 \/ Abort(r)
        PROVE  UNCHANGED expense
    BY <2>8 DEF Starts, StartBuy, StartUpdate, StartDelete, StartAdd, StartEdit,
       StartRemove, StartDeletePersonal, StartDeleteShared, ReadExpense,
       CountCoins, CountExpenses, Abort, tables
  <2>9. ASSUME NEW r \in Requests, CoinStep(r)
        PROVE  Stays(e)
    BY <2>1, <2>2, <2>3, <2>4, <2>8, <2>9 DEF CoinStep, Starts, CommitBuy
  <2>10. ASSUME NEW r \in Requests, ExpenseStep(r)
         PROVE  Stays(e)
    BY <2>1, <2>5, <2>6, <2>7, <2>8, <2>10 DEF ExpenseStep, Starts
  <2>11. ASSUME NEW r \in Requests, ItemStep(r)
         PROVE  Stays(e)
    BY <2>1, <2>4, <2>5, <2>8, <2>11 DEF ItemStep, Starts
  <2>12. ASSUME NEW x \in Items,
                \/ CreatePersonal(x) \/ Archive(x) \/ Unarchive(x)
                \/ \E c \in Coins, f \in Expenses, extras \in SUBSET Expenses,
                      pay \in Payments : BuyNew(x, c, f, extras, pay)
         PROVE  Stays(e)
    BY <2>1, <2>2, <2>12 DEF CreatePersonal, Archive, Unarchive, BuyNew
  <2>13. QED
    BY <1>1, <2>1, <2>8, <2>9, <2>10, <2>11, <2>12 DEF Next
<1>2. IInv /\ [Next]_vars =>
        [\A e \in KeptExpenses :
           expense[e].kind = "supporting" =>
             \/ expense'[e].is = "kept" /\ expense'[e].kind = "supporting"
             \/ \E r \in Requests : CommitRemove(r) /\ e \in req[r].rows]_vars
  BY <1>1 DEF Stays, KeptExpenses
<1>3. QED
  BY <1>2, Invariance, PTL DEF Spec, SupportingSurvive

\* A PATCH whose two rows nobody changed since it read them leaves the expense
\* agreeing with the coin (CollectionService.update, _sync_expense).
THEOREM UpdatesHeal == Spec => UpdateHeals
<1>1. ASSUME IInv, NEW r \in Requests, NEW c \in KeptCoins, CommitUpdate(r),
             req[r].coins = {c}, req[r].loaded = coin[c].pay,
             \A e \in PurchaseOf(c) : expense[e].pay = req[r].entry
      PROVE  Agrees(c)'
  <2> DEFINE q == req[r]
  <2>1. q \in Request /\ Sound(q) /\ q.op = "update" /\ q.todo = {}
    BY <1>1, FoundIsSound DEF IInv, TypeOK, CommitUpdate
  <2>2. PICK e \in Expenses : PurchaseOf(c) = {e} /\ expense[e].kind = "purchase"
    BY <1>1 DEF IInv, Booked, PurchaseOf, KeptExpenses
  <2>3. q.rows \intersect KeptExpenses = {e} /\ q.rows # {}
    BY <1>1, <2>1, <2>2 DEF Sound, PurchaseOf
  <2>4. \E f \in q.rows : Sync(f, q.pay, q.entry)
    BY <1>1, <2>3 DEF CommitUpdate
  <2>5. /\ q.pay \in CoinPay /\ q.loaded \in CoinPay /\ q.entry \in ExpensePay
        /\ q.rows \subseteq Expenses /\ c \in Coins
        /\ coin[c] \in CoinRow /\ expense[e] \in ExpenseRow
    BY <1>1, <2>1 DEF Request, IInv, TypeOK, KeptCoins
  <2>6. coin'[c].pay = q.pay
    <3>1. coin'[c].pay = Written(q.loaded, q.pay, q.loaded)
      BY <1>1, <2>5 DEF CommitUpdate, IInv, TypeOK, CoinRow
    <3>2. Written(q.loaded, q.pay, q.loaded) = q.pay
      BY <2>5 DEF Written, CoinPay
    <3>3. QED
      BY <3>1, <3>2
  <2>7. expense[e].pay = q.entry
    BY <1>1, <2>2
  <2>8. PICK f \in q.rows : Sync(f, q.pay, q.entry)
    BY <2>4
  <2>9. expense'[e].pay = Booking(q.pay)
    <3>1. Booking(q.pay) \in ExpensePay
      BY <2>5, PayTyped
    <3>2. CASE f = e
      <4>1. expense'[e].pay = Written(q.entry, Booking(q.pay), q.entry)
        BY <2>5, <2>7, <2>8, <3>2, <1>1 DEF Sync, IInv, TypeOK, ExpenseRow
      <4>2. Written(q.entry, Booking(q.pay), q.entry) = Booking(q.pay)
        BY <2>5, <3>1 DEF Written, ExpensePay
      <4>3. QED
        BY <4>1, <4>2
    <3>3. CASE f # e
      <4>1. Booking(q.pay) = q.entry
        BY <2>3, <2>8, <3>3 DEF Sync
      <4>2. expense'[e] = expense[e]
        BY <2>5, <2>8, <3>3, <1>1 DEF Sync, IInv, TypeOK
      <4>3. QED
        BY <2>7, <4>1, <4>2
    <3>4. QED
      BY <3>2, <3>3
  <2>10. PurchaseOf(c)' = {e}
    <3>1. \A g \in Expenses :
            /\ expense'[g].is = expense[g].is
            /\ expense'[g].kind = expense[g].kind
            /\ expense'[g].coin = expense[g].coin
      BY <1>1, <2>5, <2>8 DEF Sync, IInv, TypeOK, ExpenseRow
    <3>2. QED
      BY <2>2, <3>1 DEF PurchaseOf, KeptExpenses
  <2>11. /\ Booking(q.pay)["amount"] = q.pay["price"] * q.pay["quantity"]
         /\ Booking(q.pay)["date"] = q.pay["date"]
         /\ Booking(q.pay)["rate"] = q.pay["rate"]
    BY DEF Booking, ExpenseColumns
  <2>12. QED
    BY <2>6, <2>9, <2>10, <2>11 DEF Agrees
<1>2. IInv /\ [Next]_vars =>
        [\A r \in Requests, c \in KeptCoins :
           /\ CommitUpdate(r)
           /\ req[r].coins = {c}
           /\ req[r].loaded = coin[c].pay
           /\ \A e \in PurchaseOf(c) : expense[e].pay = req[r].entry
           => Agrees(c)']_vars
  BY <1>1
<1>3. QED
  BY <1>2, Invariance, PTL DEF Spec, UpdateHeals
=============================================================================
