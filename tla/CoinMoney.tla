------------------------------ MODULE CoinMoney ------------------------------
(***************************************************************************)
(* What a coin cost and what it is worth, on its card: a table with a row  *)
(* per purchase (InstancesList.tsx) and a strip above it with the sums     *)
(* (ValueSummary in CoinCardPage.tsx).  The rows and the strip are summed  *)
(* apart: the server adds up purchases and supporting expenses by coin for *)
(* the strip (repositories/catalog.py) and by purchase for the rows        *)
(* (services/catalog.py), and each component does its own arithmetic.      *)
(* Amounts are whole numbers of hryvnias, already at their own rates;      *)
(* wording and percentages are left out.  PageCache has the card's         *)
(* freshness: here it shows what the tables hold.                          *)
(***************************************************************************)
EXTENDS Integers, FiniteSets, Functions

CONSTANTS
    Null,
    CardCopies, Extras,     \* ids of purchases and of supporting expenses
    Pieces,                 \* how many of the coin one purchase may be
    Paid, Spent, Prices,    \* amounts: a piece, an expense, the market price
    PurchaseDays, RateOn,   \* RateOn[day][currency]: the rate of that day, if any
    LiveRates               \* what the last published rate may be

NoCopy == [quantity |-> 0]
NoExtra == [uah |-> 0, of |-> Null]

Currencies == {"USD", "EUR"}

\* Null is no number and no purchase.  The schemas let a price be nothing, an
\* expense not.  The code divides decimals and rounds only what it shows; here an
\* amount divides evenly by each rate it may be converted at.
ASSUME MoneyAssumption ==
    /\ IsFiniteSet(CardCopies) /\ IsFiniteSet(Extras)
    /\ Null \notin Nat /\ Null \notin CardCopies
    /\ Pieces \subseteq Nat \ {0}
    /\ Paid \subseteq Nat /\ Spent \subseteq Nat \ {0} /\ Prices \subseteq Nat
    /\ RateOn \in [PurchaseDays -> [Currencies -> (Nat \ {0}) \cup {Null}]]
    /\ LiveRates \subseteq Nat \ {0}
    /\ \A paid \in Paid, day \in PurchaseDays, k \in Currencies :
         RateOn[day][k] = Null \/ paid % RateOn[day][k] = 0
    /\ \A amount \in Spent \cup Prices, rate \in LiveRates : amount % rate = 0

VARIABLES
    held,           \* the visitor's purchases of the coin
    spent,          \* the supporting expenses of the coin
    marketPrice, lastRate,
    counting,       \* settings.includeSupportingExpenses
    shownIn         \* settings.secondaryCurrency

moneyVars == <<held, spent, marketPrice, lastRate, counting, shownIn>>

HeldCopies == {c \in CardCopies : held[c] # NoCopy}
Booked == {e \in Extras : spent[e] # NoExtra}

MoneyTypeOK ==
    /\ held \in [CardCopies ->
         {NoCopy} \cup [quantity : Pieces, paid : Paid, day : PurchaseDays]]
    /\ spent \in [Extras -> {NoExtra} \cup [uah : Spent, of : CardCopies \cup {Null}]]
    /\ \A e \in Booked : spent[e].of = Null \/ spent[e].of \in HeldCopies
    /\ marketPrice \in Prices \cup {Null}
    /\ lastRate \in [Currencies -> LiveRates \cup {Null}]
    /\ counting \in BOOLEAN /\ shownIn \in Currencies

MoneyInit ==
    /\ held = [c \in CardCopies |-> NoCopy]
    /\ spent = [e \in Extras |-> NoExtra]
    /\ marketPrice = Null /\ lastRate = [k \in Currencies |-> Null]
    /\ counting = TRUE /\ shownIn = "USD"

-----------------------------------------------------------------------------
(* Amounts.  Null is SQL's NULL and the page's null: "no data".            *)

Plus(a, b) == IF a = Null \/ b = Null THEN Null ELSE a + b
Minus(a, b) == IF a = Null \/ b = Null THEN Null ELSE a - b
Converted(uah, rate) == IF uah = Null \/ rate = Null THEN Null ELSE uah \div rate

\* SUM skips NULL; of nothing it is NULL.
Summed(column) ==
    LET known == {x \in DOMAIN column : column[x] # Null} IN
    IF known = {} THEN Null ELSE SumFunctionOnSet(column, known)
OrZero(a) == IF a = Null THEN 0 ELSE a

LiveRate == lastRate[shownIn]

\* The rate of a purchase's own day: none before the first one published.
OwnRate(c, k) == RateOn[held[c].day][k]
TotalUah(c) == held[c].quantity * held[c].paid
TotalIn(c, k) == Converted(TotalUah(c), OwnRate(c, k))
ExtrasOf(c) == Summed([e \in {b \in Booked : spent[b].of = c} |-> spent[e].uah])

\* What the card's own query adds up, for the coin as a whole.
QuantityOwned == OrZero(Summed([c \in HeldCopies |-> held[c].quantity]))
PurchaseTotalUah == OrZero(Summed([c \in HeldCopies |-> TotalUah(c)]))
PurchaseTotalIn(k) == Summed([c \in HeldCopies |-> TotalIn(c, k)])
SupportingUah == Summed([e \in Booked |-> spent[e].uah])

\* A row of the table.  The full price always has the expenses in it; what
\* the change is measured against depends on the visitor's setting.
CopyRow(c) ==
    LET extra == ExtrasOf(c)
        full == TotalUah(c) + OrZero(extra)
        own == TotalIn(c, shownIn)
        fullApprox == IF extra = Null THEN own ELSE Plus(own, Converted(extra, LiveRate))
        value == IF marketPrice = Null THEN Null ELSE marketPrice * held[c].quantity IN
    [quantity |-> held[c].quantity, own |-> TotalUah(c), ownApprox |-> own,
     extra |-> extra, extraApprox |-> Converted(extra, LiveRate),
     full |-> full, fullApprox |-> fullApprox,
     value |-> value, valueApprox |-> Converted(value, LiveRate),
     change |-> Minus(value, IF counting THEN full ELSE TotalUah(c)),
     changeApprox |-> Minus(Converted(value, LiveRate),
                            IF counting THEN fullApprox ELSE own)]

\* The strip of sums, with the expenses in the cost or without them.
StripOf(withExtras) ==
    LET merged == withExtras /\ SupportingUah # Null
        total == PurchaseTotalUah + IF merged THEN SupportingUah ELSE 0
        own == PurchaseTotalIn(shownIn)
        totalApprox == IF merged THEN Plus(own, Converted(SupportingUah, LiveRate))
                       ELSE own
        value == IF marketPrice = Null THEN Null ELSE marketPrice * QuantityOwned IN
    [quantity |-> QuantityOwned, total |-> total, totalApprox |-> totalApprox,
     extra |-> SupportingUah, value |-> value, valueApprox |-> Converted(value, LiveRate),
     change |-> Minus(value, total),
     changeApprox |-> Minus(Converted(value, LiveRate), totalApprox)]

StripAlwaysMerged == StripOf(TRUE)
Strip == StripOf(counting)

\* The box beside the photographs: how many, and the price of one.
Sidebar ==
    [quantity |-> QuantityOwned, price |-> marketPrice,
     priceApprox |-> Converted(marketPrice, LiveRate)]

StripIsShown == QuantityOwned > 0 /\ HeldCopies # {}

-----------------------------------------------------------------------------
(* What moves the figures.                                                 *)

Copy(n, paid, day) == [quantity |-> n, paid |-> paid, day |-> day]

\* POST /collection: the purchase, with the supporting expenses entered on
\* the same form, linked to the coin and to the purchase.
Buy(c, copy, es, uah) ==
    /\ held[c] = NoCopy /\ es \cap Booked = {}
    /\ held' = [held EXCEPT ![c] = copy]
    /\ spent' = [e \in Extras |-> IF e \in es THEN [uah |-> uah, of |-> c] ELSE spent[e]]
    /\ UNCHANGED <<marketPrice, lastRate, counting, shownIn>>

\* PATCH /collection/{id}: the supporting expenses stay as they are.
EditCopy(c, copy) ==
    /\ held[c] # NoCopy
    /\ held' = [held EXCEPT ![c] = copy]
    /\ UNCHANGED <<spent, marketPrice, lastRate, counting, shownIn>>

\* The dialog of a row.  Its supporting expenses stay with the coin, without
\* the purchase.
DeleteCopy(c) ==
    /\ held[c] # NoCopy
    /\ held' = [held EXCEPT ![c] = NoCopy]
    /\ spent' = [e \in Extras |-> IF spent[e].of = c THEN [spent[e] EXCEPT !.of = Null]
                                                     ELSE spent[e]]
    /\ UNCHANGED <<marketPrice, lastRate, counting, shownIn>>

\* POST /expenses: the form links the coin and never a purchase of it.
AddExtra(e, uah) ==
    /\ spent[e] = NoExtra
    /\ spent' = [spent EXCEPT ![e] = [uah |-> uah, of |-> Null]]
    /\ UNCHANGED <<held, marketPrice, lastRate, counting, shownIn>>

EditExtra(e, uah) ==
    /\ spent[e] # NoExtra
    /\ spent' = [spent EXCEPT ![e].uah = uah]
    /\ UNCHANGED <<held, marketPrice, lastRate, counting, shownIn>>

DeleteExtra(e) ==
    /\ spent[e] # NoExtra
    /\ spent' = [spent EXCEPT ![e] = NoExtra]
    /\ UNCHANGED <<held, marketPrice, lastRate, counting, shownIn>>

\* The parser's jobs bring a price of the coin, and the rates of a new day.
Reprice(p) ==
    /\ marketPrice' = p
    /\ UNCHANGED <<held, spent, lastRate, counting, shownIn>>

PublishRate(k, r) ==
    /\ lastRate' = [lastRate EXCEPT ![k] = r]
    /\ UNCHANGED <<held, spent, marketPrice, counting, shownIn>>

\* The two settings the card reads.
ToggleCounting ==
    /\ counting' = ~counting
    /\ UNCHANGED <<held, spent, marketPrice, lastRate, shownIn>>

SwitchCurrency(k) ==
    /\ shownIn' = k
    /\ UNCHANGED <<held, spent, marketPrice, lastRate, counting>>

MoneyNext ==
    \/ \E c \in CardCopies, n \in Pieces, paid \in Paid, day \in PurchaseDays :
         \/ \E es \in SUBSET Extras, uah \in Spent : Buy(c, Copy(n, paid, day), es, uah)
         \/ EditCopy(c, Copy(n, paid, day))
    \/ \E c \in CardCopies : DeleteCopy(c)
    \/ \E e \in Extras, uah \in Spent : AddExtra(e, uah) \/ EditExtra(e, uah)
    \/ \E e \in Extras : DeleteExtra(e)
    \/ \E p \in Prices : Reprice(p)
    \/ \E k \in Currencies, r \in LiveRates : PublishRate(k, r)
    \/ ToggleCounting
    \/ \E k \in Currencies : SwitchCurrency(k)

MoneySpec == MoneyInit /\ [][MoneyNext]_moneyVars

-----------------------------------------------------------------------------
(* The change of the coin is that of its rows, less what was spent on the  *)
(* coin for no purchase that is still there, when the visitor counts it:   *)
(* nothing is counted twice, and deleting a purchase loses none of its     *)
(* expenses.  So it is in the second currency, as long as every purchase   *)
(* has a rate of its own day: SUM leaves out the others, and the strip     *)
(* then sets the whole value against a part of the cost.                   *)
ChangesAddUp ==
    LET detached == {e \in Booked : spent[e].of = Null}
        loose == OrZero(Summed([e \in detached |-> spent[e].uah]))
        counted == IF counting THEN loose ELSE 0
        rated == \A c \in HeldCopies : CopyRow(c).ownApprox # Null IN
    StripIsShown =>
        /\ Sidebar.quantity = SumFunction([c \in HeldCopies |-> CopyRow(c).quantity])
        /\ marketPrice # Null => Strip.value = Sidebar.price * Sidebar.quantity
        /\ marketPrice # Null =>
             Strip.change =
               SumFunction([c \in HeldCopies |-> CopyRow(c).change]) - counted
        /\ marketPrice # Null /\ LiveRate # Null /\ rated =>
             Strip.changeApprox =
               SumFunction([c \in HeldCopies |-> CopyRow(c).changeApprox])
                 - Converted(counted, LiveRate)
=============================================================================
