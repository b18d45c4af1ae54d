\* Two coins, two expenses, two requests at once; edits change the quantity.
SPECIFICATION Spec
CONSTANTS
  Coins = {c1, c2}
  Expenses = {e1, e2}
  Items = {shared, personal}
  Personal = {personal}
  Null = Null
  Prices = {1}
  Quantities = {1, 2}
  Dates = {1}
  RateOn <- MCRateOn
  Requests = {r1, r2}
SYMMETRY Symmetry
INVARIANT IInv
PROPERTIES SupportingSurvive UpdateHeals
CHECK_DEADLOCK FALSE
