\* Two edits of one purchase at once; an item deleted while an expense names
\* it or somebody restores it.
SPECIFICATION Spec
CONSTANTS
  Coins = {c1}
  Expenses = {e1}
  Items = {shared, personal}
  Personal = {personal}
  Null = Null
  Prices = {1}
  Quantities = {1, 2}
  Dates = {1}
  RateOn <- MCRateOn
  Requests = {r1, r2}
SYMMETRY Symmetry
INVARIANT AmountAgrees
PROPERTY DeletesUnusedArchive
CHECK_DEADLOCK FALSE
