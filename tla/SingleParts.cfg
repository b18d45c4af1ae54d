SPECIFICATION PartsSpec
CONSTANTS
  None = None
  ua = ua
  pl = pl
  Coins = {c1}
  Countries = {ua, pl}
  MaxEdits = 5
  MaxRows = 1
  MaxKeys = 2
  Count = 3
  Needles = {"a", "ab", "x"}
  Found <- MCFound
  Barred = {3}
  Years = {3}
  Dates = {1}
  PeriodCountries = {1, 2}
  MinYear <- MCMinYear
  MaxYear <- MCMaxYear
  Names = {"home", "bank"}
  Preset = "home"
  Partials = {}
  StartsWith <- MCStarts
  MaxStorageAsks = 2
  DisplayNames = {"a", "b"}
  Avatars = {"p"}
  MaxSaves = 2
  t1 = t1
  t2 = t2
  Contents <- MCContents
  Pictures = {"p"}
  CoinSides = {"obverse"}
  MaxDecisions = 2
  Uploads = {"p1", "p2"}
  MaxRequests = 3
  e1 = e1
  e2 = e2
  w1 = w1
  w2 = w2
  Expenses = {e1, e2}
  p1 = p1
  Bought = {p1}
  Wordings = {w1, w2}
  Gone = Gone
  Shut = Shut
  Unknown = Unknown
  MaxCalls = 2
  MaxExits = 2
  MaxPicks = 2
  MaxEncodes = 3
  MaxRemovals = 1
  ChartDays <- MCDays
  Null = Null
  CardCopies = {"c1", "c2"}
  Extras = {"e1", "e2"}
  Pieces = {1, 2}
  Paid = {8}
  Spent = {2, 4}
  Prices = {4}
  PurchaseDays = {"d0", "d1"}
  RateOn <- MCRateOn
  LiveRates = {1, 2}
SYMMETRY MCSymmetry
INVARIANTS PartsTypeOK WholePurchase SurvivesSwitching FieldSettles PageSettles
           LastSaveStands SentAsPicked ChangesAddUp
PROPERTIES ChoosesOne AbandonedStaysAbandoned
CHECK_DEADLOCK FALSE
