\* Module AddForm: what the code does not do.
SPECIFICATION Spec
CONSTANTS
  None = None
  Coins = {c1}
  Countries = {ua, pl}
  MaxEdits = 4
  MaxRows = 1
  MaxKeys = 2
PROPERTIES RefusalIsShown
