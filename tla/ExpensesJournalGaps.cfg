\* Module ExpensesJournal: what the code does not do.
SPECIFICATION JournalSpec
CONSTANTS
  Expenses = {e1, e2}
  Bought = {p1}
  Wordings = {w1, w2}
  Gone = Gone
  Shut = Shut
  Unknown = Unknown
  MaxCalls = 2
  MaxExits = 2
INVARIANT NothingUnreported
PROPERTY OnlyOwnAnswerCloses
CHECK_DEADLOCK FALSE
