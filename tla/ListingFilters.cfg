SPECIFICATION Spec
CONSTANTS
  c1 = c1
  c2 = c2
  s1 = s1
  Countries = {c1, c2}
  Series = {s1}
  Home <- MCHome
  NoText = NoText
  text = text
  Texts = {NoText, text}
  Closed = Closed
  MaxPages = 2
INVARIANTS PagesOfShown NoHiddenSeries
PROPERTIES OnlyApplyReachesListing SearchSettles
CHECK_DEADLOCK FALSE
