\* A message about a sign-out that arrives while a tab restores its session.
SPECIFICATION Spec
CONSTANTS
  Tabs = {t1, t2}
  SignIns = {s1, s2}
  None = None
  NoCookie = NoCookie
  Browser = Browser
  RememberMe = {TRUE}
  MaxRotations = 1
SYMMETRY Symmetry
INVARIANT ClosedEverywhere
