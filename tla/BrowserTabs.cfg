\* Two tabs, two sign-ins of one rotation each, remembered across visits.
SPECIFICATION Spec
CONSTANTS
  Tabs = {t1, t2}
  SignIns = {s1, s2}
  None = None
  NoCookie = NoCookie
  Browser = Browser
  RememberMe = {TRUE}
  MaxRotations = 1
SYMMETRY Symmetry
INVARIANTS IInv SignOutStands ShownHasToken
PROPERTY AlarmsOnlyAbandoned
