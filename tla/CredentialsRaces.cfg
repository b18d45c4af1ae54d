SPECIFICATION Spec
CONSTANTS
  v1 = v1
  l1 = l1
  l2 = l2
  Passwords = {p1}
  NoPassword = NoPassword
  Links = {v1, l1, l2}
  Kind <- OneOfVerify
  NoLink = NoLink
  SignIns = {s1, s2}
  Requests = {r1, r2}
SYMMETRY Symmetry
INVARIANTS IInv
PROPERTIES SingleUse EventsEndSignIns
CHECK_DEADLOCK FALSE
