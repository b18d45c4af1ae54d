SPECIFICATION Spec
CONSTANTS
  v1 = v1
  l1 = l1
  l2 = l2
  Passwords = {p1, p2}
  NoPassword = NoPassword
  Links = {l1, l2}
  Kind <- TwoResets
  NoLink = NoLink
  SignIns = {s1, s2}
  Requests = {r1, r2}
SYMMETRY Symmetry
PROPERTIES SignsInWithNewPassword
CHECK_DEADLOCK FALSE
