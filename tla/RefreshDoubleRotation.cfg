SPECIFICATION Spec
CONSTANTS
  f1 = f1
  f2 = f2
  u1 = u1
  u2 = u2
  Users = {u1}
  Families = {f1}
  Owner <- OneFamily
  Position <- InIdOrder
  Requests = {r1, r2}
  NoToken = NoToken
  MaxRotations = 2
  MaxClock = 2
  Grace = 1
  TTL = 2
SYMMETRY Symmetry
PROPERTIES RevocationEndsSignIn
CHECK_DEADLOCK FALSE
