SPECIFICATION FairSpec
CONSTANTS
  f1 = f1
  f2 = f2
  u1 = u1
  u2 = u2
  Users = {u1}
  Families = {f1, f2}
  Owner <- OneUser
  Position <- InIdOrder
  Requests = {r1, r2}
  NoToken = NoToken
  MaxRotations = 1
  MaxClock = 0
  Grace = 0
  TTL = 2
PROPERTIES EventuallyAnswered
CHECK_DEADLOCK FALSE
