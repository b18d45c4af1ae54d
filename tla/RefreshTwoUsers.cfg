\* Two accounts with a sign-in each, a grace window and a lifetime that end.
SPECIFICATION Spec
CONSTANTS
  f1 = f1
  f2 = f2
  u1 = u1
  u2 = u2
  Users = {u1, u2}
  Families = {f1, f2}
  Owner <- TwoUsers
  Position <- InFamilyOrder
  Requests = {r1, r2}
  NoToken = NoToken
  MaxRotations = 1
  MaxClock = 2
  Grace = 0
  TTL = 2
SYMMETRY UserSymmetry
INVARIANTS IInv NeverForks
PROPERTIES HandsOutLiveTokens RevocationReachesSuccessor ImplementsSignIns
CHECK_DEADLOCK FALSE
