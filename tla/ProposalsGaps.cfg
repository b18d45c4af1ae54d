\* Module Proposals: what the code does not do.
SPECIFICATION ProposalSpec
CONSTANTS
  Contents = {t1, t2}
  Pictures = {"p"}
  CoinSides = {"obverse"}
  MaxDecisions = 2
INVARIANTS DecidedOnce ScrollRestored
CHECK_DEADLOCK FALSE
