SPECIFICATION FairSpec
CONSTANTS
  Upstream = u
  Rival = r
  Order <- RivalFirst
  Call = {c1, c2}
  MaxLsn = 2
  MaxFaults = 2
INVARIANTS WholeOrNothing FatalOnlyInWindow
PROPERTIES CatchesUp
CHECK_DEADLOCK FALSE
