CHECK_DEADLOCK FALSE
SPECIFICATION FairSpec
CONSTANTS
  Standby = {1}
  MaxOps = 2
  MaxIntents = 2
  MaxAttempts = 2
  MaxFaults = 2
  FaultKinds = {"copy", "configure", "start", "stale", "unasked", "abandon", "return", "day", "db", "crash", "retry"}
INVARIANTS OrphanWasYielded
PROPERTIES WindowProtected DeferredDropEnds
