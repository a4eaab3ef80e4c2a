SPECIFICATION FairSpec
CONSTANTS
  Node = {1, 2, 3}
  NoNode = 0
  Primary = 1
  CloneSync = {}
  RequiredPeers = 1
  StartBudget = 1
  LoopWait = 1
  RetryTimeout = 1
  LeaderTtl = 3
  MaxTerm = 4
  MaxWal = 0
  MaxFaults = 1
  FaultKinds = {"host", "pg", "agent", "cut", "deaf", "pause", "heal",
                "restart", "hears", "resume"}
  Prompt = TRUE
INVARIANTS TermsFence BlindLinkHarmless
PROPERTIES FailoverCompletes IsolatedHolderStops DualPrimaryEnds
