SPECIFICATION Spec
CONSTANTS
  Node = {1, 2, 3}
  NoNode = 0
  Primary = 1
  CloneSync = {}
  RequiredPeers = 1
  StartBudget = 1
  LoopWait = 1
  RetryTimeout = 0
  LeaderTtl = 2
  MaxTerm = 4
  MaxWal = 1
  MaxFaults = 1
  FaultKinds = {"host", "agent", "deaf", "cut", "pg", "rejoin"}
  Prompt = TRUE
INVARIANTS AckedSurvive DurableTwice NoForkPast
