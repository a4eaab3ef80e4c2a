SPECIFICATION FairSpec
CONSTANTS
  Node = {1, 2, 3}
  NoNode = 0
  Sites = {"fresh", "stopped"}
  Provisioned = TRUE
  Flawed <- OneFlawed
  MaxTerm = 2
  MaxCommands = 2
  MaxRecovers = 1
  MaxFaults = 1
INVARIANTS GateHolds ForkedOnlyUncompared
PROPERTIES  ForksEnd
CHECK_DEADLOCK FALSE
