SPECIFICATION FairSpec
CONSTANTS
  Node = {1, 2, 3}
  NoNode = 0
  Sites = {"fresh"}
  Provisioned = FALSE
  Flawed <- NoneFlawed
  MaxTerm = 2
  MaxCommands = 1
  MaxRecovers = 1
  MaxFaults = 0
PROPERTIES SiteComesUp
CHECK_DEADLOCK FALSE
