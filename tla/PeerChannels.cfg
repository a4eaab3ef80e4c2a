SPECIFICATION FairSpec
CONSTANTS
  Peer = {p, q}
  Target = {p}
  Budget = 2
  DialTimeout = 2
  MaxFaults = 1
  MaxRotations = 1
INVARIANTS BlindOnlyBehindDial
PROPERTIES ChannelsRecover RotationReaches
CHECK_DEADLOCK FALSE
