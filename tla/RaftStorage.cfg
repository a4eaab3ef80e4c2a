SPECIFICATION Spec
CONSTANTS
  Node = {n1, n2}
  NoNode = NoNode
  Commands <- OnePause
  MaxIndex = 3
  MaxTerm = 2
  MaxBatch = 2
  MaxCrashes = 1
SYMMETRY Symmetry
INVARIANTS VotesOnce Recoverable AppliedIsReplay
CHECK_DEADLOCK FALSE
