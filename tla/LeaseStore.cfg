SPECIFICATION Spec
CONSTANTS
  Node = {n1, n2}
  NoNode = NoNode
  MaxCalls = 3
  PauseArgs = {TRUE}
  SwitchoverArgs = {NoNode}
SYMMETRY Symmetry
INVARIANTS TypeOK TermsUnique OneSuccessor LatestInForce WonIsTrue
PROPERTIES NoClobber ImplementsLease
CHECK_DEADLOCK FALSE
