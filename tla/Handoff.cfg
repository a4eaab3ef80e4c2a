SPECIFICATION Spec
CONSTANTS
  Node = {1, 2, 3}
  NoNode = 0
  Primary = 1
  MaxOps = 2
  MaxFaults = 3
  FaultKinds = {"rewind", "step", "abandon", "crash", "opstop"}
  Overlap = FALSE
INVARIANTS RoleHandedOver StuckOnlyInWindow
PROPERTIES CompletedFollows WipeOnlyStopped
CHECK_DEADLOCK FALSE
