SPECIFICATION Spec
CONSTANTS
  p1 = p1
  p2 = p2
  Payments <- MCOne
  SaveStats = TRUE
  RpcMayFail = FALSE
  MayRestart = FALSE
SYMMETRY MCSymmetry
INVARIANTS TimeoutRecognised
CHECK_DEADLOCK FALSE
