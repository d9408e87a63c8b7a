SPECIFICATION Spec
CONSTANTS
  p1 = p1
  p2 = p2
  Payments <- MCTwo
  SaveStats = TRUE
  RpcMayFail = TRUE
  MayRestart = TRUE
SYMMETRY MCSymmetry
INVARIANTS FailedIsNeverPaid SuccessWasPaid NoInvoiceLeft UnrecognisedOnlyAfterTimeout
CHECK_DEADLOCK FALSE
