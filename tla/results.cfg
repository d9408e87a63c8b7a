SPECIFICATION Spec
CONSTANTS
  RUNS_KEPT = 2
  MaxRuns = 4
INVARIANTS LastEndedListed
CHECK_DEADLOCK FALSE
