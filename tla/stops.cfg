SPECIFICATION Spec
CONSTANTS
  c1 = c1
  c2 = c2
  c3 = c3
  NoCandidate = none
  Candidates <- MCTwo
  Splits = 2
  MaxCapBackoff = 1
  MaxBusyRefusals = 0
  Amount = 3
  SplitAmount = 1
  MinSplit = 0
  MaxPPM = 1000
  MaxFee = 2
  MaxFailStreak = 2
  HasMaxTime = TRUE
  CandidateSide = "out"
  MaxPayments = 1
  WithStop = TRUE
SYMMETRY MCSymmetry
INVARIANTS EverySplitReports HaltFollowsStop ShortRunSaysWhy NoEarlyEnd
PROPERTIES NothingFiredAfterStop
CHECK_DEADLOCK FALSE
