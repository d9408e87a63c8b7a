SPECIFICATION FairSpec
CONSTANTS
  c1 = c1
  c2 = c2
  c3 = c3
  NoCandidate = none
  Candidates <- MCTwo
  Splits = 2
  MaxCapBackoff = 2
  MaxBusyRefusals = 0
  Amount = 3
  SplitAmount = 1
  MinSplit = 0
  MaxPPM = 1000
  MaxFee = 2
  MaxFailStreak <- MCNoLimit
  HasMaxTime = TRUE
  CandidateSide = "in"
  MaxPayments = 0
  WithStop = TRUE
INVARIANT ProbeIsInFlight
PROPERTY RunEnds
CHECK_DEADLOCK FALSE
