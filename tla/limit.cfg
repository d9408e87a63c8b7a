SPECIFICATION Spec
CONSTANTS
  c1 = c1
  c2 = c2
  c3 = c3
  NoCandidate = none
  Candidates <- MCThree
  Splits = 3
  MaxCapBackoff = 2
  MaxBusyRefusals = 0
  Amount = 4
  SplitAmount = 2
  MinSplit = 1
  MaxPPM = 1000
  MaxFee = 3
  MaxFailStreak <- MCNoLimit
  HasMaxTime = FALSE
  CandidateSide = "in"
  MaxPayments = 0
  WithStop = FALSE
SYMMETRY MCSymmetry
INVARIANTS
  TypeOK
  CountersMatchSplits
  WithinMaxFee
  NeverPastTarget
  CandidateInOnePlace
  NoCandidateLost
  WithinTargetLimit
PROPERTY RunKeepsContract
CHECK_DEADLOCK FALSE
