SPECIFICATION FairSpec
CONSTANTS
  Amount = 4
  SplitAmount = 2
  Probe = 3
  Splits = 2
  Slots = {s1, s2}
  StartPPM = 1
  MaxFee = 7
  Settings <- MCSettings
  RatioPPM = {0, 2, 5}
  MaxQueue = 2
INVARIANTS
  NeverPastGoal
  WithinMaxFee
  ProvenPrices
PROPERTIES
  GivesUp
  SlowRunEnds
CHECK_DEADLOCK FALSE
