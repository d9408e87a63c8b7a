SPECIFICATION FairSpec
CONSTANTS
  s1 = s1
  p1 = p1
  p2 = p2
  Scids <- MCScids
  Splits <- MCSplits
  Cap = 3
  PruneAfter = 1
  ResetAfter = 1
  Absent = absent
  NoFile = nofile
  Mixes <- MCMixes
  Holdings <- MCHoldings
INVARIANTS SavedIsNeverLost BoundHolds GossipApplied
PROPERTIES PolicyNeverOlder PoliciesCatchUp
CHECK_DEADLOCK FALSE
