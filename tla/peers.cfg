SPECIFICATION Spec
CONSTANTS
  p1 = p1
  r1 = r1
  r2 = r2
  PeerIds <- MCPeers
  Readers <- MCReaders
  None = none
  MaxClock = 4
SYMMETRY Symmetry
INVARIANTS FreshAsRead NotificationNotUndone IndexIsTheTable OwnChannelsStay
CHECK_DEADLOCK FALSE
