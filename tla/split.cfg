SPECIFICATION Spec
CONSTANTS
  a = a
  b = b
  c = c
  d = d
  e = e
  o = o
  m = m
  n = n
  q = q
  Channels <- MCChannels
  Nodes <- MCNodes
  Source <- MCSource
  OutPeer = o
  InPeer = q
  Routes <- MCRoutes
  KnownRoute <- MCKnown
  NoRoute = NoRoute
  Avoided <- MCAvoided
  Amount = 8
  Attempts = 5
  MaxNodeFails = 3
  MinSplit = 2
  MaxPPM = 300
  WithStop = TRUE
INVARIANTS NoMorePayments NodeFailsBounded NeverSameFailure ResultAllowed OneLatePayment
CHECK_DEADLOCK FALSE
