SPECIFICATION Spec
CONSTANTS
  Channels <- MCChannels
  Out = "out"
  In = "in"
  From <- MCFrom
  To <- MCTo
  Self = "us"
  Graphs <- MCGraphs
  Amount = 10
  Unit = 10
  Huge = 60
  MaxDelay = 7
  InitialDelay = 3
  Requests <- MCRequests
  MaxHops = 5
  Hopeless = 99
INVARIANTS
  AnswerHolds
  AnswerIsBest
CHECK_DEADLOCK FALSE
