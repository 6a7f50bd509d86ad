SPECIFICATION FairSpec
CONSTANTS
  N = 4
  Start <- Starts
  HeaderLen = 2
  BufLen = 8
  MaxConns = 2
  MaxBack = 1
INVARIANTS RecvInBounds WholeIntact PendingKept
PROPERTIES AllDelivered
CHECK_DEADLOCK FALSE
