SPECIFICATION Spec
CONSTANTS
  N = 4
  Start <- Starts
  HeaderLen = 2
  BufLen = 8
  MaxConns = 2
  MaxBack = 1
INVARIANTS DeliveredIntact
CHECK_DEADLOCK FALSE
