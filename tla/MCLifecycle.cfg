SPECIFICATION FairSpec
CONSTANTS
  ServerCount = 1
INVARIANTS LockMatches FreedUnused EndsWhenDeleted ChannelsFreed
PROPERTIES DeleteReturns
CHECK_DEADLOCK FALSE
