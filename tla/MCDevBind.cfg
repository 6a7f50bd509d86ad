SPECIFICATION Spec
CONSTANTS
  Devs = {"02:00.0", "02:00.1", "03:00.0"}
  Names = {"02:00.0", "02:00.1", "03:00.0", "eth0", "typo", "dpdk"}
  IfNames = {"eth0"}
  Ident <- MCIdent
  Named <- MCNamed
  KernelDrivers = {"ixgbe"}
  Supports <- MCSupports
  CmdLines <- AllLines
  Systems <- MCSystems
  MaxRuns = 2
  MaxMoves = 1
  None = None
INVARIANTS TypeOK SilentMeansDone OthersLeftAlone UnknownStopsAll StatusIsFresh
PROPERTIES ActiveKept
CHECK_DEADLOCK FALSE
