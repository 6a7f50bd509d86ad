SPECIFICATION Spec
CONSTANTS
  Worlds <- MCWorlds
  PciEntries <- Entries
  MaxDepth = 4
INVARIANTS AllDisplayed OutputExact
CHECK_DEADLOCK FALSE
