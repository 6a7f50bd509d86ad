SPECIFICATION Spec
CONSTANTS
  Width = 32
  Nums <- Sizes
INVARIANTS GetsPowerOfTwo
CHECK_DEADLOCK FALSE
