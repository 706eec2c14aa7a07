SPECIFICATION Spec
CONSTANTS
  Setups <- ThrottledSetups
  HighWater = 1
CHECK_DEADLOCK FALSE
INVARIANTS EveryByteDrains
