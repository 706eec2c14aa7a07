SPECIFICATION Spec
CONSTANTS
  Setups <- EarlyFinSetups
  HighWater = 1
CHECK_DEADLOCK FALSE
INVARIANTS OtherWayStaysOpen
