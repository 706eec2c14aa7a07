SPECIFICATION FairSpec
CONSTANTS
  Clients = {c1, c2}
  MaxSegments = 1
CHECK_DEADLOCK FALSE
INVARIANTS StreamIntact Tracked
PROPERTIES RefusedCloses PlainCloses CloseResolves
