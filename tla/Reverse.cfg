SPECIFICATION FairSpec
CONSTANTS
  Clients = {c1}
  HelloSize = 2
  MaxHello = 2
  MaxSegments = 4
CHECK_DEADLOCK FALSE
INVARIANTS TypeOK StreamIntact TimerGuardsWait HeadBounded Tracked
PROPERTIES WaitSettles EndedCloses CloseResolves
