SPECIFICATION FairSpec
CONSTANTS
  Setups <- SomeSetups
  HighWater = 1
CHECK_DEADLOCK FALSE
INVARIANTS TypeOK DrainBeforeFin BufferBound
PROPERTIES AbortIsJoint ImplementsDuplex FinArrives PairedTeardown IdleEnds
