SPECIFICATION FairSpec
CONSTANTS
  Clients = {c1, c2}
  Eager = {c1}
  Split = {c1}
  Authenticate = TRUE
  AnonymousOk = TRUE
  Slow = {"good", "bad"}
CHECK_DEADLOCK FALSE
INVARIANTS AuthenticatedOnly Tracked TimerGuardsHandshake PatientClientHeard
PROPERTIES HandshakeEnds CloseResolves
