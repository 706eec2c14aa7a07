SPECIFICATION Spec
CONSTANTS
  Clients = {c1}
  Eager = {}
  Split = {}
  Authenticate = TRUE
  AnonymousOk = TRUE
  Slow = {"anonymous"}
CHECK_DEADLOCK FALSE
INVARIANT PatientClientHeard
