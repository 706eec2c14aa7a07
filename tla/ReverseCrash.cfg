SPECIFICATION Spec
CONSTANTS
  Clients = {c1}
  HelloSize = 1
  MaxHello = 1
  MaxSegments = 1
CHECK_DEADLOCK FALSE
INVARIANT ErrorsHandled
