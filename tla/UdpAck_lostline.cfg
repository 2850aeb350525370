SPECIFICATION Spec
CONSTANTS
  c1 = c1
  c2 = c2
  Clients = {c1, c2}
  NoClient = NoClient
  MaxLines = 2
  NRETRIES = 2
  Scenarios <- LossOnly
INVARIANTS
  ClosedIsDelivered
CHECK_DEADLOCK FALSE
