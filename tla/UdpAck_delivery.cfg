SPECIFICATION FairSpec
CONSTANTS
  c1 = c1
  c2 = c2
  Clients = {c1, c2}
  NoClient = NoClient
  MaxLines = 3
  NRETRIES = 2
  Scenarios <- AllScenarios
INVARIANTS
  CreditCovered
  AcksArePrinted
  BoundedCopies
  ExactWithoutResends
  SkippedBounded
  PrintedInOrder
  AckLagBounded
PROPERTIES
  ImplementsDelivery
  ClientsTerminate
  EveryLinePrinted
CHECK_DEADLOCK FALSE
