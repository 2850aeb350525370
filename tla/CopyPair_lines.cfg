SPECIFICATION FairSpec
CONSTANTS
  Clients = {c1, c2}
  NoClient = NoClient
  NLINES = 3
  LineLen = 2
  BufSz = 2
  Window = 3
  Backlog = 1
  Scenarios <- BothPairs
PROPERTIES
  ImplementsCopy
  ClientsEnd
  SentIsPrinted
CHECK_DEADLOCK FALSE
