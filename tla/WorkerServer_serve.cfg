SPECIFICATION FairSpec
CONSTANTS
  Conns = {k1, k2, k3}
  NoConn = NoConn
  ClientFd = {4, 5}
  MAX_NCLIENTS = 2
  Workers = {"process", "thread"}
  Faults = {"spawn"}
  MaxStops = 2
INVARIANTS
  DescriptorOwned
  
  DescriptorsReturned
PROPERTIES
  ImplementsService
  LineServed
CHECK_DEADLOCK FALSE
