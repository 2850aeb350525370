SPECIFICATION FairSpec
CONSTANTS
  Conns = {k1, k2, k3}
  NoConn = NoConn
  s_fd = 3
  MaxFd = 5
  BadFd = 4
  MAX_NCLIENTS = 2
  Faults = {"accept", "eof"}
INVARIANTS
  MasterCovers
  MasterExact
  ReadsReady
PROPERTIES
  NoInheritedReadiness
  LineServed
CHECK_DEADLOCK FALSE
