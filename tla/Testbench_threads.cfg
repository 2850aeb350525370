SPECIFICATION FairSpec
CONSTANTS
  NTH = 3
INVARIANTS
  ObjectsAlive
  ReleasedInFull
  TidNamesCaller
PROPERTIES
  TestbenchEnds
CHECK_DEADLOCK FALSE
