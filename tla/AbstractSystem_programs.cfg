SPECIFICATION FairSpec
CONSTANTS
  W = 1073741824
  WordBits = 30
  None = None
  FloatExact = 1073741824
  DivisionRaises = TRUE
  IVTsz = 6
  heapSz = 20
  stackSz = 2
  codeSz = 26
  timerStateSz = 3
  deviceStateSz = 1
  dmaStateSz = 5
  MAX_NCYCLES = 320
  TableSz = 3
  Workload = "programs"
  Programs <- MCPrograms
  Own <- MainRegs
  Ram <- MainRam
  RoutineLen <- IsrLen
INVARIANTS
  TypeOK
  FibTable
  Cooperate
PROPERTIES
  ImplementsMain
  MainFinishes
CHECK_DEADLOCK FALSE
