SPECIFICATION VersionSpec
CONSTANTS
  W = 1073741824
  WordBits = 30
  None = None
  FloatExact = 1073741824
  DivisionRaises = TRUE
  IVTsz = 6
  heapSz = 10
  stackSz = 2
  codeSz = 26
  deviceSz = 6
  MAX_NCYCLES = 40
  Sources <- Portable
  BareSources <- AluPrograms
PROPERTIES
  ImplementsPython
CHECK_DEADLOCK FALSE
