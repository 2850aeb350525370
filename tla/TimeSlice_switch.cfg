SPECIFICATION Spec
CONSTANTS
  NREGS_CONTEXT = 3
  Word = {0, 1}
  PID = 0
  TCB_OFFSET = 1
  TCB_SZ = 4
  StackBase = 9
INVARIANTS
  StackDiscipline
PROPERTIES
  KeepsContexts
