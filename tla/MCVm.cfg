CONSTANTS
  Proc = {p1, p2, p3}
  None = None
  initproc = p1
  NFRAME = 17
  PGSIZE = 2
  LEVELS = 3
  FAN = 3
  MAXARG = 2
  Programs <- MCPrograms
  Deltas <- MCDeltas
  U = 32
  MaxCalls = 3
SPECIFICATION Spec
INVARIANT PagesSound
PROPERTY ImplementsPrivateMemory
CHECK_DEADLOCK FALSE
