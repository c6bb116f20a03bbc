CONSTANTS
  p1 = p1
  p2 = p2
  Proc = {p1, p2, p3, p4, p5}
  None = None
  NINODES = 9
  NINODE = 7
  NFILE = 8
  NOFILE = 6
  Pipes = {1, 2}
  PIPESIZE = 2
  MaxWrite = 4
SPECIFICATION Spec
INVARIANTS RefsSound InodesSound NamesSound Calm NoDeadlock TestsPass
PROPERTY WritesInTransaction
CHECK_DEADLOCK FALSE
