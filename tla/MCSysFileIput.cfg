CONSTANTS
  p1 = p1
  p2 = p2
  Proc = {p1, p2, p3, p4, p5}
  None = None
  NINODES = 9
  NINODE = 7
  NFILE = 8
  NOFILE = 6
  Pipes = {1, 2}
  PIPESIZE = 2
  MaxWrite = 4
SPECIFICATION DeleteSpec
INVARIANT LastPutFrees
CHECK_DEADLOCK FALSE
