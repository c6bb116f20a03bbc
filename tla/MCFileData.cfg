CONSTANTS
  p1 = p1
  f1 = f1
  Proc = {p1, p2}
  Inode = {f1, f2}
  None = None
  NBLOCK = 7
  BSIZE = 2
  NDIRECT = 2
  MAXOPBLOCKS = 6
  U = 16
  Src <- MCSrc
  Counts = {3, 7}
  Bads = {1, 3, 9}
  MaxCalls = 3
SPECIFICATION MCSpec
INVARIANTS BlocksSound OpFits PanicOnlyWhenFull
PROPERTY ImplementsByteFile
CHECK_DEADLOCK FALSE
