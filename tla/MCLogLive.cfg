SPECIFICATION LiveSpec
CONSTANTS
  Proc = {p1, p2, p3}
  Boot = boot
  Block = {b1, b2, b3, b4}
  Data = {zero}
  Empty = zero
  MAXOPBLOCKS = 2
  LOGSIZE = 5
  NLOG = 5
  OpBlocks = 1
  RefMod = 4
  Recyclable = {}
  MaxCrashes = 0
INVARIANT SpaceSuffices
PROPERTIES BeginOpReturns FullLogGetsCommitted
CHECK_DEADLOCK FALSE
