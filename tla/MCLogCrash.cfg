SPECIFICATION Spec
CONSTANTS
  Proc = {p1, p2}
  Boot = boot
  Block = {b1, b2}
  Data = {zero, one}
  Empty = zero
  MAXOPBLOCKS = 2
  LOGSIZE = 6
  NLOG = 6
  OpBlocks = 2
  RefMod = 4
  Recyclable = {b1, b2}
  MaxCrashes = 2
SYMMETRY Symm
INVARIANTS CommitAlone BuffersPinned
PROPERTY ImplementsTxDisk
