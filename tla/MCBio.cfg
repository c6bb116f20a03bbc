CONSTANTS
  None = None
  Proc = {p1, p2}
  Block = {k1, k2, k3}
  Data = {d1, d2}
  NBUF = 2
  MaxPinned = 1
  MaxReads = 2
SPECIFICATION FairSpec
CHECK_DEADLOCK FALSE
INVARIANT BuffersSound
PROPERTIES PanicOnlyWhenFull ImplementsBlockStore BreadReturns
