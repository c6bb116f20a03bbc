CONSTANTS
  Proc = {p1, p2, p3}
  None = None
  Data = {d1, d2}
  NUM = 8
  IdxMod = 16
  Past = 15
  MaxReq = 1
  Killable = {p1}
SPECIFICATION FairSpec
CHECK_DEADLOCK FALSE
INVARIANT DescriptorsSound
PROPERTIES ImplementsSyncDisk ReturnsUnlessStranded
