CONSTANTS
  None = None
  Proc = {r1, r2, w1}
  Readers = {r1, r2}
  Writers = {w1}
  Killable = {r1, w1}
  Byte = {b1, b2}
  PIPESIZE = 2
  UintMod = 4
  Sizes = {1, 5}
  Faults = TRUE
  MaxCalls = 1
SPECIFICATION FairSpec
CHECK_DEADLOCK FALSE
INVARIANTS PipeSound SleepersHaveReason
PROPERTIES ImplementsFifo EofIsFinal CloseReleasesPeers
