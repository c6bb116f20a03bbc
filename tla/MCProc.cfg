CONSTANTS
  None = None
  NPROC = 4
  CPU = {c1, c2}
  Sleepers = {3}
  Preemptible = {2}
  OutOfMem = TRUE
  KillPids = {4}
  MaxPid = 5
  MaxKills = 1
SPECIFICATION Spec
CHECK_DEADLOCK FALSE
SYMMETRY Symm
VIEW Live
INVARIANTS TableSound ParentThenChild WaitersHaveReason
