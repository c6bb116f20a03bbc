CONSTANTS
  None = None
  NPROC = 4
  CPU = {c1, c2, c3}
  Sleepers = {}
  Preemptible = {}
  OutOfMem = FALSE
  KillPids = {}
  MaxPid = 5
  MaxKills = 0
SPECIFICATION Spec
CHECK_DEADLOCK FALSE
SYMMETRY Symm
VIEW Live
INVARIANTS NoCircularWait
