\* Nobody dies: the unlink of the name is enough
CONSTANTS
  Procs = {p1, p2}
  MaxSems = 2
  Nobody = Nobody
  MaxCrashes = 0
SPECIFICATION Spec
INVARIANT MutualExclusion
CHECK_DEADLOCK FALSE
