\* src/thread_pool/main.cpp: one thread submits, then joins
CONSTANTS
  N = 2
  Tasks = {t1, t2, t3, t4}
  Submitters = {main}
  Joiners = {main}
  LateSubmit = FALSE
  HoldOnSleep = TRUE
  None = None
SPECIFICATION FairSpec
INVARIANT PoolInv
PROPERTIES JoinDrains CallsReturn RunnerSpec
CHECK_DEADLOCK FALSE
