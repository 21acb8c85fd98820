\* Three threads that get and set two values
CONSTANTS
  Threads = {t1, t2, t3}
  Values = {v1, v2}
SPECIFICATION FairSpec
INVARIANTS ContainerInv OverlapOnlyLate ReadsCurrent
PROPERTIES CallsProceed
