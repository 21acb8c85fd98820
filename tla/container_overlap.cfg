\* One reader and one writer are enough for a read during a write
CONSTANTS
  Threads = {t1, t2}
  Values = {v1, v2}
SPECIFICATION Spec
INVARIANT ReadsComplete
