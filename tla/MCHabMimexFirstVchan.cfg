SPECIFICATION Spec
CONSTANTS
  MaxId = 1
  MaxCalls = 1
  Threads = {t1}
  Faults = {}
  SharedFirst = TRUE
INVARIANTS
  ReclaimNotLost
CHECK_DEADLOCK FALSE
