SPECIFICATION Spec
CONSTANTS
  FeThreads = {f1}
  BeThreads = {b1}
  MaxOpens = 1
  MaxListens = 1
  MaxVid = 2
  Faults = {"signal"}
INVARIANTS
  CancelReachesListener
CHECK_DEADLOCK FALSE
