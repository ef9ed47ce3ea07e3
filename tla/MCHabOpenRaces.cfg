SPECIFICATION Spec
CONSTANTS
  FeThreads = {f1, f2}
  BeThreads = {b1, b2}
  MaxOpens = 2
  MaxListens = 2
  MaxVid = 2
  Faults = {"signal", "timeout", "stop", "aging", "nomem", "send", "unsent"}
SYMMETRY OpenSymmetry
INVARIANTS
  Paired
  DeadPeerGone
  RefsCoverUse
CHECK_DEADLOCK FALSE
