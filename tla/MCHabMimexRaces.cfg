SPECIFICATION Spec
CONSTANTS
  MaxId = 2
  MaxCalls = 2
  Threads = {t1, t2}
  Faults = {"timeout", "nomem", "aging", "toobig", "send", "unsent"}
  SharedFirst = FALSE
SYMMETRY ThreadSymmetry
INVARIANTS
  TypeOK
  OneTokenPerNode
  NoUseAfterFree
  LookupFindsInit
  ExportReleasedOnce
  ReclaimNotLost
PROPERTIES
  FreedByOwnerOnly
CHECK_DEADLOCK FALSE
