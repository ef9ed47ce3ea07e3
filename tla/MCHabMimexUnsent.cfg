SPECIFICATION Spec
CONSTANTS
  MaxId = 2
  MaxCalls = 3
  Threads = {t1}
  Faults = {"toobig", "aging", "send", "unsent"}
  SharedFirst = FALSE
INVARIANTS
  ImportedIsRecorded
PROPERTIES
  SharesMemory
CHECK_DEADLOCK FALSE
