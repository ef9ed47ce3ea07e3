SPECIFICATION Spec
CONSTANTS
  MaxId = 1
  MaxCalls = 3
  Threads = {t1}
  Faults = {"timeout"}
  SharedFirst = FALSE
INVARIANTS
  ImportedIsRecorded
CHECK_DEADLOCK FALSE
