SPECIFICATION FairSpec
CONSTANTS
  MaxId = 2
  MaxCalls = 3
  Threads = {t1}
  Faults = {"toobig", "send"}
  SharedFirst = FALSE
INVARIANTS
  ImportedIsRecorded
  NotBusyForNobody
PROPERTIES
  SharesMemory
  ImportAnswered
  ReclaimedEventually
CHECK_DEADLOCK FALSE
