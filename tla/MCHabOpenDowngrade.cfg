SPECIFICATION Spec
CONSTANTS
  FeThreads = {f1}
  BeThreads = {b1}
  MaxOpens = 2
  MaxListens = 2
  MaxVid = 2
  Faults = {"signal"}
PROPERTIES
  ProtocolKept
CHECK_DEADLOCK FALSE
