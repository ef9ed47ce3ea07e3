SPECIFICATION FairSpec
CONSTANTS
  FeThreads = {f1}
  BeThreads = {b1}
  MaxOpens = 1
  MaxListens = 1
  MaxVid = 2
  Faults = {"timeout"}
PROPERTIES
  CancelEndsWait
CHECK_DEADLOCK FALSE
