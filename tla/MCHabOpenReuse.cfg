SPECIFICATION FairSpec
CONSTANTS
  FeThreads = {f1, f2}
  BeThreads = {b1, b2}
  MaxOpens = 4
  MaxListens = 4
  MaxVid = 2
  Faults = {}
INVARIANTS
  OpenIsMutual
PROPERTIES
  HandshakeEnds
CHECK_DEADLOCK FALSE
