SPECIFICATION Spec
CONSTANTS
  AThreads = {a1, a2}
  BThreads = {b1}
  MaxSends = 2
  WireCap = 2
  Faults = {"badsize"}
INVARIANTS
  NoRefLeak
CHECK_DEADLOCK FALSE
