SPECIFICATION FairSpec
CONSTANTS
  AThreads = {a1, a2}
  BThreads = {b1}
  MaxSends = 2
  WireCap = 2
  Faults = {"nomem", "send", "interrupt", "short", "badsize"}
INVARIANTS
  HeldWhileUsed
PROPERTIES
  IsSocket
  RecvReturns
  FreedEventually
CHECK_DEADLOCK FALSE
