SPECIFICATION Spec
CONSTANTS
  Buffers <- MCBuffers
  MaxMap = 5
INVARIANTS
  AlignedPagesAgree
  TableFits
  HeldByDescriptor
  ListedWhileUsed
  FaultInRange
CHECK_DEADLOCK FALSE
