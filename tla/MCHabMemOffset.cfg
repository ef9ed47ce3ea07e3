SPECIFICATION Spec
CONSTANTS
  Buffers <- MCOffset
  MaxMap = 5
INVARIANTS
  PagesAgree
CHECK_DEADLOCK FALSE
