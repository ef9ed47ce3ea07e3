SPECIFICATION Spec
CONSTANTS
  BufSize = 3
  CountRange = 8
  Bytes = {0, 1}
  Signature = 1
  HeaderSize = 2
INVARIANTS
  TypeOK
  RingConsistent
  ReadIsStable
PROPERTIES
  IsFifo
