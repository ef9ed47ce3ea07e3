SPECIFICATION FairSpec
CONSTANTS
  InBufs = {i1}
  SmallBufs = {s1}
  MediumBufs = {m1}
  LargeBufs = {l1}
  TxVringSize = 1
  MaxMishaps = 1
  NoBuf = NoBuf
  NoMsg = NoMsg
  GuestThreads = {g1}
  GuestSize <- MCNone
  HostThreads = {h1}
  HostSize <- MCOneHost
  Vchans = {v1}
  MaxDevOpens = 2
  MaxResets = 1
  MaxVOpens = 1
INVARIANTS
  BufferInOnePlace
PROPERTIES
  StoppedStaysOut
  RxDrains
  ResetEnds
CHECK_DEADLOCK FALSE
