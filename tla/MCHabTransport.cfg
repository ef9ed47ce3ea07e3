SPECIFICATION FairSpec
CONSTANTS
  InBufs = {i1}
  SmallBufs = {s1}
  MediumBufs = {m1}
  LargeBufs = {l1}
  TxVringSize = 1
  MaxMishaps = 0
  NoBuf = NoBuf
  NoMsg = NoMsg
  GuestThreads = {g1}
  GuestSize <- MCGuestSize
  HostThreads = {h1}
  HostSize <- MCHostSize
  Vchans = {}
  MaxDevOpens = 1
  MaxResets = 0
  MaxVOpens = 0
INVARIANTS
  BufferInOnePlace
PROPERTIES
  HostGetsInOrder
  GuestGetsInOrder
  SendListDrains
  TxDrains
  SenderWakes
CHECK_DEADLOCK FALSE
