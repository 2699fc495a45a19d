CONSTANTS
  A = A
  B = B
  x = x
  y = y
  None = None
  Peer = {A, B}
  Id = {x, y}
  Handle <- TwoStreams
  max_num_streams <- OneSlot
  MaxWrites <- OnlyA
  DEFAULT_CREDIT = 2
  FailingPeers = {A}
  ChannelCap = 2
  WireCap = 1
SPECIFICATION Spec
INVARIANTS SlotBound NoSlotLeak NoLostSlotWake NobodyLeftParked
CHECK_DEADLOCK FALSE
