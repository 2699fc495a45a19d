CONSTANTS
  A = A
  B = B
  x = x
  y = y
  None = None
  Peer = {A, B}
  Id = {x}
  Handle <- OneStream
  max_num_streams <- OneSlot
  MaxWrites <- ThreeByA
  DEFAULT_CREDIT = 2
  FailingPeers = {}
  ChannelCap = 2
  WireCap = 1
SPECIFICATION FairSpec
PROPERTIES PendingIsSent CreditReturns DropReachesPeer
CHECK_DEADLOCK FALSE
