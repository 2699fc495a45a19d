CONSTANTS
  A = A
  B = B
  x = x
  y = y
  None = None
  Peer = {A, B}
  Id = {x}
  Handle <- OneStream
  max_num_streams <- OneSlot
  MaxWrites <- BeyondCredit
  DEFAULT_CREDIT = 2
  FailingPeers = {}
  ChannelCap = 2
  WireCap = 1
SPECIFICATION Spec
INVARIANTS TypeOK RegistryConsistent NoLostWake EofMeansComplete LeftoversOnlyAfterReap
PROPERTIES UnclaimedStreamsKept
CHECK_DEADLOCK FALSE
