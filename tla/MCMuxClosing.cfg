CONSTANTS
  A = A
  B = B
  None = None
  Peer = {A, B}
  Nonce = {1}
  Configs <- SomeConfigs
  ChannelCap = 1
  WireCap <- OneFromA
  MaxSent <- OneEach
  MaxPings <- OnlyA
  Closers = {A, B}
  Violators = {B}
  Droppers = {A}
SPECIFICATION FairSpec
INVARIANTS TypeOK FlushedBeforeTerm PingTracked GracefulClose
PROPERTIES CloseCompletes
CHECK_DEADLOCK FALSE
