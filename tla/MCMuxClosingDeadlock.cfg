CONSTANTS
  A = A
  B = B
  None = None
  Peer = {A, B}
  Nonce = {1}
  Configs <- Synchronized
  ChannelCap = 1
  WireCap <- OneFromEach
  MaxSent <- OneEach
  MaxPings <- OnlyA
  Closers = {A, B}
  Violators = {}
  Droppers = {}
SPECIFICATION FairSpec
PROPERTIES CloseCompletes
CHECK_DEADLOCK FALSE
