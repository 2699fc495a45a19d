SPECIFICATION Spec
CONSTANTS
  None = None
  Hang = Hang
  Panic = Panic
  Err = Err
  Idle = Idle
  MaxMessages = 2
  MaxTokens = 26
  MaxBody = 24
  HeaderLists <- SomeHeaders
  Payloads <- SomePayloads
  ChunkLists <- SomeChunks
  TrailerLists <- SomeTrailers
  Documents <- SomeDocuments
INVARIANTS SpansExact RedactionExact NothingRefused
CHECK_DEADLOCK FALSE
