SPECIFICATION Spec
CONSTANTS
  Requests <- SomeRequests
  FileSz = 7
  TextSz = 2
  SendSz = 4
  KernelSz = 2
  MaxHead = 3
  Patient = TRUE
  MaxAsked = 3
  Streams <- SomeStreams
  HelloSz = 3
  MaxFrame = 10
  ServerBuf = 14
  GrowSz = 4
  MaxBuf = 12
  Kinds = {"http", "socks"}
  MaxSaid <- FewBytes
  FlushSz = 1
INVARIANTS ProtocolsTypeOK RepliesSound WebSocketSound Relayed
PROPERTIES Answered EndsTogether
