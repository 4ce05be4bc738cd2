SPECIFICATION FairSpec
CONSTANTS
  QMax = 1
  Handlers <- LiveHandlers
  Workers = {w1}
  Apps = {a1}
  Nobody = Nobody
  NoHandle = NoHandle
  Blocks = 1
  BlockSz = 1
  Fds = {3}
  MaxConns = 2
  MaxCalls = 2
  UnkidMod = 4
  WorkCap = 1
  RingCap = 2
  HangUps = FALSE
PROPERTY CloseCarriedOut
