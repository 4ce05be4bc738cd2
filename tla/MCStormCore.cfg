SPECIFICATION Spec
CONSTANTS
  QMax = 1
  Handlers <- FewHandlers
  Workers = {w1, w2}
  Apps = {}
  Nobody = Nobody
  NoHandle = NoHandle
  Blocks = 2
  BlockSz = 1
  Fds = {3, 4}
  MaxConns = 2
  MaxCalls = 0
  UnkidMod = 4
  WorkCap = 1
  RingCap = 1
  HangUps = FALSE
SYMMETRY Symmetry
INVARIANTS Ownership Resources
PROPERTY ImplementsSlots
