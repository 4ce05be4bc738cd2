SPECIFICATION Spec
CONSTANTS
  QMax = 1
  Handlers <- SomeHandlers
  Workers = {w1}
  Apps = {a1}
  Nobody = Nobody
  NoHandle = NoHandle
  Blocks = 1
  BlockSz = 1
  Fds = {3}
  MaxConns = 3
  MaxCalls = 2
  UnkidMod = 4
  WorkCap = 1
  RingCap = 1
  HangUps = FALSE
CHECK_DEADLOCK FALSE
INVARIANTS TypeOK EventsOnlyPolled FetchedIsPolled NothingForgotten HandleNamesConnection
