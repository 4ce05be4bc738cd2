SPECIFICATION Spec
CONSTANTS
  Sweepers = {w1, w2}
  Finders = {}
  Owners = {o1}
  NoOne = NoOne
  Cells = {c1, c2, c3}
  Null = Null
  Addresses = {1, 2, 3, 4, 5, 6}
  FirstSz = 2
  Nodes = {1, 2, 3, 4}
  Els = 2
  Strings = {x1, x2}
  Mallocs = {m1, m2}
  Stack = Stack
  NoBlock = NoBlock
  BlockHead = 2
  StackSz = 8
  BuffSz = 10
  Lengths = {0, 2, 5, 9}
  WordSz = 256
  BufSz = 4
  HeadSz = 1
  MaxSet = 5
  MaxWritten = 12
  N = 4
  BufMax = 3
  Iscont = FALSE
  Ahead = 3
  MaxOutput = 10
  Apps = {a1, a2}
  Nobody = Nobody
  StackBuf = 3
  Pipelined = FALSE
  Most <- Some
  RecvBuf = 4
  MaxPeer = 10
  StatSz = 3
  Low = 3
  Ticks = {3, 4, 5, 6, 7}
  Counts = {1}
  MaxAdds = 6
  DebugSz = 12
  RecordSz = {4, 5}
  MaxRecords = 4
  MaxTold = 14
INVARIANTS DataTypeOK SendDataSound RingSound EachOnce InOrder RecvSound StatisticsSound PointerAlive
PROPERTIES AllocatorSound UseStable FreesWhatItSaw CgiMarkedFreed ImplementsByteQueue
