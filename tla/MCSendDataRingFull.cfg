SPECIFICATION RingSpec
CONSTANTS
  N = 4
  BufMax = 3
  Iscont = FALSE
  Ahead = 4
  MaxOutput = 10
INVARIANT NothingLost
CHECK_DEADLOCK FALSE
