SPECIFICATION DebugSpec
CONSTANTS
  DebugSz = 12
  RecordSz = {4, 5, 7}
  MaxRecords = 4
  MaxTold = 14
INVARIANT HeadIntact
CHECK_DEADLOCK FALSE
