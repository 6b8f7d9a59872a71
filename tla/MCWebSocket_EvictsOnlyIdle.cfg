CONSTANTS
  k1 = k1
  k2 = k2
  Conns <- MCConns
  MaxTime = 3
  MaxMsgs = 2
SPECIFICATION Spec
PROPERTY EvictsOnlyIdle
CHECK_DEADLOCK FALSE
