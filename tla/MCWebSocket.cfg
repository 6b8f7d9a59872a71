CONSTANTS
  k1 = k1
  k2 = k2
  Conns <- MCOneConn
  MaxTime = 3
  MaxMsgs = 2
SPECIFICATION FairSpec
INVARIANT TypeOK
PROPERTY PumpEventuallyExits
CHECK_DEADLOCK FALSE
