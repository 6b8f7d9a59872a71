CONSTANTS
  a1 = a1
  a2 = a2
  c1 = c1
  c2 = c2
  NoAddr = NoAddr
  Addrs <- MCAddrs
  MaxOps = 3
  Callers <- MCOneCaller
  InitBlack <- MCEmptyList
  SaveMayFail = FALSE
  ErrClosedMatches = TRUE
SPECIFICATION Spec
INVARIANT NoShutdownPanic
CHECK_DEADLOCK FALSE
