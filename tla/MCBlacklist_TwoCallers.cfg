CONSTANTS
  a1 = a1
  a2 = a2
  c1 = c1
  c2 = c2
  NoAddr = NoAddr
  Addrs <- MCAddrs
  MaxOps = 3
  Callers <- MCTwoCallers
  InitBlack <- MCEmptyList
  SaveMayFail = FALSE
  ErrClosedMatches = FALSE
SPECIFICATION Spec
INVARIANT KernelBlocksOnlyListed
CHECK_DEADLOCK FALSE
