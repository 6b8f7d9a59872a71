\* Rule sets replaced by two concurrent set_rules callers.
CONSTANTS
  c1 = c1
  c2 = c2
  Caseless <- MCCaseless
  Addrs <- MCAddrs
  NetOf <- MCNetOf
  Macs <- MCMacs
  EthTable <- MCEthTable
  ProtoTable <- MCProtoTable
  Packets <- MCPackets
  InitRules <- MCInitRules
  Payloads <- MCPayloads
  Callers = {c1, c2}
  PayloadTyped = TRUE
  SaveMayFail = TRUE
  MaxOps = 4
SPECIFICATION Spec
INVARIANT TypeOK
CHECK_DEADLOCK FALSE
