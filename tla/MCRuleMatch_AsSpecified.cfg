\* The deployed daemon with one CITY rule in its config file.
CONSTANTS
  c1 = c1
  c2 = c2
  Caseless <- MCCaseless
  Addrs <- MCAddrs
  NetOf <- MCNetOf
  Macs <- MCMacs
  EthTable <- MCEthTable
  ProtoTable <- MCProtoTable
  Packets <- MCPackets
  InitRules <- MCCityRules
  Payloads <- MCPayloads
  Callers = {c1}
  PayloadTyped = FALSE
  SaveMayFail = FALSE
  MaxOps = 0
SPECIFICATION Spec
INVARIANT RuleMatchAsSpecified
