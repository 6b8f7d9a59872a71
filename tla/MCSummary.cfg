\* The fold of packets into the summaries, the input table and the rings.
CONSTANTS
  s1 = s1  s2 = s2  s3 = s3  e1 = e1  r1 = r1  c1 = c1  rd = rd
  NoRule = NoRule
  Sources <- MCSources
  EthTypes <- MCEthTypes
  Rules <- MCRules
  Countries <- MCCountries
  Readers <- MCReaders
  GeoIP = FALSE
  MaxPacketCount = 2
  SummaryTime = 1
  MaxTime = 3
  MaxPackets = 4
SPECIFICATION Spec
INVARIANT TypeOK
INVARIANT SummaryConservation
INVARIANT MatchRingIsRecentSuffix
CHECK_DEADLOCK FALSE
