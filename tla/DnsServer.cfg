SPECIFICATION FairServerSpec
CONSTANTS
  acme = acme
  ns1 = ns1
  ns2 = ns2
  Octet = {0, 1, 127}
  Dotted = dotted
  AcmeLabels <- AcmeName
  NsLabels <- NsName
  NsLabels2 <- NsName2
  NsIp <- ServerIp
  AnySoa = soa
  Client = {c1}
  Value = {v1, v2, v3, v4}
  Request <- SomeRequests
  BareSize = 5
  RecordSize = 4
  GlueSize = 4
  SpellingCost = 1
  PlainUdp = 9
  MaxUdp = 14
  WireLimit = 17
  MaxVersions = 5
INVARIANTS CompleteOrMarked CapacityServed DatagramsFit
PROPERTIES LookupEnds
