SPECIFICATION ResolverSpec
CONSTANTS
  acme = acme
  challenge = challenge
  ns = ns
  ns_2 = ns_2
  host = host
  dept = dept
  dotted = dotted
  soa = soa
  v1 = v1
  v2 = v2
  Octet <- AllOctets
  Dotted = dotted
  AcmeLabels <- AcmeName
  NsLabels <- NsName
  NsLabels2 <- NsName2
  NsIp <- ServerIp
  AnySoa = soa
  AskedLabels <- SomeLabels
  AskedType = {"A", "TXT"}
  Value = {v1}
INVARIANTS ExistingNeverDenied
