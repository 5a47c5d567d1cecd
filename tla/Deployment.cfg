SPECIFICATION DeploymentSpec
CONSTANTS
  Versions = 3
  Run = {r1, r2, r3}
  Absent = Absent
  Empty = Empty
  Certificates = Certificates
  WireMax = 2
  Value = {v1, v2}
  LastSecond = 2
  MaxLead = 1
INVARIANTS NoOldVersionLeft RemovedMeansStopped KeyOrInterrupted
INVARIANTS AllOrNothing NamesForEver StaysDownOnlyWhenAsked
PROPERTIES StartsOnlyWhatRan UpgradeKeepsService NothingReplaced NeverOlder ServiceReturns
