SPECIFICATION FairSpec
CONSTANTS
  h1 = h1
  h2 = h2
  q1 = q1
  q2 = q2
  short = short
  brief = brief
  long = long
  Handler = {h1, h2}
  Query = {q1}
  Value = {short, long}
  NoValue = NoValue
  NoTask = NoTask
  Lifetime = 1
  MaxTokens = 2
  WireUnits = 2
  SerialModulus = 2
  Fits <- FitsUnits
PROPERTIES CallsComplete AbandonedExpire
