SPECIFICATION HttpSpec
CONSTANTS
  h1 = h1
  h2 = h2
  h3 = h3
  q1 = q1
  short = short
  brief = brief
  Handler = {h1, h2, h3}
  Query = {}
  Value = {short, brief}
  NoValue = NoValue
  NoTask = NoTask
  Lifetime = 1
  MaxTokens = 1
  SerialModulus = 2
  Fits <- FitsOne
  Burst = 1
  Price = 1
  Refill = 1
  Permits = 2
SYMMETRY Symmetry
INVARIANTS StatusHonest PermitsHeldByWork
PROPERTIES PartsUsedProperly ZoneFollowsRequests
