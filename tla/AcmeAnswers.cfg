SPECIFICATION Spec
CONSTANTS
  h1 = h1
  h2 = h2
  q1 = q1
  q2 = q2
  short = short
  brief = brief
  long = long
  Handler = {h1}
  Query = {q1, q2}
  Value = {short, brief, long}
  NoValue = NoValue
  NoTask = NoTask
  Lifetime = 2
  MaxTokens = 2
  WireUnits = 2
  SerialModulus = 3
  Fits <- FitsUnits
SYMMETRY Symmetry
INVARIANTS SerialNamesContent
