SPECIFICATION GateSpec
CONSTANTS
  r1 = r1
  r2 = r2
  r3 = r3
  Request = {r1, r2, r3}
  Burst = 5
  Price = 2
  Refill = 1
  Permits = 2
  WindowUnits = 9
SYMMETRY Symmetry
INVARIANTS WindowBound
PROPERTIES LazyIsEager
