\* One scanner: a condition missing at level one is reported at level two.
SPECIFICATION Spec
CONSTANTS
  a = a
  b = b
  c = c
  d = d
  x = x
  z = z
  Scanners = {s1}
  MaxBlocks <- AloneOnce
  Expressions <- MCExpressions
  Malformed = malformed
  Trained <- MCTrained
  Distance <- MCDistance
  Blocks <- MCBlocks
  Strays <- NoStrays
  max_cost = 2
  max_autocorrections = 3
  anomaly_threshold = 3
INVARIANTS
  MissingAtOneOnlyIsNotReported
