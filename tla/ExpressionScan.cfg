\* One scanner with three conditions, or two with one each.
SPECIFICATION Spec
CONSTANTS
  a = a
  b = b
  c = c
  d = d
  x = x
  z = z
  Scanners = {s1, s2}
  MaxBlocks <- AloneAndPair
  Expressions <- MCExpressions
  Malformed = malformed
  Trained <- MCTrained
  Distance <- MCDistance
  Blocks <- MCBlocks
  Strays <- MCStrays
  max_cost = 2
  max_autocorrections = 2
  anomaly_threshold = 3
SYMMETRY ScannerSymmetry
INVARIANTS
  TypeOK
  CacheIsSound
  ReportsHaveEvidence
  VerdictsFollowTraining
  SearchedOncePerScanner
  VerdictsComeInPairs
