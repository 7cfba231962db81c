\* Three workers (max_threads 9..15) race over four paths.
SPECIFICATION FairSpec
CONSTANTS
  NumPaths = 4
  Near <- EvenPaths
  MaxThreads = 9
  NumWorkers = 3
INVARIANTS
  IInv
  OvershootBound
  CoverageBound
  ResultsAreTheVisitedNearPaths
  NoDanglingWorker
PROPERTIES
  ImplementsGreedyVisit
  Terminates
