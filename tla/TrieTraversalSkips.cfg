\* Two workers: the comment on the loop does not hold.
SPECIFICATION Spec
CONSTANTS
  NumPaths = 3
  Near <- EvenPaths
  MaxThreads = 4
  NumWorkers = 2
INVARIANTS
  CompleteSearch
