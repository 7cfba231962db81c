\* Two threads that parse twice each, up to two code blocks per tree.
SPECIFICATION Spec
CONSTANTS
  Threads = {t1, t2}
  MaxCalls = 2
  MaxBlocks = 2
  NoTree = none
SYMMETRY ThreadSymmetry
INVARIANTS
  IInv
  NodesAreOfLiveTrees
  LossesAreBounded
