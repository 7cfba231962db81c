\* One call: the strings of the assertions are not freed.
SPECIFICATION Spec
CONSTANTS
  Threads = {t1}
  MaxCalls = 1
  MaxBlocks = 1
  NoTree = none
INVARIANTS
  NodeStringsAreFreed
