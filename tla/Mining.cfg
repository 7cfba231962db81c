\* Two job slots, or none without GNU parallel, on two files.
SPECIFICATION Spec
CONSTANTS
  Tokens <- MCTokens
  TreesOf <- MCTreesOf
  Height <- MCHeight
  Repositories <- MCRepositories
  Conditions <- MCConditions
  Unreadable = unreadable
  unreadable = unreadable
  NUM_MINER_PROCS = 2
INVARIANTS
  TypeOK
  MinedOnceAndWhole
  FoundAtOneIsFoundAtTwo
  NoneBeginsAnother
