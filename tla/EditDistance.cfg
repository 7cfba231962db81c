\* All pairs of strings of up to three of three characters.
SPECIFICATION Spec
CONSTANTS
  Alphabet = {"1", "2", "("}
  Strings <- ShortStrings
INVARIANTS
  IInv
  CostIsFewestEdits
  ZeroCostIsEquality
