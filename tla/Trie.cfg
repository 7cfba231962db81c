\* Up to three lines whose expressions begin one another, then a search.
SPECIFICATION SearchSpec
CONSTANTS
  Alphabet = {"1", "2"}
  Expressions <- Nested
  Contributors = {c1, c2}
  MaxLines = 3
  Targets <- Near
  max_cost = 2
SYMMETRY ContributorSymmetry
INVARIANTS
  TypeOK
  OccurrencesCountPrefixes
  TerminalsAreTheTrainingSet
  PathsAreTheTrainingSet
  OneEditIsFound
