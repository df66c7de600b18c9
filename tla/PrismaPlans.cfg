SPECIFICATION Spec
CONSTANTS
  Members <- MCMembers
  Int64Max = 6
  RootColumns <- FewRoot
  RowColumns <- FewRow
  Cells <- FewCells
  Literals <- FewLiterals
  Operators <- MostOperators
  Admitted = {}
  MaxLeaves = 2
  MaxNodes = 4
INVARIANT TypeOK
INVARIANT MatchesProven
INVARIANT LostOnlyMissing
CHECK_DEADLOCK FALSE
