SPECIFICATION Spec
CONSTANTS
  Members <- MCMembers
  Int64Max = 6
  Refs = {x, y}
  Entries <- FewEntries
  Cells <- FewCells
  Literals <- FewLiterals
  Parse <- MCParse
  Rendered = 20
  DoubleMax = 40
  Operators <- MostOperators
  Admitted = {}
  MaxRefs = 2
  MaxNodes = 4
SYMMETRY TwoRefs
INVARIANT TypeOK
INVARIANT MatchesProven
INVARIANT DeclaredIsExact
INVARIANT ScalarsAgree
PROPERTY ImplementsContract
CHECK_DEADLOCK FALSE
