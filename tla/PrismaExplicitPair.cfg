SPECIFICATION Spec
CONSTANTS
  Members <- MCMembers
  Int64Max = 6
  RootColumns <- NullPair
  RowColumns = {}
  Cells <- FewCells
  Literals <- FewLiterals
  Operators = {"pair", "eq", "ne", "not"}
  Admitted = {"explicitPair"}
  MaxLeaves = 1
  MaxNodes = 2
INVARIANT NeverOverGrants
CHECK_DEADLOCK FALSE
