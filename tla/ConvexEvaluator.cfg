SPECIFICATION Spec
CONSTANTS
  Members <- MCMembers
  Int64Max = 3
  Refs = {"x"}
  DocValues <- FewDocValues
  Literals <- FewLiterals
  Conventions = {"explicit", "omitted"}
  Parse <- MCParse
  Rendered = 1
  DoubleMax = 6
  Operators <- MostOperators
  Admitted = {}
  MaxRefs = 1
  MaxNodes = 5
INVARIANT TypeOK
INVARIANT EvaluatorFaithful
INVARIANT ThrowsOnlyAtZero
CHECK_DEADLOCK FALSE
