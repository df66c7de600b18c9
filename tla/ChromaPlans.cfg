SPECIFICATION Spec
CONSTANTS
  Members <- MCMembers
  Int64Max = 3
  Refs = {"x", "y"}
  Metadata <- FewMetadata
  Declarations <- FewDeclarations
  Literals <- FewLiterals
  Parse <- MCParse
  Rendered = 3
  DoubleMax = 6
  Operators <- MostOperators
  Admitted = {}
  MaxRefs = 2
  MaxNodes = 4
INVARIANT TypeOK
INVARIANT PredicateFaithful
INVARIANT PushdownExact
CHECK_DEADLOCK FALSE
