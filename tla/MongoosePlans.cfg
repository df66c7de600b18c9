SPECIFICATION Spec
CONSTANTS
  Members <- MCMembers
  Int64Max = 2
  Shape <- FiveShapes
  Scalar <- FewScalars
  Stored <- FewLists
  Literals <- FewLiterals
  Conventions = {"explicit", "omitted"}
  Nullability = {"undeclared", "yes"}
  ValueTypes = {"none", "num"}
  Operators <- MostOperators
  Admitted = {}
  MaxRefs = 2
  MaxNodes = 5
INVARIANT TypeOK
INVARIANT MatchesProven
INVARIANT PipelineAgrees
INVARIANT LostOnlyGuarded
PROPERTY ImplementsContract
CHECK_DEADLOCK FALSE
