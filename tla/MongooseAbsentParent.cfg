SPECIFICATION Spec
CONSTANTS
  Members <- MCMembers
  Int64Max = 2
  Shape <- FiveShapes
  Scalar <- FewScalars
  Stored <- FewLists
  Literals <- FewLiterals
  Conventions = {"explicit", "omitted"}
  Nullability = {"undeclared", "yes"}
  ValueTypes = {"none", "num"}
  Operators <- MostOperators
  Admitted = {"absentParent"}
  MaxRefs = 2
  MaxNodes = 3
INVARIANT NeverOverGrants
CHECK_DEADLOCK FALSE
