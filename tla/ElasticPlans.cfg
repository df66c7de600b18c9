SPECIFICATION Spec
CONSTANTS
  Members <- MCMembers
  Int64Max = 2
  Attributes = {a1}
  DocValues <- EveryValue
  Objects <- MCObjects
  Literals <- EveryLiteral
  Lookups <- MCLookups
  Declarations <- EveryDeclaration
  MisusedShapes = FALSE
  MaxNodes = 4
  MaxWidth = 3
INVARIANT TypeOK
INVARIANT MatchesAreProven
INVARIANT OnlyNullsAreLost
PROPERTY ImplementsContract
CHECK_DEADLOCK FALSE
