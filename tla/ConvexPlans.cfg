SPECIFICATION Spec
CONSTANTS
  Members <- MCMembers
  Int64Max = 2
  Refs = {r1}
  DocValues <- EveryType
  Literals <- EveryLiteral
  Mappings = {"unmapped", "undeclared", "nullable", "required"}
  Conventions = {"explicit", "omitted"}
  Operators <- AllOperators
  MistypedConditions = FALSE
  MaxNodes = 4
  MaxWidth = 3
INVARIANT TypeOK
INVARIANT PushdownExact
INVARIANT AnswerIsVerdict
INVARIANT HalvesDecide
INVARIANT CandidatesOptedIn
PROPERTY ImplementsContract
CHECK_DEADLOCK FALSE
