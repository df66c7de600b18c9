SPECIFICATION FairSpec
CONSTANTS
  Corpus <- ThreeCases
  Pins <- MCPins
  DroppedTag = "0.54.0"
  Workers = {w1, w2}
  Plans <- MCPlans
  Behaviours <- AnyBehaviour
  Declarations <- AnyDeclaration
  Flakes <- AnyFlake
  Divergent = {}
  Repeats = 2
  Batches = 2
  Tries = 2
  MaxRuns = 1
  MayFail = TRUE
INVARIANT TypeOK
INVARIANT OnePlanPerGolden
INVARIANT OkMeansDeclared
INVARIANT OnePDPAtATime
PROPERTY RunsEnd
CHECK_DEADLOCK FALSE
