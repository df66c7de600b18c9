SPECIFICATION Spec
CONSTANTS
  Corpus <- MCCorpus
  Pins <- MCPins
  DroppedTag = "0.54.0"
  Workers = {w1, w2}
  Plans <- MCPlans
  Behaviours <- JustOneMoves
  Declarations <- NoDeclaration
  Flakes <- NoFlake
  Divergent = {}
  Repeats = 1
  Batches = 1
  Tries = 2
  MaxRuns = 2
  MayFail = FALSE
SYMMETRY WorkerSymmetry
INVARIANT EndsRegenerated
PROPERTY TreeKeptUntilRecorded
CHECK_DEADLOCK FALSE
