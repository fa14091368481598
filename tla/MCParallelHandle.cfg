SPECIFICATION LiveSpec
CONSTANTS
  Modes <- AllModes
  N = 2
  ShardSizes = {0, 1}
INVARIANTS TypeOK RightHostSharded
PROPERTIES AnswerIsTrue HealthyKept OneStep CallReturns
