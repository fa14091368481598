SPECIFICATION Spec
CONSTANTS
  Modes <- QuietTimed
  N = 2
  ShardSizes = {0}
INVARIANTS RightHost
