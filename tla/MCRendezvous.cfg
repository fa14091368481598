SPECIFICATION FairSpec
CONSTANTS
  Workers = {w1, w2}
  MaxRun = 2
  StaleBeats = 3
INVARIANTS TypeOK NeverUnauthorized TestsReachAgents GiveUpOnlyOnSilence
PROPERTIES OneManagedRun RunEnds
CHECK_DEADLOCK FALSE
