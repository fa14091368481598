SPECIFICATION Spec
CONSTANTS
  Workers = {w1}
  MaxRun = 2
  StaleBeats = 3
INVARIANTS
  RendezvousIsCurrent
CHECK_DEADLOCK FALSE
