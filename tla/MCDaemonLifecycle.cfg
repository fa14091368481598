SPECIFICATION FairSpec
CONSTANTS
  Confs = {"direct", "jump1", "jump2"}
  Jump = {"jump1", "jump2"}
  NodeLists = {"a"}
  MaxDaemonRestarts = 1
  MaxProcs = 4
  MaxFaults = 2
  MaxEdits = 2
  MaxReloads = 2
  MaxExecs = 1
INVARIANTS TypeOK NothingLeftBehind ReloadApplies
PROPERTIES OneAtATime ComesBack
CHECK_DEADLOCK FALSE
