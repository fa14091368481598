SPECIFICATION Spec
CONSTANTS
  Confs = {"direct", "jump1"}
  Jump = {"jump1"}
  NodeLists = {"a"}
  MaxDaemonRestarts = 1
  MaxProcs = 4
  MaxFaults = 1
  MaxEdits = 0
  MaxReloads = 0
  MaxExecs = 0
INVARIANT KeyFollowsTheDaemon
CHECK_DEADLOCK FALSE
