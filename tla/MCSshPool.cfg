SPECIFICATION FairSpec
CONSTANTS
  Hosts = {h1}
  Links = {"up", "refused", "silent"}
  DialCap = 2
  MaxCred = 2
  MaxRefresh = 1
  MaxFault = 1
INVARIANTS NoHostLost NudgeNotLost SetsDisjoint
PROPERTIES OneConnectionPerHost UpIsReachable RefusedIsNoticed
CHECK_DEADLOCK FALSE
