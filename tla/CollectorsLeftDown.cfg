SPECIFICATION Spec
CONSTANTS
  Names = {"gpu", "rccl", "inspector"}
  SshNames = {"gpu", "rccl"}
  RcclNames = {"rccl"}
  MaxCrashes = 1
  MaxReloads = 1
INVARIANT NoneLeftDown
CHECK_DEADLOCK FALSE
