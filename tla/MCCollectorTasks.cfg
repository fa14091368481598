SPECIFICATION FairSpec
CONSTANTS
  Names = {"gpu", "rccl", "inspector"}
  SshNames = {"gpu", "rccl"}
  RcclNames = {"rccl"}
  MaxCrashes = 3
  MaxReloads = 2
INVARIANTS TypeOK ManagerIsCurrent
PROPERTIES OneTaskEach CrashedComesBack
CHECK_DEADLOCK FALSE
