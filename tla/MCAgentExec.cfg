SPECIFICATION LiveSpec
CONSTANTS
  Requests = {r1, r2}
  Jobs <- MCJobs
CHECK_DEADLOCK FALSE
INVARIANTS
  TypeOK
  OneCommand
  ToldTheTruth
PROPERTIES
  OneSlotServer
  SignalsTheCurrent
  ExecEnds
  ShutdownCompletes
