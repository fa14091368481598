SPECIFICATION Spec
CONSTANTS
  Hosts = {a, b}
  Lifetimes = {"no_launch", "per_run", "persistent"}
  Sources = {"tar", "registry", "public"}
  Noisy = {}
  MaxMeddle = 1
  MaxCalls = 3
VIEW WithoutAnswers
SYMMETRY HostSymmetry
CHECK_DEADLOCK FALSE
INVARIANTS TypeOK NothingForgotten
PROPERTIES SetupMeansAllRun RunningKept
