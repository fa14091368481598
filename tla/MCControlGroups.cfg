SPECIFICATION Spec
CONSTANTS
  Nodes = {n1, n2}
  Names = {a, b}
  Jobs = {j1, j2}
  ParallelLimit = 1
  MaxVerify = 1
SYMMETRY Symmetry
INVARIANTS InstallingIsWorkedOn ActiveIsScraped
CHECK_DEADLOCK FALSE
