SPECIFICATION Spec
CONSTANTS
  Orders = {o1, o2, o3}
  Hooks = {h1, h2}
  MaxWorkers = 1
  None = None
SYMMETRY Symmetry
INVARIANTS
  DeployedOnce
  TokenOnce
  WorkerLimit
  StoppedIsClean
CHECK_DEADLOCK FALSE
