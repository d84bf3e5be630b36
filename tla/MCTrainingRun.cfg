SPECIFICATION TSpec
CONSTANTS
  MaxStep = 2
  Shards = {a, b}
  MaxRuns = 2
  Envs = {e1, e2}
  MaxPasses = 2
SYMMETRY Symmetry
INVARIANTS
  TTypeOK
  Published
  LaunchedIsPersisted
  SweptUnlessInFlight
CHECK_DEADLOCK FALSE
