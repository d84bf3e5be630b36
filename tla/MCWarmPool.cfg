SPECIFICATION FairSpec
CONSTANTS
  Workers = {w1}
  Claims = {c1, c2}
  Concurrency = 1
  PrepareAttempts = 2
  Sandboxes = {s1, s2, s3, s4}
  MaxFaults = 1
  None = None
INVARIANTS
  TypeOK
  OwnedOnce
  TotalBound
  ClosedClean
PROPERTIES
  ClaimResolves
  PoolCloses
  Replenishes
CHECK_DEADLOCK FALSE
