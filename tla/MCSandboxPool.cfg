SPECIFICATION Spec
CONSTANTS
  Episodes = {e1, e2, e3}
  Sandboxes = {s1, s2, s3, s4, s5}
  Size = 2
  MaxProvisionRetries = 1
  PrewarmCancellable = FALSE
  MaxFaults = 2
  None = None
SYMMETRY Symmetry
INVARIANTS
  TypeOK
  LeaseExclusive
  SlotsConserved
  LiveCeiling
  HandlesRegistered
  LeaksNeedFaults
  ClosedPoolEmpty
CHECK_DEADLOCK FALSE
