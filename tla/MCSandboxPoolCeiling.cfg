SPECIFICATION Spec
CONSTANTS
  Episodes = {e1, e2}
  Sandboxes = {s1, s2, s3, s4}
  Size = 2
  MaxProvisionRetries = 0
  PrewarmCancellable = TRUE
  MaxFaults = 1
  None = None
INVARIANT LiveCeiling
CHECK_DEADLOCK FALSE
