SPECIFICATION FairSpec
CONSTANTS
  Episodes = {e1, e2}
  Sandboxes = {s1, s2, s3}
  Size = 1
  MaxProvisionRetries = 1
  PrewarmCancellable = TRUE
  MaxFaults = 1
  None = None
PROPERTIES
  AcquireResolves
  CloseSettles
  ImplementsLeasePool
CHECK_DEADLOCK FALSE
