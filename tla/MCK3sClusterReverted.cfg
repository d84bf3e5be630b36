\* A removal cut short, its recorded steps reverted, and the removal again.
SPECIFICATION Spec
CONSTANTS
  None = None
  Servers = {s1, s2, s3}
  MaxWorkers = 1
  MaxFaults = 1
PROPERTIES
  ScaleDownRemoves
CHECK_DEADLOCK FALSE
