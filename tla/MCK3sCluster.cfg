\* Two worker names, three server identities, two interruptions.
SPECIFICATION FairSpec
CONSTANTS
  None = None
  Servers = {s1, s2, s3}
  MaxWorkers = 2
  MaxFaults = 2
INVARIANTS
  TypeOK
  OneControlPlane
  RunningIsRecorded
  GoneForGood
PROPERTIES
  DrainedBeforeDeleted
  DownCompletes
\* Nothing is left to do once down has archived the file.
CHECK_DEADLOCK FALSE
