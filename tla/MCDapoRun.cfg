SPECIFICATION DFairSpec
CONSTANTS
  Ranks = {r0, r1}
  Writer = r0
  Replicas = {q1, q2}
  Tensors = 2
  MaxSteps = 1
  Shards = {m1, m2}
INVARIANTS
  NothingLeft
  ServedPolicy
PROPERTIES
  ExportEnds
CHECK_DEADLOCK FALSE
