SPECIFICATION Spec
CONSTANTS
  NumEpisodes = 2
  MaxTurns = 2
  MaxUserTurns = 2
  MaxResets = 2
  CancelAt = {"stepping"}
  ResponseLength = 4
  WantLogProbs = TRUE
  MaxGenerated = 2
  MaxObserved = 1
  None = None
INVARIANT OwnActions
CHECK_DEADLOCK FALSE
