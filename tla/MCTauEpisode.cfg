SPECIFICATION FairSpec
CONSTANTS
  NumEpisodes = 3
  MaxTurns = 3
  MaxUserTurns = 2
  MaxResets = 2
  CancelAt = {"resetting", "seeding", "deciding", "replying", "rewarding", "scoring"}
  ResponseLength = 4
  WantLogProbs = TRUE
  MaxGenerated = 2
  MaxObserved = 1
  None = None
INVARIANTS
  TypeOK
  SampleIsSound
  HistoriesAgree
PROPERTIES
  GradedOnce
  EpisodeEnds
CHECK_DEADLOCK FALSE
