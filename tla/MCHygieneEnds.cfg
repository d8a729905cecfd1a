\* Exceptions and lost publications, under fairness.
CONSTANTS
  Rows <- TwoRows
  ChunkSize = 1
  MaxAttempts = 2
  Tasks = {t1, t2}
  NoTask = NoTask
  Commands = {}
  Crashes = FALSE
  SlowWorkers = FALSE
  HygieneOutcomes <- CleanFile
  ItemOutcomes = {"SUCCEEDED"}
SPECIFICATION FairSpec
INVARIANTS
  NoRowIsLost
PROPERTIES
  
  BatchEnds
