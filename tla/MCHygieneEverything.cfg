\* Every command, crashes, slow workers.
CONSTANTS
  Rows <- TwoRows
  ChunkSize = 2
  MaxAttempts = 2
  Tasks = {t1, t2}
  NoTask = NoTask
  Commands <- AllCommands
  Crashes = TRUE
  SlowWorkers = TRUE
  HygieneOutcomes <- TwoRowFiles
  ItemOutcomes = {"SUCCEEDED"}
SPECIFICATION Spec
INVARIANTS
  CompletedChunkHasNoPendingItem
PROPERTIES
  ConfirmedItemsAreKept
SYMMETRY TaskSymmetry
