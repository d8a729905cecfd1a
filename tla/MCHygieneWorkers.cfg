\* Workers die but never outlive their lease; no commands.
CONSTANTS
  Rows <- TwoRows
  ChunkSize = 1
  MaxAttempts = 2
  Tasks = {t1, t2, t3}
  NoTask = NoTask
  Commands = {}
  Crashes = TRUE
  SlowWorkers = FALSE
  HygieneOutcomes <- CleanFile
  ItemOutcomes = {"SUCCEEDED"}
SPECIFICATION Spec
INVARIANTS
  RowsAreLostOnlyByExhaustion
  OneWorkerPerChunk
PROPERTIES
  SettlementComesLast
SYMMETRY TaskSymmetry
