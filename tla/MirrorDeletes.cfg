SPECIFICATION FairSpec
CONSTANTS
  e1 = e1
  e2 = e2
  Entity = {e1, e2}
  NoRow = NoRow
  NoTask = NoTask
  Kinds = {"statement","log_delete","log_restore"}
  MaxEvents = 3
  DistinctSeconds = TRUE
  Chunks <- MCChunks
  CheckpointBatch = 2
  MaxDrops = 1
  DropKinds = {"close"}
  BatchSize = 2
  Concurrency = 2
  MaxFaults = 1
  Unfetchable = {e2}
PROPERTIES ReplicaSafe Converges
CHECK_DEADLOCK FALSE
