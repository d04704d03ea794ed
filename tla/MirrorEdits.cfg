SPECIFICATION FairSpec
CONSTANTS
  e1 = e1
  e2 = e2
  Entity = {e1, e2}
  NoRow = NoRow
  NoTask = NoTask
  Kinds = {"statement", "sitelink"}
  MaxEvents = 3
  DistinctSeconds = TRUE
  Chunks <- MCChunks
  CheckpointBatch = 2
  MaxDrops = 1
  DropKinds = {"close", "fault"}
  BatchSize = 2
  Concurrency = 2
  MaxFaults = 1
  Unfetchable = {}
INVARIANTS NoLostUpdate HalfWrittenIsDirty NothingSkipped
PROPERTIES ConcurrentEditKeepsRow ReplicaSpec
CHECK_DEADLOCK FALSE
