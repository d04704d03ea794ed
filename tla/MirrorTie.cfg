SPECIFICATION FairSpec
CONSTANTS
  e1 = e1
  e2 = e2
  Entity = {e1}
  NoRow = NoRow
  NoTask = NoTask
  Kinds = {"statement", "sitelink"}
  MaxEvents = 3
  DistinctSeconds = FALSE
  Chunks <- MCChunks
  CheckpointBatch = 2
  MaxDrops = 0
  DropKinds = {"close", "fault"}
  BatchSize = 2
  Concurrency = 2
  MaxFaults = 0
  Unfetchable = {}
CHECK_DEADLOCK FALSE
PROPERTIES ConcurrentEditKeepsRow
