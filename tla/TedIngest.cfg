SPECIFICATION FairSpec
CONSTANTS
  Notice = {"n1", "n2"}
  Versionless = {"n2"}
  Bare = {}
  Linkless = {}
  Bad = {"n2"}
  Old = {"n2"}
  Entity = {"buyer", "supplier"}
  Parents <- MCParents
  Bulk = {"bulk"}
  MaxVersion = 2
  MaxDay = 2
  Lookback = 1
  TransientRetries = 2
  MaxLag = 1
  MaxFaults = 1
INVARIANT Covered
PROPERTIES NoStubs NoDateSkipped IngestSettles
CHECK_DEADLOCK FALSE
