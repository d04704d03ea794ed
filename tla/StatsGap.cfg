SPECIFICATION FairSpec
CONSTANTS
  Job = {"daily", "weekly"}
  Forced = {"weekly"}
  Overlap = FALSE
  Batches = 2
  MaxYear = 4
  BaseYears = 3
  Depth = 1
  PerDay = 2
  MaxTime = 4
  CatalogueKinds = {"ok"}
  ProbeKinds = {"ok"}
  MaxAborts = 1
  None = None
INVARIANTS NoMissedUpdate
CHECK_DEADLOCK FALSE
