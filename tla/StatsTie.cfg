SPECIFICATION FairSpec
CONSTANTS
  Job = {"daily", "weekly"}
  Forced = {"weekly"}
  Overlap = FALSE
  Batches = 2
  MaxYear = 3
  BaseYears = 2
  Depth = 1
  PerDay = 3
  MaxTime = 5
  CatalogueKinds = {"ok"}
  ProbeKinds = {"ok", "fails"}
  MaxAborts = 0
  None = None
PROPERTIES SkipIsSafe
CHECK_DEADLOCK FALSE
