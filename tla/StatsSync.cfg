SPECIFICATION FairSpec
CONSTANTS
  Job = {"daily", "weekly"}
  Forced = {"weekly"}
  Overlap = FALSE
  Batches = 2
  MaxYear = 3
  BaseYears = 2
  Depth = 2
  PerDay = 2
  MaxTime = 4
  CatalogueKinds = {"ok", "none"}
  ProbeKinds = {"ok", "undated", "fails"}
  MaxAborts = 1
  None = None
PROPERTIES SyncCovers CatalogueSkipIsSafe NeverGoesBack Reconciles
CHECK_DEADLOCK FALSE
