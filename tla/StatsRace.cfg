SPECIFICATION FairSpec
CONSTANTS
  Job = {"daily", "weekly"}
  Forced = {"weekly"}
  Overlap = TRUE
  Batches = 2
  MaxYear = 3
  BaseYears = 2
  Depth = 1
  PerDay = 2
  MaxTime = 4
  CatalogueKinds = {"ok"}
  ProbeKinds = {"ok"}
  MaxAborts = 0
  None = None
PROPERTIES NeverGoesBack
CHECK_DEADLOCK FALSE
