\* The daily delta never exports a month again.
SPECIFICATION MirrorSpec
CONSTANTS
  MaxMonth = 2
  MaxWork = 1
  MaxVersion = 2
  MaxPublications = 2
  MaxMirrorFaults = 0
PROPERTY DeltaCatchesUp
CHECK_DEADLOCK FALSE
