\* Two pictures and three requests: one picture replaced by the other.
SPECIFICATION PhotosSpec
CONSTANTS
  Uploads = {"p1", "p2"}
  MaxRequests = 3
INVARIANT FailedReplacementKeepsFile
CHECK_DEADLOCK FALSE
