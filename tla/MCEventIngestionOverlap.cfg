\* Two overlapping runs, a failure, and pages that may come without a cursor.
CONSTANTS
  Runs = {w1, w2}
  Window = 1
  PageSize = 2
  FirstHead = 2
  CursorOptional = TRUE
  MaxHead = 4
  MaxFailures = 1
  MaxCopies = 1
SPECIFICATION FairSpec
INVARIANTS
  CheckpointCovers
PROPERTIES
  OverlapStillIngests
CHECK_DEADLOCK FALSE
