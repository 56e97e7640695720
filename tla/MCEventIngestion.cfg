\* Runs that do not overlap, two failures, an RPC that always returns a cursor.
CONSTANTS
  Runs = {w1}
  Window = 2
  PageSize = 2
  FirstHead = 3
  CursorOptional = FALSE
  MaxHead = 6
  MaxFailures = 2
  MaxCopies = 4
SPECIFICATION FairSpec
INVARIANTS
  CopiesBoundedByFailures
PROPERTIES
  EventuallyIngested
CHECK_DEADLOCK FALSE
