\* Every page of the dashboard at once, each with one or two requests in flight.
SPECIFICATION Spec
CONSTANTS
  Paths = {p1, p2}
  Generated = {p1}
  NoPath = NoPath
  Unlisted = Unlisted
  MaxJobs = 1
  MaxLists = 1
  Ids = {r1, r2}
  System = {r1}
  None = None
  MaxLoads = 2
  MaxTasks = 1
  MaxAsks = 2
  MaxSessions = 3
  MaxRuns = 3
  MaxRevision = 3
  MaxRefreshes = 2
  MaxMetaLoads = 1
  MaxRecent = 2
  MaxReads = 1
  NoAnswer = NoAnswer
INVARIANTS
  OwnText
  FormsMatchRecords
  PlansAsApproved
  OneConversation
  NeverOlder
  SentAsOffered
  GateHolds
CHECK_DEADLOCK FALSE
