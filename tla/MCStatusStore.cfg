\* One poll, one write, two streams, one outage or expiry.
SPECIFICATION StoreFairSpec
CONSTANTS
  Polls = {p1}
  Writes = {w1}
  Streams = {s1, s2}
  Null = Null
  Attempts = 2
  StaleAfter = 1
  MaxVersion = 1
  MaxTroubles = 1
INVARIANTS
  FreshIsRecent
  WritesApplyOnce
PROPERTIES
  StreamInOrder
  Recovers
CHECK_DEADLOCK FALSE
