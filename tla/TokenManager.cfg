SPECIFICATION FairSpec
CONSTANTS
  Calls = {g1, p1}
  Posts = {p1}
  maxRetries = 1
  MaxEvents = 2
INVARIANTS
  NoHerd
  CacheIsCurrent
PROPERTIES
  QuietIsReported
  EveryCallEnds
