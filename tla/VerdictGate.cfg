CONSTANTS
  p1 = p1
  p2 = p2
  PRs = {p1, p2}
  Metas <- SomeMetas
  Contents <- AllContents
  Verdicts <- AllVerdicts
  Rules <- Mapping
  Guarded <- Sacred
  PRNonApproveLimit = 1
  GlobalNonApproveLimit = 0
  MaxPushes <- SomePushes
  MaxRuns = 3
  MaxReviews = 1
  MaxClears = 1
SPECIFICATION Spec
CHECK_DEADLOCK FALSE
INVARIANTS
  GreenIsReviewed
  StreakIsCapped
  OvershootIsBounded
PROPERTIES
  VerdictSticks
