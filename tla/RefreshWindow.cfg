SPECIFICATION WindowSpec
CONSTANTS
  TokenRefreshThreshold = 3
  TokenRefreshWindow = 2
  MaxTime = 8
  MaxLog = 8
INVARIANT MissedAtMostTwice
PROPERTY HaltIsEarned
CHECK_DEADLOCK FALSE
