SPECIFICATION FairSpec
CONSTANTS
  Threads = {t1, t2}
  NoThread = none
  Symbols = {s1}
  OrderFailureThreshold = 2
  TokenRefreshThreshold = 2
  TokenRefreshWindow = 1
  Times = {0}
  MaxFailures = 2
INVARIANTS
  InFlightBlocks
  NoTripLost
  UnpersistedIsReported
PROPERTIES
  CallsSettle
  ImplementsHaltGuard
