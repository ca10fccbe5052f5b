SPECIFICATION FairSpec
CONSTANT MaxReports = 2
INVARIANTS
  NoHaltForgotten
  CleanIsEarned
  OrdinaryExitIsClean
PROPERTY ShutdownEnds
