CONSTANTS
  sacredRequiredPaths <- SomePaths
  Contents <- SomeContents
  Branch = "main"
  Other = "develop"
  ExpectedActor = "mechanu[bot]"
  Human = "human"
  recentLoopPRWindow = 1
  MaxTime = 2
  MaxRevisions = 2
  MaxChanges = 3
SPECIFICATION Spec
INVARIANTS
  EvidenceIsFresh
  GreenIsEarned
