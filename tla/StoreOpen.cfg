CONSTANTS
  i1 = i1
  i2 = i2
  o1 = o1
  NoOrder = NoOrder
  Intents = {i1, i2}
  OrderIds = {o1}
  Releases = {1, 3, 5}
  MaxMarkers = 4
  MaxClock = 2
  MaxBoots = 3
  Shapes <- SomeShapes
SPECIFICATION Spec
SYMMETRY Symmetry
CHECK_DEADLOCK FALSE
INVARIANTS
  JournalIsKept
  LawfulSinceV4
  HaltStands
  RefusalIsEarned
