SPECIFICATION Spec
CONSTANTS
  N = 2
  SymbolOf <- MCSymbolOf
  SettleWindow = 2
  OrderFailureThreshold = 2
  AmbiguousBacklogThreshold = 2
  MaxCycleFailures = 1
  MaxNow = 3
  MaxFaults = 1
  MaxCrashes = 1
INVARIANTS
  NoFailureErased
  EvidenceBlocks
PROPERTY OrderedResets
