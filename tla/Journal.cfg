SPECIFICATION Spec
CONSTANTS
  Intents = {i1, i2}
  OrderIds = {o1}
  NoOrder = noOrder
  Verdicts = {"filled"}
  NoVerdict = "none"
  RetentionWindow = 2
  MaxBatch = 1
  MaxSkew = 1
  MaxTime = 1
SYMMETRY IntentSymmetry
INVARIANTS
  MarkerProtocol
  FlagMeansAudited
PROPERTIES
  GraceKept
  ImplementsAuditOutbox
