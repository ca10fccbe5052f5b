CONSTANTS
  Calls = {c1, c2, c3}
  Intents = {i1, i2}
  OrderIds = {o1, o2}
  NoOrder = NoOrder
  Verdicts = {aborted, filled}
  NoVerdict = NoVerdict
  Aborted = aborted
  MaxFaults = 2
  Prompt = TRUE
SPECIFICATION Spec
SYMMETRY CallSymmetry
INVARIANTS OnePost EvidenceBeforePost LiveOrderTracked OutcomeTruthful HaltOnlyOnFailure
