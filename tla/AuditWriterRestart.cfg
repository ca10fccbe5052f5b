SPECIFICATION WriterSpec
CONSTANTS
  MaxEmits = 3
  MaxFaults = 2
  Settles = FALSE
INVARIANTS
  AckedSurvives
