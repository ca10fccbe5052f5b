SPECIFICATION WriterSpec
CONSTANTS
  MaxEmits = 4
  MaxFaults = 3
  Settles = TRUE
INVARIANTS
  AckedSurvives
  InSequence
  BootsAgain
