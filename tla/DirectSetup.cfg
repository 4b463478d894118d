CONSTANTS
  NInput = 2
  NDest = 3
SPECIFICATION SetupSpec
INVARIANTS InitReportsErrors
CHECK_DEADLOCK FALSE
