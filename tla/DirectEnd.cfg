CONSTANTS
  NFrames = 4
  NSrc = 2
  MinQueued = 2
  NPages = 4
  MaxFaults = 0
SPECIFICATION Spec
INVARIANTS NoErrorWithoutFault
CHECK_DEADLOCK FALSE
