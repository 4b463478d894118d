CONSTANTS
  NFrames = 7
  NSrc = 2
  MinQueued = 2
  NPages = 4
  MaxFaults = 1
  NInput = 2
  NDest = 4
SPECIFICATION ProgramSpec
INVARIANTS NeverStuck PagesAreOwnedOnce
INVARIANTS FlagsMatchObjects ReleasedOnce NothingLeft PagesOutliveDevices
PROPERTIES ImplementsPipeline StreamIsFed
CHECK_DEADLOCK FALSE
