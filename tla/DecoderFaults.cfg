SPECIFICATION Spec
CONSTANTS
  OutCnt = 2
  CapCnt = 3
  CapMin = 1
  QueueSize = 32
  NFrames = 4
  Display = "fimc"
  MaxFaults = 1
INVARIANTS
  SemaphoresCountBuffers
  FlagsMatchQueues
  ExclusiveOwnership
  NoFalseAlarm
  NobodyIsStuck
  ShownInOrder
CHECK_DEADLOCK FALSE
