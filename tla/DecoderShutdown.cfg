SPECIFICATION FairSpec
CONSTANTS
  OutCnt = 2
  CapCnt = 3
  CapMin = 2
  QueueSize = 32
  NFrames = 2
  Display = "fimc"
  MaxFaults = 0
PROPERTY AllThreadsFinish
CHECK_DEADLOCK FALSE
