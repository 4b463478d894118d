SPECIFICATION LiveSpec
CONSTANTS
  OutCnt = 2
  CapCnt = 3
  CapMin = 2
  QueueSize = 32
  NFrames = 4
  Display = "ipp"
  MaxFaults = 0
PROPERTIES
  ImplementsPipeline
  ThreadsFinish
CHECK_DEADLOCK FALSE
