CONSTANTS
  NFrames = 4
  NIn = 3
  NOut = 2
  Sources = {"demo", "camera"}
  MaxFaults = 1
SPECIFICATION FairSpec
INVARIANTS BuffersConserved FramesKeepOrder NeverBlocks StopWithLastFrame EndsCleanly
PROPERTIES ImplementsPipeline Terminates
CHECK_DEADLOCK FALSE
