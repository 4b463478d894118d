CONSTANTS
  NFrames = 3
  NIn = 2
  NOut = 2
  Sources = {"demo"}
  MaxFaults = 0
SPECIFICATION Spec
INVARIANTS EncodesEveryFrame
