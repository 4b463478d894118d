CONSTANTS
  NBuffers = 3
  NFrames = 5
  MayFail = TRUE
  StreamBuffers = 2
  CapBuffers = 2
  M2mRounds = 6
  HdmiFrames = 7
  Setups <- MCSetups
  Code <- MCCode
  Formats = {"YUYV", "RGB32"}
SPECIFICATION MCSpec
INVARIANTS
  ProgramsTypeOK CallsAreLegal TouchedWhenFree ResultsAreRight DevicesAreClosed
  BuffersOwnedOnce
PROPERTIES CaptureGoesOn Finishes
