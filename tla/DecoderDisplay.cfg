SPECIFICATION Spec
CONSTANTS
  NPictures = 4
  MaxTries = 3
  Copies = 3
  MaxFaults = 1
INVARIANTS
  NoDrawOnScreen OnScreenWhenFreed ReadWhileTaken
PROPERTIES TakenIsFreed
CHECK_DEADLOCK FALSE
