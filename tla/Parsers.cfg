CONSTANTS
  Units <- MCUnits
  MaxUnits = 4
  Leftovers <- ZeroMemory
  MaxFrames = 6
SPECIFICATION MCSpec
INVARIANTS ExampleParses DirectParses SavedBytesFit
