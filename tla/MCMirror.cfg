SPECIFICATION Spec
CONSTANTS
  None = None
  Names = {old, new}
  First <- FirstValue
  Digits = 4
  Window = 20
  Queue = 1
  Hasty = {}
  MaxSaves = 2
  MaxHand = 2
  MaxRenames = 1
  MaxFailures = 1
  MaxCrashes = 1
  MaxSteps = 3
  Opened = old
CHECK_DEADLOCK FALSE

  
PROPERTIES
  MirrorSettles
