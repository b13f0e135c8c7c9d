SPECIFICATION StreamSpec
CONSTANTS
  Open = open
  Other = other
  BusBuffer = 1
  OutBuffer = 2
  PageSize = 2
  Kinds <- MCKinds
  MaxLog = 3
  MaxFailures = 1
CONSTRAINT Budget
CHECK_DEADLOCK FALSE
INVARIANTS
  HeardEverything
  TellsOnlyReaders
PROPERTIES
  ReachesTheTab
