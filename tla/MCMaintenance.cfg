SPECIFICATION Spec
CONSTANTS
  Grace = 1
  MaxDay = 2
  MaxArchives = 2
  MaxAsked = 3
  MaxCrash = 1
CHECK_DEADLOCK FALSE
INVARIANTS
  RestoreSafe
PROPERTIES
  
  AcrossTheSwap
  NightsRun
