SPECIFICATION Spec
CONSTANTS
  Tabs = {t1, t2}
  t1 = t1
  t2 = t2
  None = none
  Rounds = 2
  MaxMade = 2
  MaxCuts = 1
  MaxAgain = 1
CONSTRAINT Budget
CHECK_DEADLOCK FALSE
INVARIANTS
  EachAsMade
PROPERTIES
  DrainEnds
