SPECIFICATION Spec
CONSTANTS
  None = None
  Files = {f}
  Workers = {w1, w2}
  UrlLife = 0
  KeyLife = 0
  AbandonAt = 1
  Grace = 2
  MaxNow = 4
  MaxNew = 0
  MaxAsk = 2
  MaxOps = 3
  MaxCrashes = 1
  MaxFailures = 1
CONSTRAINT Budget
CHECK_DEADLOCK FALSE
INVARIANTS
  ObjectsKept
PROPERTIES
  NothingUnderUse
  UploadsSettle
