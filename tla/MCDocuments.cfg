SPECIFICATION ReviewSpec
CONSTANTS
  None = None
  Users = {u1, u2}
  First <- FirstValue
  Digits = 4
  Window = 2
  MaxWrites = 3
  MaxOdd = 2
  MaxSteps = 4
  MaxVersion = 1
  Verdicts = {"approved"}
  MaxBeside = 1
CONSTRAINT RevisedOnce
SYMMETRY Symmetric
CHECK_DEADLOCK FALSE
INVARIANTS
  NothingOverwritten
  PastTells
  KeysDistinct
