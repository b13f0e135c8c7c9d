SPECIFICATION Spec
CONSTANTS
  MaxId = 2
  MaxInvite = 1
  Emails = {a, b}
  Workers = {w1, w2}
  Skew = 1
  InviteLife = 1
  ResetLife = 1
  PendingLife = 2
  MaxNow = 3
  MaxOps = 3
SYMMETRY Alike
CHECK_DEADLOCK FALSE
INVARIANTS
  OwnerKept
  ProvedFresh
PROPERTIES
  EnrolledOnce
