SPECIFICATION Spec
CONSTANTS
  owner = owner
  ed = ed
  k1 = k1
  k2 = k2
  seed = seed
  paste = paste
  remove = remove
  reuse = reuse
  delete = delete
  None = None
  NoKey = NoKey
  Users = {owner, ed}
  Frames = {seed, paste, remove, reuse, delete}
  Workers = {w1, w2}
  Subs = {s1}
  Role <- MCRole
  By <- MCBy
  KeyOf <- MCKeys
  Steps <- MCSteps
  Grouped <- MCGrouped
  Props0 = {1, 2}
  Members0 <- MCMembers
  Watched = {0, 1}
  KeyLife = 1
  BusBuffer = 1
  MaxNow = 2
  MaxSends = 3
  MaxCrashes = 1
  MaxTrouble = 3
CONSTRAINT Budget
SYMMETRY MCSymmetry
CHECK_DEADLOCK FALSE
INVARIANTS
  TypeOK
  SpentOnce
  
  KeysAnswer
  PublishedInOrder
  SubscribersTold
PROPERTIES
  OnlyMembers
  ImplementsLog
