SPECIFICATION Spec
CONSTANTS
  Invites = {1}
  Reset = 2
  InviteLife = 2
  ResetLife = 1
  FirstRetry = 1
  MaxRetry = 2
  GiveUpAfter = 2
  BatchSize = 2
  MaxLetters = 2
  MaxNow = 3
  MaxTroubles = 2
CHECK_DEADLOCK FALSE

  
PROPERTIES
  AbandonedStays
  MailSettles
