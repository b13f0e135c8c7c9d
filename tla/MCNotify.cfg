SPECIFICATION NotifySpec
CONSTANTS
  Channels = {1, 2}
  Email = {2}
  Digest = {2}
  QuietFrom <- MCQuietFrom
  QuietTo <- MCQuietTo
  Ticked <- MCTicked
  Day = 2
  DigestAt = 1
  TickLead = 0
  CollapseWindow = 1
  FirstRetry = 1
  MaxRetry = 2
  PollEvery = 1
  GiveUpAfter = 2
  BatchSize = 2
  CatchUpSize = 2
  MaxEvents = 2
  MaxDated = 1
  MaxEdits = 1
  MaxStops = 1
CONSTRAINT Budget
INVARIANTS
  LinesKept
PROPERTIES
  
  NoticesSettle
