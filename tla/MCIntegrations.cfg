SPECIFICATION Spec
CONSTANTS
  None = None
  Requests = {r1, r2}
  MaxAsked = 4
  MaxHour = 1
  MaxEpisodes = 2
  MaxCrash = 1
SYMMETRY Perms
CHECK_DEADLOCK FALSE
INVARIANTS
  SettingsAgree
  StaysGone
  PublishedOnce
