\* Three calls at once, of any length, and any number of evictions.
SPECIFICATION FairSpec
CONSTANTS
  t1 = t1  t2 = t2  t3 = t3
  Evictor = Evictor
  None = None
  Calls <- Calls3
  Ordinary = FALSE
CHECK_DEADLOCK FALSE
INVARIANTS
  TokensFollowModel
PROPERTIES
  NeverLoadedTwice
  IdleModelIsUnloaded
  CallsEnd
