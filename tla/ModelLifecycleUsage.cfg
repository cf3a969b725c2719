\* One short call after the other, and still a race with the evictor.
SPECIFICATION Spec
CONSTANTS
  t1 = t1  t2 = t2  t3 = t3
  Evictor = Evictor
  None = None
  Calls <- Calls2
  Ordinary = TRUE
CHECK_DEADLOCK FALSE
INVARIANT UsageCountsTokens
