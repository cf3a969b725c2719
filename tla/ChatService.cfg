\* A stream and two calls of complete(), evictions at any time, and the end; and
\* every text of up to six letters, cut in every way, against seven values of stop.
SPECIFICATION ServiceSpec
CONSTANTS
  s1 = s1  c1 = c1  c2 = c2  e1 = e1  e2 = e2
  a = a  b = b
  Loop = Loop
  None = None
  Calls <- ThreeCalls
  Streams <- OneStream
  Evictors <- TwoEvictors
  Letters <- AB
  Pieces <- PiecesUpTo2
  Stops <- SomeStops
  MaxLength = 6
INVARIANTS
  NoStopSequenceBegun
  CutIsExact
PROPERTIES
  CloseReturns
  NothingStaysLoaded
CHECK_DEADLOCK FALSE
