\* One call of complete() and one stream in a queue of one, stop() at any moment, and
\* a restart.  It may end with every call made and the queue stopped.
SPECIFICATION FairSpec
CONSTANTS
  c1 = c1  s1 = s1  w1 = w1  w2 = w2  batcher = batcher
  None = None
  Completes <- OneComplete
  Streams <- OneStream
  Workers <- TwoWorkers
  Others <- Batcher
  Drained = FALSE
  MaxQueueSize = 1
  MaxChunks = 2
INVARIANTS
  TypeOK
  UnfinishedIsBounded
  EndedStreamIsWhole
  OneEndPerStream
PROPERTIES
  ForgetsOnlyTheJobInHand
  EveryCallAnswered
  EveryStreamFed
CHECK_DEADLOCK FALSE
