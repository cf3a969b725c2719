\* Which texts share a batch, who gets which vector, and what stop() leaves behind.
SPECIFICATION Spec
CONSTANTS
  r1 = r1  r2 = r2  r3 = r3  w1 = w1  w2 = w2  reranker = reranker
  None = None
  Calls <- Calls3
  Inputs <- MixedInputs
  Workers <- Workers2
  Others <- Reranker
  MaxTexts = 3
  MaxBatchSize = 3
  MaxBatchTokens = 24
  TolerancePercent = 30
  Drained = FALSE
  ClearAfterInference = TRUE
SYMMETRY Symmetry
INVARIANTS
  TypeOK
  ActiveIsExact
  BatchLimits
  OwnEmbedding
  OversizeLeavesNothing
  FullQueueIsNoticed
PROPERTIES
  OldestJobInEveryBatch
