\* A graceful life of the gateway.
SPECIFICATION FairSpec
CONSTANTS
  j1 = j1  j2 = j2  r1 = r1  r2 = r2  w1 = w1  b1 = b1
  None = None
  Reranks <- Reranks2
  RerankWorkers <- RerankWorkers1
  Embeds <- Embeds2
  Inputs <- TwoInputs
  BatchWorkers <- BatchWorkers1
  MaxTexts = 2
  MaxBatchSize = 2
  MaxBatchTokens = 24
  TolerancePercent = 30
  Drained = TRUE
  ClearAfterInference = FALSE
INVARIANTS
  OneModelCall
  ShutdownIsComplete
  IdleIsTrimmed
  NobodyForgotten
PROPERTIES
  EveryCallAnswered
  ShutdownTerminates
