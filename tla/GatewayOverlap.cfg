\* README.md:465-466 against a stop() that leaves its call running.
SPECIFICATION Spec
CONSTANTS
  j1 = j1  j2 = j2  r1 = r1  r2 = r2  w1 = w1  b1 = b1
  None = None
  Reranks <- Reranks1
  RerankWorkers <- RerankWorkers1
  Embeds <- Embeds1
  Inputs <- TwoInputs
  BatchWorkers <- BatchWorkers1
  MaxTexts = 2
  MaxBatchSize = 2
  MaxBatchTokens = 24
  TolerancePercent = 30
  Drained = FALSE
  ClearAfterInference = TRUE
INVARIANT OneModelCall
