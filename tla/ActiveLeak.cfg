\* Is every request that is counted active in progress?
SPECIFICATION Spec
CONSTANTS
  c1 = c1  c2 = c2  c3 = c3  text = text
  None = None
  Clients <- ThreeClients
  Loads <- MCLoads
  default_max_length = 8192
  RERANK_MODEL_ID = "jinaai/jina-reranker-v3-mlx"
  HOUR = 1
  DAY = 2
  MaxTime = 3
INVARIANT ActiveIsInProgress
\* The gateway shuts down.
CHECK_DEADLOCK FALSE
