\* stop() at any moment.
SPECIFICATION FairSpec
CONSTANTS
  j1 = j1  j2 = j2  j3 = j3  w1 = w1  w2 = w2  batcher = batcher
  None = None
  Jobs <- Jobs3
  Workers <- Workers2
  Others <- Batcher
  Drained = FALSE
  ClearAfterInference = TRUE
INVARIANTS
  OneWorker
  ActiveIsExact
  GateHeldWhileBusy
  JobHasOnePlace
PROPERTIES
  ImplementsOrderedService
  ForgetsOnlyTheJobInHand
  StopTerminates
