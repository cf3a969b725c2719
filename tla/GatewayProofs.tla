---------------------------- MODULE GatewayProofs ----------------------------
(***************************************************************************)
(* Proofs about Gateway.  What RerankQueueProofs and DynamicBatcherProofs  *)
(* show of one queue among any other users of the gate holds of the two    *)
(* together: the steps of one are steps that the other leaves to "others". *)
(*                                                                         *)
(* With graceful shutdowns the lifespan adds what neither queue can know:  *)
(* that a cancelled worker has no job, that no call runs on behind a       *)
(* worker that is gone, and that no second batcher is ever started.        *)
(***************************************************************************)
EXTENDS Gateway, InferenceGateProofs, FiniteSetTheorems

\* The queues, with the cache hidden, which neither of them reads.
RQ == INSTANCE RerankQueueProofs WITH
        Jobs <- Reranks, Workers <- RerankWorkers, Others <- BatchWorkers,
        future <- rFuture, pending <- rPending, worker <- rWorker, active <- rActive,
        stopping <- rStopping, stopCall <- rStopCall, pc <- rPc, cancelled <- rCancelled,
        job <- rJob, thread <- rThread, cache <- "clean", ClearAfterInference <- TRUE

EQ == INSTANCE DynamicBatcherProofs WITH
        Calls <- Embeds, Workers <- BatchWorkers, Others <- RerankWorkers,
        input <- eInput, future <- eFuture, embedding <- eEmbedding, pending <- ePending,
        worker <- eWorker, active <- eActive, stopping <- eStopping, stopCall <- eStopCall,
        pc <- ePc, cancelled <- eCancelled, batch <- eBatch, thread <- eThread,
        cache <- "clean", ClearAfterInference <- TRUE

\* The constants are what the queues assume.
LEMMA QueueAssumptions == RQ!ConstantsAssumption /\ EQ!ConstantsAssumption
BY GatewayAssumption
   DEF RQ!ConstantsAssumption, EQ!ConstantsAssumption, IsFiniteSet, RQ!IsFiniteSet, EQ!IsFiniteSet

\* What the gateway does to its queues; its callers do not give up.
RerankStep == \/ R!Work \/ R!Stop \/ R!StopReturns
              \/ \E w \in RerankWorkers : R!Start(w)
              \/ \E j \in Reranks : R!Rerank(j)

EmbedStep == \/ E!Work \/ E!Stop \/ E!StopReturns
             \/ \E w \in BatchWorkers : E!Start(w)
             \/ \E r \in Embeds : \E in \in Inputs : E!Embed(r, in)

\* A step is one of the rerank queue, or of the batcher, or of neither.
LEMMA StepOfOneQueue ==
  ASSUME [Next]_vars
  PROVE  \/ RerankStep /\ UNCHANGED eVars
         \/ EmbedStep /\ UNCHANGED rVars
         \/ UNCHANGED << rVars, eVars, gate, cache, phase >>
BY DEF Next, Lifespan, StartBatcher, StartRerank, StopRerank, RerankStopped, StopBatcher,
       BatcherStopped, RerankCalls, EmbedCalls, RerankWork, BatchWork, Down, vars,
       RerankStep, EmbedStep

\* The gate is one and the same, seen from each queue.
LEMMA SameGate ==
  /\ \A g, u : RQ!InLine(g, u) <=> InLine(g, u)
  /\ \A g, u : EQ!InLine(g, u) <=> InLine(g, u)
  /\ \A g, u : RQ!Acquire(g, u) = Acquire(g, u) /\ EQ!Acquire(g, u) = Acquire(g, u)
  /\ \A g, u : RQ!Leave(g, u) = Leave(g, u) /\ EQ!Leave(g, u) = Leave(g, u)
<1>1. \A g, u : RQ!InLine(g, u) <=> InLine(g, u)
  BY DEF RQ!InLine, InLine
<1>2. \A g, u : EQ!InLine(g, u) <=> InLine(g, u)
  BY DEF EQ!InLine, InLine
<1>3. \A g, u : RQ!Acquire(g, u) = Acquire(g, u) /\ EQ!Acquire(g, u) = Acquire(g, u)
  BY DEF RQ!Acquire, EQ!Acquire, Acquire
<1>4. \A g, u : RQ!Leave(g, u) = Leave(g, u) /\ EQ!Leave(g, u) = Leave(g, u)
  BY DEF RQ!Leave, EQ!Leave, Leave, RQ!RemoveAt, EQ!RemoveAt, RemoveAt
<1> QED
  BY <1>1, <1>2, <1>3, <1>4

\* A step of the rerank queue, with the cache hidden.
LEMMA RerankQueueSteps == R!QueueStep => RQ!QueueStep
<1> SUFFICES ASSUME R!QueueStep PROVE RQ!QueueStep
  OBVIOUS
<1>1. \A w : R!StartWorker(w) <=> RQ!StartWorker(w)
  BY DEF R!StartWorker, RQ!StartWorker
<1>2. \A w : R!Start(w) => RQ!Start(w)
  BY <1>1 DEF R!Start, RQ!Start
<1>3. \A j : R!Rerank(j) => RQ!Rerank(j)
  BY <1>1 DEF R!Rerank, RQ!Rerank, R!Notified, RQ!Notified, R!Appended, RQ!Appended
<1>4. \A j : R!CallerCancelled(j) => RQ!CallerCancelled(j)
  BY DEF R!CallerCancelled, RQ!CallerCancelled
<1>5. R!CancelPendingFutures <=> RQ!CancelPendingFutures
  BY DEF R!CancelPendingFutures, RQ!CancelPendingFutures
<1>6. R!Stop => RQ!Stop
  BY <1>5 DEF R!Stop, RQ!Stop, R!Notified, RQ!Notified
<1>7. R!StopReturns => RQ!StopReturns
  BY <1>5 DEF R!StopReturns, RQ!StopReturns
<1>8. \A w, atGate, n : R!TakeNextJob(w, atGate, n) <=> RQ!TakeNextJob(w, atGate, n)
  BY DEF R!TakeNextJob, RQ!TakeNextJob, R!Popped, RQ!Popped, R!Acquire, RQ!Acquire, R!Free, RQ!Free
<1>9. \A w : R!Run(w) => RQ!Run(w)
  BY <1>8 DEF R!Run, RQ!Run
<1>10. \A w : R!EnterGate(w) => RQ!EnterGate(w)
  BY DEF R!EnterGate, RQ!EnterGate, R!Holds, RQ!Holds
<1>11. \A g, u : R!Leave(g, u) = RQ!Leave(g, u)
  BY DEF R!Leave, RQ!Leave, R!RemoveAt, RQ!RemoveAt
<1>12. \A w : R!FinishJob(w) => RQ!FinishJob(w)
  BY <1>8, <1>11 DEF R!FinishJob, RQ!FinishJob, R!Settled, RQ!Settled, RQ!TrimCacheIfIdle
<1>13. \A w : R!CancelIdleWorker(w) => RQ!CancelIdleWorker(w)
  BY DEF R!CancelIdleWorker, RQ!CancelIdleWorker
<1>14. \A w : R!CancelBusyWorker(w) => RQ!CancelBusyWorker(w)
  BY <1>11 DEF R!CancelBusyWorker, RQ!CancelBusyWorker, RQ!TrimCacheIfIdle
<1>15. \A j : R!ThreadStarts(j) => RQ!ThreadStarts(j)
  BY DEF R!ThreadStarts, RQ!ThreadStarts
<1>16. \A j, o : R!ThreadEnds(j, o) => RQ!ThreadEnds(j, o)
  BY DEF R!ThreadEnds, RQ!ThreadEnds
<1> QED
  BY <1>2, <1>3, <1>4, <1>6, <1>7, <1>9, <1>10, <1>12, <1>13, <1>14, <1>15, <1>16
     DEF R!QueueStep, R!Work, R!WorkerStep, RQ!QueueStep, RQ!Work, RQ!WorkerStep

\* The batcher chooses the same batch, whichever queue one looks at it from.
LEMMA SameBatch ==
  /\ \A p : E!SelectBatch(p) = EQ!SelectBatch(p)
  /\ \A p, b : E!Remaining(p, b) = EQ!Remaining(p, b)
  /\ \A r, in : E!Accepted(r, in) <=> EQ!Accepted(r, in)
  /\ \A b : E!Vectors(b) = EQ!Vectors(b)
  /\ \A S : E!ToSet(S) = EQ!ToSet(S)
<1>1. \A S : E!ToSet(S) = EQ!ToSet(S)
  BY DEF E!ToSet, EQ!ToSet
<1>2. \A in, i : E!Truncated(in, i) = EQ!Truncated(in, i)
  BY DEF E!Truncated, EQ!Truncated, E!Min, EQ!Min
<1>3. \A j : E!TokenCount(j) = EQ!TokenCount(j)
  BY <1>2 DEF E!TokenCount, EQ!TokenCount
<1>4. \A j : E!Key(j) = EQ!Key(j)
  BY DEF E!Key, EQ!Key
<1>5. \A j, k : E!Compatible(j, k) <=> EQ!Compatible(j, k)
  BY <1>3, <1>4 DEF E!Compatible, EQ!Compatible, E!LengthMatches, EQ!LengthMatches,
     E!Distance, EQ!Distance
<1>6. \A p : E!SelectBatch(p) = EQ!SelectBatch(p)
  BY DEF E!SelectBatch, EQ!SelectBatch, E!Offer, EQ!Offer, E!First, EQ!First,
     E!Before, EQ!Before, E!Distance, EQ!Distance, E!WouldFit, EQ!WouldFit,
     E!Compatibles, EQ!Compatibles, E!Compatible, EQ!Compatible, E!LengthMatches, EQ!LengthMatches,
     E!TokenCount, EQ!TokenCount, E!Truncated, EQ!Truncated, E!Min, EQ!Min, E!Key, EQ!Key,
     E!Ids, EQ!Ids, E!ToSet, EQ!ToSet
<1>7. \A p, b : E!Remaining(p, b) = EQ!Remaining(p, b)
  BY DEF E!Remaining, EQ!Remaining, E!ToSet, EQ!ToSet
<1>8. \A in, i : E!Oversize(in, i) <=> EQ!Oversize(in, i)
  BY <1>2 DEF E!Oversize, EQ!Oversize
<1>9. \A b : E!Vectors(b) = EQ!Vectors(b)
  BY DEF E!Vectors, EQ!Vectors, E!Key, EQ!Key
<1>10. \A r, in : E!Accepted(r, in) <=> EQ!Accepted(r, in)
  BY <1>8 DEF E!Accepted, EQ!Accepted, E!Ids, EQ!Ids
<1> QED
  BY <1>1, <1>6, <1>7, <1>9, <1>10

\* A step of the batcher, with the cache hidden.
LEMMA BatcherSteps == E!QueueStep => EQ!QueueStep
<1> SUFFICES ASSUME E!QueueStep PROVE EQ!QueueStep
  OBVIOUS
<1>0. E!Ids = EQ!Ids
  BY DEF E!Ids, EQ!Ids
<1>1. \A w : E!StartWorker(w) <=> EQ!StartWorker(w)
  BY DEF E!StartWorker, EQ!StartWorker
<1>2. \A w : E!Start(w) => EQ!Start(w)
  BY <1>1 DEF E!Start, EQ!Start
<1>3. \A r, in : E!Embed(r, in) => EQ!Embed(r, in)
  BY <1>1, SameBatch DEF E!Embed, EQ!Embed, E!Notified, EQ!Notified
<1>4. \A S, o : E!Settled(S, o) = EQ!Settled(S, o)
  BY <1>0 DEF E!Settled, EQ!Settled
<1>5. \A r : (E!CallWaits(r) <=> EQ!CallWaits(r)) /\ E!JobsOf(r) = EQ!JobsOf(r)
  BY DEF E!CallWaits, EQ!CallWaits, E!JobsOf, EQ!JobsOf
<1>6. \A r : E!CallerCancelled(r) => EQ!CallerCancelled(r)
  BY <1>4, <1>5 DEF E!CallerCancelled, EQ!CallerCancelled
<1>7. E!CancelPendingFutures <=> EQ!CancelPendingFutures
  BY <1>4, SameBatch DEF E!CancelPendingFutures, EQ!CancelPendingFutures
<1>8. E!Stop => EQ!Stop
  BY <1>5, <1>7 DEF E!Stop, EQ!Stop, E!Notified, EQ!Notified
<1>9. E!StopReturns => EQ!StopReturns
  BY <1>7 DEF E!StopReturns, EQ!StopReturns
<1>10. \A w, atGate, n : E!ServeBatch(w, atGate, n) <=> EQ!ServeBatch(w, atGate, n)
  BY SameBatch DEF E!ServeBatch, EQ!ServeBatch, E!Acquire, EQ!Acquire, E!Free, EQ!Free
<1>11. \A w, atGate, n : E!NextBatch(w, atGate, n) <=> EQ!NextBatch(w, atGate, n)
  BY <1>10 DEF E!NextBatch, EQ!NextBatch
<1>12. \A w : (E!Run(w) => EQ!Run(w)) /\ (E!Refilled(w) => EQ!Refilled(w)) /\ (E!Timeout(w) => EQ!Timeout(w))
  BY <1>10, <1>11 DEF E!Run, EQ!Run, E!Refilled, EQ!Refilled, E!Timeout, EQ!Timeout
<1>13. \A w : E!EnterGate(w) => EQ!EnterGate(w)
  BY DEF E!EnterGate, EQ!EnterGate, E!Holds, EQ!Holds
<1>14. \A g, u : E!Leave(g, u) = EQ!Leave(g, u)
  BY DEF E!Leave, EQ!Leave, E!RemoveAt, EQ!RemoveAt
<1>15. \A w : E!FinishBatch(w) => EQ!FinishBatch(w)
  BY <1>0, <1>4, <1>11, <1>14, SameBatch DEF E!FinishBatch, EQ!FinishBatch, EQ!TrimCacheIfIdle
<1>16. \A w : E!CancelIdleWorker(w) => EQ!CancelIdleWorker(w)
  BY DEF E!CancelIdleWorker, EQ!CancelIdleWorker
<1>17. \A w : E!CancelBusyWorker(w) => EQ!CancelBusyWorker(w)
  BY <1>14 DEF E!CancelBusyWorker, EQ!CancelBusyWorker, EQ!TrimCacheIfIdle
<1>18. \A w : E!ThreadStarts(w) => EQ!ThreadStarts(w)
  BY DEF E!ThreadStarts, EQ!ThreadStarts
<1>19. \A w, o : E!ThreadEnds(w, o) => EQ!ThreadEnds(w, o)
  BY DEF E!ThreadEnds, EQ!ThreadEnds
<1> QED
  BY <1>2, <1>3, <1>6, <1>8, <1>9, <1>12, <1>13, <1>15, <1>16, <1>17, <1>18, <1>19
     DEF E!QueueStep, E!Work, E!WorkerStep, EQ!QueueStep, EQ!Work, EQ!WorkerStep

-----------------------------------------------------------------------------
(* The composition *)

QueuesInv == RQ!IInv /\ EQ!IInv

\* The batcher's worker is to the rerank queue another user of the gate, and the other
\* way round (server.py:128-140: inference_gate).
LEMMA StepsAreQueueSteps ==
  ASSUME QueuesInv, [Next]_vars
  PROVE  [RQ!Next]_RQ!vars /\ [EQ!Next]_EQ!vars
<1>1. CASE RerankStep /\ UNCHANGED eVars
  <2>1. RQ!QueueStep
    BY <1>1, RerankQueueSteps DEF RerankStep, R!QueueStep
  <2>2. RQ!UsesGate
    BY <2>1, QueueAssumptions, RQ!QueueUsesGate DEF QueuesInv
  <2>3. [EQ!Next]_EQ!vars
    <3>1. CASE gate' = gate
      BY <1>1, <3>1 DEF eVars, EQ!vars
    <3>2. ASSUME NEW w \in RerankWorkers, ~RQ!InLine(gate, w), gate' = RQ!Acquire(gate, w)
          PROVE  EQ!OtherAcquires(w)
      BY <1>1, <3>2, SameGate DEF eVars, EQ!OtherAcquires
    <3>3. ASSUME NEW w \in RerankWorkers, RQ!InLine(gate, w),
                 gate' \in {RQ!Leave(gate, w), RQ!Acquire(RQ!Leave(gate, w), w)}
          PROVE  EQ!OtherLeaves(w)
      BY <1>1, <3>3, SameGate DEF eVars, EQ!OtherLeaves
    <3> QED
      BY <2>2, <3>1, <3>2, <3>3 DEF RQ!UsesGate, EQ!Next
  <2> QED
    BY <2>1, <2>3 DEF RQ!Next
<1>2. CASE EmbedStep /\ UNCHANGED rVars
  <2>1. EQ!QueueStep
    BY <1>2, BatcherSteps DEF EmbedStep, E!QueueStep
  <2>2. EQ!UsesGate
    BY <2>1, QueueAssumptions, EQ!QueueUsesGate DEF QueuesInv
  <2>3. [RQ!Next]_RQ!vars
    <3>1. CASE gate' = gate
      BY <1>2, <3>1 DEF rVars, RQ!vars
    <3>2. ASSUME NEW w \in BatchWorkers, ~EQ!InLine(gate, w), gate' = EQ!Acquire(gate, w)
          PROVE  RQ!OtherAcquires(w)
      BY <1>2, <3>2, SameGate DEF rVars, RQ!OtherAcquires
    <3>3. ASSUME NEW w \in BatchWorkers, EQ!InLine(gate, w),
                 gate' \in {EQ!Leave(gate, w), EQ!Acquire(EQ!Leave(gate, w), w)}
          PROVE  RQ!OtherLeaves(w)
      BY <1>2, <3>3, SameGate DEF rVars, RQ!OtherLeaves
    <3> QED
      BY <2>2, <3>1, <3>2, <3>3 DEF EQ!UsesGate, RQ!Next
  <2> QED
    BY <2>1, <2>3 DEF EQ!Next
<1>3. CASE UNCHANGED << rVars, eVars, gate, cache, phase >>
  BY <1>3 DEF rVars, eVars, RQ!vars, EQ!vars
<1> QED
  BY <1>1, <1>2, <1>3, StepOfOneQueue

\* Each queue starts as its own module says.
LEMMA InitQueues == Init => RQ!Init /\ EQ!Init
BY DEF Init, R!Init, E!Init, RQ!Init, EQ!Init, E!Ids, EQ!Ids, E!NoEmbedding, EQ!NoEmbedding

\* Each queue is, in the gateway, what its own module says of it, whatever the other
\* queue does with the gate they share (server.py:128-148).
THEOREM QueuesCompose == Spec => RQ!Spec /\ EQ!Spec
<1>1. Init => QueuesInv
  BY InitQueues, QueueAssumptions, RQ!InitIInv, EQ!InitIInv DEF QueuesInv
<1>2. QueuesInv /\ [RQ!Next]_RQ!vars /\ [EQ!Next]_EQ!vars => QueuesInv'
  BY QueueAssumptions, RQ!NextKeepsIInv, EQ!NextKeepsIInv DEF QueuesInv
<1>3. QueuesInv /\ [Next]_vars => [RQ!Next]_RQ!vars /\ [EQ!Next]_EQ!vars
  BY StepsAreQueueSteps
<1> QED
  BY <1>1, <1>2, <1>3, InitQueues, PTL DEF Spec, RQ!Spec, EQ!Spec

\* The rerank queue serves in order, answers once and drops a call only while it is
\* being stopped, in the gateway as by itself (rerank_queue.py:31-116).
THEOREM GatewayServesInOrder == Spec => RQ!ImplementsOrderedService
<1>1. RQ!Spec => RQ!ImplementsOrderedService
  BY QueueAssumptions, RQ!QueueIsOrderedService
<1> QED
  BY <1>1, QueuesCompose, PTL

\* With graceful shutdowns nothing that a caller waits for is lost between the two
\* queues, the gate they share and the two stops of the lifespan: a rerank call is in
\* its queue or worked on, and so is a text of a call (rerank_queue.py:92-109;
\* batching.py:114, :184-195).
THEOREM NobodyIsForgotten ==
  ASSUME Drained
  PROVE  Spec => []NobodyForgotten
<1>1. RQ!Spec => []RQ!NoCallerForgotten
  BY QueueAssumptions, RQ!NobodyIsForgotten
<1>2. EQ!Spec => []EQ!NoTextForgotten
  BY QueueAssumptions, EQ!NoTextIsForgotten
<1>3. RQ!NoCallerForgotten /\ EQ!NoTextForgotten => NobodyForgotten
  BY DEF NobodyForgotten, RQ!NoCallerForgotten, R!NoCallerForgotten, RQ!Forgotten, R!Forgotten, RQ!Line, R!Line,
         EQ!NoTextForgotten, E!NoTextForgotten, EQ!CallWaits, E!CallWaits, EQ!JobsOf, E!JobsOf,
         EQ!ToSet, E!ToSet
<1> QED
  BY <1>1, <1>2, <1>3, QueuesCompose, PTL

-----------------------------------------------------------------------------
(* Graceful shutdowns *)

\* What the lifespan has done to the queues: it starts the batcher once, and stops
\* it after the rerank queue.
LifespanInv ==
  /\ phase = "startBatcher" => \A w \in BatchWorkers : ePc[w] = "unborn"
  /\ phase \in {"startRerank", "serving", "stoppingRerank", "stopBatcher", "stoppingBatcher"}
       => eWorker # None
  /\ phase = "down" => eWorker = None
  /\ phase \in {"stopBatcher", "stoppingBatcher", "down"} => rWorker = None
  /\ \A v, w \in BatchWorkers : ePc[v] # "unborn" /\ ePc[w] # "unborn" => v = w
  /\ rCancelled # {} => phase \notin {"startBatcher", "startRerank", "serving"}
  /\ eCancelled # {} => phase \in {"stoppingBatcher", "down"}

\* A call of a model belongs to a worker that awaits it, but for the last one of the
\* batcher, which may go on behind the worker that stop() has cancelled.
RerankCallInv ==
  /\ \A w \in rCancelled : ~RQ!Busy(w)
  /\ \A j \in Reranks : rThread[j] \in {"queued", "running"} =>
       \E w \in RerankWorkers : rPc[w] = "call" /\ rJob[w] = j

EmbedCallInv ==
  \A w \in BatchWorkers : eThread[w] \in {"queued", "running"} =>
    \/ ePc[w] = "call"
    \/ ePc[w] = "done" /\ phase \in {"stoppingBatcher", "down"}

\* The cache is clean whenever the gateway has been idle since it last served.
CacheInv ==
  (/\ phase \in {"startBatcher", "startRerank", "serving"}
   /\ rPending = << >> /\ rActive = 0 /\ ePending = << >> /\ eActive = 0) => cache = "clean"

QueueFacts == RQ!RInv /\ RQ!LineInv /\ EQ!TInv /\ EQ!RestTypes

\* The queues keep to their own invariants.
LEMMA QueuesInvariance == Spec => []QueueFacts
<1>1. RQ!Spec => []RQ!RInv
  BY QueueAssumptions, RQ!ClosingInvariance
<1>2. RQ!Spec => []RQ!LineInv
  BY QueueAssumptions, RQ!LineInvariance
<1>3. EQ!Spec => []EQ!TInv
  BY QueueAssumptions, EQ!TextInvariance
<1>4. EQ!Spec => []EQ!RestTypes
  BY QueueAssumptions, EQ!RestTypesInvariance
<1> QED
  BY <1>1, <1>2, <1>3, <1>4, QueuesCompose, PTL DEF QueueFacts

\* Who is suspended where is a function of the workers (rerank_queue.py:27,
\* batching.py:56).
LEMMA Types ==
  ASSUME QueueFacts
  PROVE  /\ rFuture \in [Reranks -> {"none", "pending", "result", "error", "cancelled"}]
         /\ rPc = [w \in RerankWorkers |-> rPc[w]] /\ rJob = [w \in RerankWorkers |-> rJob[w]]
         /\ rThread = [j \in Reranks |-> rThread[j]]
         /\ rCancelled \subseteq RerankWorkers /\ rWorker \in RerankWorkers \cup {None}
         /\ \A w \in RerankWorkers : RQ!Busy(w) <=> rJob[w] # None
         /\ ePc = [w \in BatchWorkers |-> ePc[w]] /\ eThread = [w \in BatchWorkers |-> eThread[w]]
         /\ eCancelled \subseteq BatchWorkers /\ eWorker \in BatchWorkers \cup {None}
         /\ None \notin RerankWorkers /\ None \notin BatchWorkers
<1>1. RQ!TypeOK /\ RQ!JobInv /\ EQ!ControlTypes /\ EQ!RestTypes
  BY DEF QueueFacts, RQ!RInv, RQ!IInv, EQ!TInv, EQ!IInv
<1> QED
  BY <1>1, GatewayAssumption DEF RQ!TypeOK, RQ!JobInv, EQ!ControlTypes, EQ!RestTypes

\* The lifespan does to each queue what its phase says, and nobody else stops or
\* starts them (server.py:132-148).
LEMMA NextKeepsLifespanInv ==
  ASSUME Drained, QueueFacts, LifespanInv, [Next]_vars
  PROVE  LifespanInv'
<1> USE DEF LifespanInv
<1>0. /\ ePc = [w \in BatchWorkers |-> ePc[w]] /\ eWorker \in BatchWorkers \cup {None}
      /\ None \notin RerankWorkers /\ None \notin BatchWorkers
  BY Types
<1>1. CASE StartBatcher
  <2>1. PICK w \in BatchWorkers : E!Start(w)
    BY <1>1 DEF StartBatcher
  <2>2. /\ eWorker' = w /\ eCancelled' = eCancelled
        /\ \A v \in BatchWorkers : v # w => ePc'[v] = ePc[v]
    BY <1>0, <2>1 DEF E!Start, E!StartWorker
  <2> QED
    BY <1>0, <1>1, <2>2 DEF StartBatcher, rVars
<1>2. CASE StartRerank
  <2>1. rCancelled' = rCancelled
    BY <1>2 DEF StartRerank, R!Start
  <2> QED
    BY <1>2, <2>1 DEF StartRerank, eVars
<1>3. CASE StopRerank
  BY <1>3 DEF StopRerank, eVars
<1>4. CASE RerankStopped
  BY <1>4 DEF RerankStopped, R!StopReturns, eVars
<1>5. CASE StopBatcher
  <2>1. eWorker' = eWorker /\ \A w \in BatchWorkers : ePc'[w] # "unborn" => ePc[w] # "unborn"
    BY <1>5 DEF StopBatcher, E!Stop, E!Notified
  <2> QED
    BY <1>5, <2>1 DEF StopBatcher, rVars
<1>6. CASE BatcherStopped
  BY <1>6 DEF BatcherStopped, E!StopReturns, rVars
<1>7. CASE RerankCalls
  <2>1. phase = "serving" /\ rCancelled' = rCancelled
    BY <1>7 DEF RerankCalls, Serving, R!Rerank
  <2> QED
    BY <1>7, <2>1 DEF RerankCalls, eVars
<1>8. CASE EmbedCalls
  <2>1. phase = "serving"
    BY <1>8 DEF EmbedCalls, Serving
  <2>2. /\ eWorker' = eWorker /\ eCancelled' = eCancelled
        /\ ePc' = ePc \/ ePc' = E!Notified
    BY <1>8, <2>1 DEF EmbedCalls, E!Embed, E!StartWorker
  <2>3. \A w \in BatchWorkers : ePc'[w] # "unborn" => ePc[w] # "unborn"
    BY <2>2 DEF E!Notified
  <2> QED
    BY <1>8, <2>1, <2>2, <2>3 DEF EmbedCalls, rVars
<1>9. CASE RerankWork
  <2>1. rWorker' = rWorker /\ rCancelled' = rCancelled
    BY <1>9 DEF RerankWork, R!Work, R!WorkerStep, R!Run, R!EnterGate, R!FinishJob,
       R!CancelIdleWorker, R!CancelBusyWorker, R!ThreadStarts, R!ThreadEnds
  <2> QED
    BY <1>9, <2>1 DEF RerankWork, eVars
<1>10. CASE BatchWork
  <2>1. eWorker' = eWorker /\ eCancelled' = eCancelled
    BY <1>10 DEF BatchWork, E!Work, E!WorkerStep, E!Run, E!Refilled, E!Timeout, E!EnterGate,
       E!FinishBatch, E!CancelIdleWorker, E!CancelBusyWorker, E!ThreadStarts, E!ThreadEnds
  <2>2. \A w \in BatchWorkers : ePc'[w] # "unborn" => ePc[w] # "unborn"
    BY <1>0, <1>10 DEF BatchWork, E!Work, E!WorkerStep, E!Run, E!Refilled, E!Timeout, E!EnterGate,
       E!FinishBatch, E!CancelIdleWorker, E!CancelBusyWorker, E!ThreadStarts, E!ThreadEnds,
       E!NextBatch, E!ServeBatch
  <2> QED
    BY <1>10, <2>1, <2>2 DEF BatchWork, rVars
<1>11. CASE UNCHANGED vars
  BY <1>11 DEF vars, rVars, eVars
<1> QED
  BY <1>1, <1>2, <1>3, <1>4, <1>5, <1>6, <1>7, <1>8, <1>9, <1>10, <1>11 DEF Next, Lifespan, Down

\* No caller of a gateway that is drained is ever told that its call is cancelled
\* (rerank_queue.py:37-43).
LEMMA NoFutureCancelled ==
  ASSUME Drained, QueueFacts, [Next]_vars, NEW j \in Reranks, rFuture[j] = "pending"
  PROVE  rFuture'[j] # "cancelled"
<1>1. rFuture \in [Reranks -> {"none", "pending", "result", "error", "cancelled"}]
  BY Types
<1>2. CASE RerankStep
  <2>1. CASE \E k \in Reranks : R!Rerank(k)
    BY <1>1, <2>1 DEF R!Rerank
  <2>2. CASE R!StopReturns
    BY <2>2 DEF R!StopReturns, QueueFacts, RQ!RInv, RQ!CloseInv
  <2>3. CASE R!Stop
    BY <2>3 DEF R!Stop
  <2>4. ASSUME NEW w \in RerankWorkers, R!FinishJob(w) PROVE rFuture'[j] # "cancelled"
    BY <1>1, <2>4 DEF R!FinishJob, R!Settled
  <2> QED
    BY <1>2, <2>1, <2>2, <2>3, <2>4
       DEF RerankStep, R!Start, R!Work, R!WorkerStep, R!Run, R!EnterGate, R!CancelIdleWorker,
           R!CancelBusyWorker, R!ThreadStarts, R!ThreadEnds
<1>3. CASE UNCHANGED rFuture
  BY <1>3
<1> QED
  BY <1>2, <1>3, StepOfOneQueue DEF rVars

\* With graceful shutdowns stop() finds no job in a worker's hands, and a rerank call
\* never outlives the worker that awaits it (rerank_queue.py:31-43, :92-109).
LEMMA NextKeepsRerankCallInv ==
  ASSUME Drained, QueueFacts, RQ!LineWaits, RerankCallInv, [Next]_vars
  PROVE  RerankCallInv'
<1> USE DEF RerankCallInv, RQ!Busy
<1>0. /\ rPc = [w \in RerankWorkers |-> rPc[w]] /\ rJob = [w \in RerankWorkers |-> rJob[w]]
      /\ rThread = [j \in Reranks |-> rThread[j]]
      /\ rCancelled \subseteq RerankWorkers /\ rWorker \in RerankWorkers \cup {None}
      /\ \A w \in RerankWorkers : rJob[w] # None => rPc[w] \in {"gate", "call"}
      /\ \A w \in RerankWorkers : rPc[w] \in {"gate", "call"} => rJob[w] # None
  BY Types
<1>1. ASSUME UNCHANGED << rJob, rThread, rCancelled >>,
             \A w \in RerankWorkers : rPc'[w] = rPc[w] \/ (rPc[w] # "call" /\ rPc'[w] \notin {"gate", "call"})
      PROVE  RerankCallInv'
  BY <1>0, <1>1
<1>2. ASSUME NEW w \in RerankWorkers, R!StartWorker(w)
      PROVE  \A v \in RerankWorkers :
               rPc'[v] = rPc[v] \/ (rPc[v] # "call" /\ rPc'[v] \notin {"gate", "call"})
  BY <1>0, <1>2 DEF R!StartWorker
<1>3. \A v \in RerankWorkers :
        R!Notified[v] = rPc[v] \/ (rPc[v] # "call" /\ R!Notified[v] \notin {"gate", "call"})
  BY DEF R!Notified
<1>4. ASSUME NEW w \in RerankWorkers, R!Start(w) PROVE RerankCallInv'
  BY <1>1, <1>2, <1>4 DEF R!Start
<1>5. ASSUME NEW j \in Reranks, R!Rerank(j) PROVE RerankCallInv'
  <2>1. UNCHANGED << rJob, rThread, rCancelled >>
    BY <1>5 DEF R!Rerank
  <2>2. CASE rPc' = R!Notified
    BY <1>1, <1>3, <2>1, <2>2
  <2>3. CASE \E w \in RerankWorkers : R!StartWorker(w)
    BY <1>1, <1>2, <2>1, <2>3
  <2> QED
    BY <1>5, <2>2, <2>3 DEF R!Rerank
<1>6. CASE R!Stop
  <2>1. ~(rWorker # None /\ rJob[rWorker] # None)
    <3>1. SUFFICES ASSUME rWorker # None, rJob[rWorker] # None PROVE FALSE
      OBVIOUS
    <3>2. RQ!InHand /\ RQ!TypeOK
      BY <3>1 DEF RQ!InHand, QueueFacts, RQ!RInv, RQ!IInv
    <3>3. RQ!Line = << rJob[rWorker] >> \o rPending /\ rJob[rWorker] \in Reranks
          /\ rPending \in Seq(Reranks)
      BY <3>2, QueueAssumptions, RQ!LineIs DEF RQ!TypeOK
    <3>4. RQ!Line # << >> /\ RQ!Line \in Seq(Reranks)
      BY <3>3, QueueAssumptions, RQ!JobAndPending
    <3>5. 1 \in DOMAIN RQ!Line /\ RQ!Line[1] \in Reranks
      <4>1. Len(RQ!Line) \in Nat \ {0} /\ DOMAIN RQ!Line = 1..Len(RQ!Line)
        BY <3>4, EmptySeq, LenProperties
      <4> QED
        BY <3>4, <4>1, ElementOfSeq
    <3> QED
      BY <1>6, <3>5 DEF RQ!LineWaits, R!Stop
  <2>2. rPc' = R!Notified /\ UNCHANGED << rJob, rThread >> /\ rCancelled' \subseteq rCancelled \cup {rWorker}
    BY <1>6 DEF R!Stop
  <2>3. \A w \in rCancelled' : w \in RerankWorkers /\ rPc[w] \notin {"gate", "call"}
    BY <1>0, <1>6, <2>1, <2>2 DEF R!Stop
  <2> QED
    BY <1>0, <1>3, <2>2, <2>3
<1>7. CASE R!StopReturns
  BY <1>7 DEF R!StopReturns
<1>8. ASSUME NEW w \in RerankWorkers, NEW atGate, NEW n, R!TakeNextJob(w, atGate, n),
             w \notin rCancelled, rCancelled' = rCancelled,
             \A j \in Reranks : rJob[w] = j => rThread[j] \notin {"queued", "running"}
      PROVE  RerankCallInv'
  <2>1. \A v \in RerankWorkers : v # w => rPc'[v] = rPc[v] /\ rJob'[v] = rJob[v]
    BY <1>0, <1>8 DEF R!TakeNextJob
  <2>2. CASE rThread' = rThread
    BY <1>0, <1>8, <2>1, <2>2
  <2>3. CASE /\ rPc'[w] = "call" /\ rJob'[w] = Head(rPending)
             /\ \A j \in Reranks : j # Head(rPending) => rThread'[j] = rThread[j]
    BY <1>0, <1>8, <2>1, <2>3
  <2> QED
    BY <1>0, <1>8, <2>2, <2>3 DEF R!TakeNextJob
<1>9. ASSUME NEW w \in RerankWorkers, R!Run(w) PROVE RerankCallInv'
  <2>1. \A j \in Reranks : rJob[w] = j => rThread[j] \notin {"queued", "running"}
    <3>1. rPc[w] \in {"ready", "notified"}
      BY <1>9 DEF R!Run
    <3>2. rJob[w] = None
      BY <1>0, <3>1
    <3> QED
      BY <3>2, GatewayAssumption
  <2> QED
    BY <1>8, <1>9, <2>1 DEF R!Run
<1>10. ASSUME NEW w \in RerankWorkers, R!EnterGate(w) PROVE RerankCallInv'
  <2>1. \A v \in RerankWorkers : v # w => rPc'[v] = rPc[v]
    BY <1>0, <1>10 DEF R!EnterGate
  <2>2. /\ rPc'[w] = "call" /\ rJob' = rJob /\ rCancelled' = rCancelled /\ w \notin rCancelled
        /\ \A j \in Reranks : j # rJob[w] => rThread'[j] = rThread[j]
    BY <1>0, <1>10 DEF R!EnterGate
  <2> QED
    BY <1>0, <1>10, <2>1, <2>2
<1>11. ASSUME NEW w \in RerankWorkers, R!FinishJob(w) PROVE RerankCallInv'
  BY <1>8, <1>11 DEF R!FinishJob
<1>12. ASSUME NEW w \in RerankWorkers, R!CancelIdleWorker(w) PROVE RerankCallInv'
  <2>1. \A v \in RerankWorkers : v # w => rPc'[v] = rPc[v]
    BY <1>0, <1>12 DEF R!CancelIdleWorker
  <2>2. rPc[w] # "call" /\ rPc'[w] = "done" /\ UNCHANGED << rJob, rThread, rCancelled >>
    BY <1>0, <1>12 DEF R!CancelIdleWorker
  <2> QED
    BY <1>1, <2>1, <2>2
<1>13. ASSUME NEW w \in RerankWorkers, R!CancelBusyWorker(w) PROVE FALSE
  BY <1>13 DEF R!CancelBusyWorker
<1>14. ASSUME NEW k \in Reranks, \/ R!ThreadStarts(k)
                                 \/ \E o \in {"result", "error"} : R!ThreadEnds(k, o)
       PROVE  RerankCallInv'
  <2>1. UNCHANGED << rPc, rJob, rCancelled >>
    BY <1>14 DEF R!ThreadStarts, R!ThreadEnds
  <2>2. \A j \in Reranks : rThread'[j] \in {"queued", "running"} => rThread[j] \in {"queued", "running"}
    BY <1>0, <1>14 DEF R!ThreadStarts, R!ThreadEnds
  <2> QED
    BY <2>1, <2>2
<1>15. CASE UNCHANGED rVars
  BY <1>15 DEF rVars
<1> QED
  BY <1>4, <1>5, <1>6, <1>7, <1>9, <1>10, <1>11, <1>12, <1>13, <1>14, <1>15, StepOfOneQueue
     DEF RerankStep, R!Work, R!WorkerStep

\* An embedding call belongs to the worker that awaits it, until the lifespan stops the
\* batcher (batching.py:56-75, :172-189).
LEMMA NextKeepsEmbedCallInv ==
  ASSUME QueueFacts, LifespanInv, EmbedCallInv, [Next]_vars
  PROVE  EmbedCallInv'
<1> USE DEF EmbedCallInv
<1>0. /\ ePc = [w \in BatchWorkers |-> ePc[w]] /\ eThread = [w \in BatchWorkers |-> eThread[w]]
      /\ eCancelled \subseteq BatchWorkers
  BY Types
<1>1. phase \in {"stoppingBatcher", "down"} => phase' \in {"stoppingBatcher", "down"}
  BY DEF Next, Lifespan, StartBatcher, StartRerank, StopRerank, RerankStopped, StopBatcher,
         BatcherStopped, RerankCalls, EmbedCalls, RerankWork, BatchWork, Down, vars
<1>2. ASSUME UNCHANGED eThread,
             \A w \in BatchWorkers : ePc'[w] = ePc[w] \/ ePc[w] \notin {"call", "done"}
      PROVE  EmbedCallInv'
  BY <1>1, <1>2
<1>3. \A v \in BatchWorkers : E!Notified[v] = ePc[v] \/ ePc[v] \notin {"call", "done"}
  BY DEF E!Notified
<1>4. ASSUME NEW w \in BatchWorkers, E!StartWorker(w)
      PROVE  \A v \in BatchWorkers : ePc'[v] = ePc[v] \/ ePc[v] \notin {"call", "done"}
  BY <1>0, <1>4 DEF E!StartWorker
<1>5. ASSUME NEW w \in BatchWorkers, E!Start(w) PROVE EmbedCallInv'
  BY <1>2, <1>4, <1>5 DEF E!Start
<1>6. ASSUME NEW r \in Embeds, NEW in \in Inputs, E!Embed(r, in) PROVE EmbedCallInv'
  <2>1. UNCHANGED eThread
    BY <1>6 DEF E!Embed
  <2>2. CASE ePc' = ePc
    BY <1>2, <2>1, <2>2
  <2>3. CASE ePc' = E!Notified
    BY <1>2, <1>3, <2>1, <2>3
  <2>4. CASE \E w \in BatchWorkers : E!StartWorker(w)
    BY <1>2, <1>4, <2>1, <2>4
  <2> QED
    BY <1>6, <2>2, <2>3, <2>4 DEF E!Embed
<1>7. CASE E!Stop
  BY <1>2, <1>3, <1>7 DEF E!Stop
<1>8. CASE E!StopReturns
  BY <1>2, <1>8 DEF E!StopReturns
<1>9. ASSUME NEW w \in BatchWorkers, eThread[w] \notin {"queued", "running"} \/ ePc[w] = "gate",
             \A v \in BatchWorkers : v # w => ePc'[v] = ePc[v] /\ eThread'[v] = eThread[v],
             ePc'[w] = "call" \/ eThread'[w] = eThread[w]
      PROVE  EmbedCallInv'
  BY <1>1, <1>9
<1>10. ASSUME NEW w \in BatchWorkers, NEW atGate, NEW n, E!ServeBatch(w, atGate, n)
       PROVE  /\ \A v \in BatchWorkers : v # w => ePc'[v] = ePc[v] /\ eThread'[v] = eThread[v]
              /\ ePc'[w] = "call" \/ eThread'[w] = eThread[w]
  BY <1>0, <1>10 DEF E!ServeBatch
<1>11. ASSUME NEW w \in BatchWorkers, NEW atGate, NEW n, E!NextBatch(w, atGate, n)
       PROVE  /\ \A v \in BatchWorkers : v # w => ePc'[v] = ePc[v] /\ eThread'[v] = eThread[v]
              /\ ePc'[w] = "call" \/ eThread'[w] = eThread[w]
  BY <1>0, <1>10, <1>11 DEF E!NextBatch
<1>12. ASSUME NEW w \in BatchWorkers, E!Run(w) PROVE EmbedCallInv'
  <2>1. eThread[w] \notin {"queued", "running"}
    BY <1>12 DEF E!Run
  <2> QED
    BY <1>9, <1>11, <1>12, <2>1 DEF E!Run
<1>13. ASSUME NEW w \in BatchWorkers, E!Refilled(w) PROVE EmbedCallInv'
  <2>1. eThread[w] \notin {"queued", "running"} /\ ePc[w] \notin {"call", "done"}
    BY <1>13 DEF E!Refilled
  <2>2. CASE E!ServeBatch(w, gate, eActive)
    BY <1>9, <1>10, <2>1, <2>2
  <2>3. CASE UNCHANGED eThread /\ ePc' = [ePc EXCEPT ![w] = "filling"]
    BY <1>0, <1>2, <2>1, <2>3
  <2> QED
    BY <1>13, <2>2, <2>3 DEF E!Refilled
<1>14. ASSUME NEW w \in BatchWorkers, E!Timeout(w) PROVE EmbedCallInv'
  <2>1. eThread[w] \notin {"queued", "running"}
    BY <1>14 DEF E!Timeout
  <2> QED
    BY <1>9, <1>10, <1>14, <2>1 DEF E!Timeout
<1>15. ASSUME NEW w \in BatchWorkers, E!EnterGate(w) PROVE EmbedCallInv'
  <2>1. /\ \A v \in BatchWorkers : v # w => ePc'[v] = ePc[v] /\ eThread'[v] = eThread[v]
        /\ ePc[w] = "gate" /\ ePc'[w] = "call"
    BY <1>0, <1>15 DEF E!EnterGate
  <2> QED
    BY <1>9, <2>1
<1>16. ASSUME NEW w \in BatchWorkers, E!FinishBatch(w) PROVE EmbedCallInv'
  <2>1. eThread[w] \notin {"queued", "running"}
    BY <1>16 DEF E!FinishBatch
  <2> QED
    BY <1>9, <1>11, <1>16, <2>1 DEF E!FinishBatch
<1>17. ASSUME NEW w \in BatchWorkers, E!CancelIdleWorker(w) PROVE EmbedCallInv'
  <2>1. /\ \A v \in BatchWorkers : v # w => ePc'[v] = ePc[v]
        /\ ePc[w] \notin {"call", "done"} /\ UNCHANGED eThread
    BY <1>0, <1>17 DEF E!CancelIdleWorker
  <2> QED
    BY <1>2, <2>1
<1>18. ASSUME NEW w \in BatchWorkers, E!CancelBusyWorker(w) PROVE EmbedCallInv'
  <2>1. phase \in {"stoppingBatcher", "down"}
    BY <1>18 DEF E!CancelBusyWorker, LifespanInv
  <2>2. /\ \A v \in BatchWorkers : v # w => ePc'[v] = ePc[v] /\ eThread'[v] = eThread[v]
        /\ ePc'[w] = "done"
    BY <1>0, <1>18 DEF E!CancelBusyWorker
  <2> QED
    BY <1>1, <2>1, <2>2
<1>19. ASSUME NEW v \in BatchWorkers, \/ E!ThreadStarts(v)
                                      \/ \E o \in {"result", "error"} : E!ThreadEnds(v, o)
       PROVE  EmbedCallInv'
  <2>1. UNCHANGED ePc
    BY <1>19 DEF E!ThreadStarts, E!ThreadEnds
  <2>2. \A w \in BatchWorkers :
          eThread'[w] \in {"queued", "running"} => eThread[w] \in {"queued", "running"}
    BY <1>0, <1>19 DEF E!ThreadStarts, E!ThreadEnds
  <2> QED
    BY <1>1, <2>1, <2>2
<1>20. CASE UNCHANGED eVars
  BY <1>2, <1>20 DEF eVars
<1> QED
  BY <1>5, <1>6, <1>7, <1>8, <1>12, <1>13, <1>14, <1>15, <1>16, <1>17, <1>18, <1>19, <1>20,
     StepOfOneQueue DEF EmbedStep, E!Work, E!WorkerStep

RerankIdle == rPending = << >> /\ rActive = 0
EmbedIdle == ePending = << >> /\ eActive = 0

\* Nothing but the end of a call of a model leaves buffers in the cache, and the queue
\* that made the call is not idle until it has looked at itself again
\* (rerank_queue.py:110-116, batching.py:189-199).
BusyIsCounted == \A w \in BatchWorkers : ePc[w] \in {"gate", "call"} => eActive # 0

\* It follows from the invariant of the batcher: a batch is never empty.
LEMMA WhoIsBusyIsCounted == QueueFacts => BusyIsCounted
<1> SUFFICES ASSUME QueueFacts, NEW w \in BatchWorkers, ePc[w] \in {"gate", "call"}
             PROVE  eActive # 0
  BY DEF BusyIsCounted
<1>1. /\ EQ!WorkerInv /\ EQ!BatchInv /\ EQ!CountInv
      /\ eBatch[w] \in Seq(EQ!Ids)
  BY DEF QueueFacts, EQ!TInv, EQ!IInv, EQ!TextInv, EQ!GoodBatch
<1>2. eWorker = w /\ eBatch[w] # << >> /\ w # None
  BY <1>1, GatewayAssumption DEF EQ!WorkerInv, EQ!Live, EQ!BatchInv, EQ!Busy
<1>3. eActive = Len(eBatch[w])
  BY <1>2, <1>1 DEF EQ!CountInv
<1> QED
  BY <1>1, <1>2, <1>3, EmptySeq

\* Whichever queue ends its work last trims the cache.
LEMMA NextKeepsCacheInv ==
  ASSUME QueueFacts, QueueFacts', LifespanInv, RerankCallInv, EmbedCallInv, CacheInv, [Next]_vars
  PROVE  CacheInv'
<1> DEFINE Early == phase \in {"startBatcher", "startRerank", "serving"}
<1> SUFFICES ASSUME Early', RerankIdle', EmbedIdle' PROVE cache' = "clean"
  BY DEF CacheInv, RerankIdle, EmbedIdle
<1>0. Early
  BY DEF Next, Lifespan, StartBatcher, StartRerank, StopRerank, RerankStopped, StopBatcher,
         BatcherStopped, RerankCalls, EmbedCalls, RerankWork, BatchWork, Down, vars
<1>1. RerankIdle /\ EmbedIdle => cache = "clean"
  BY <1>0 DEF CacheInv, RerankIdle, EmbedIdle
<1>2. rCancelled = {} /\ eCancelled = {}
  BY <1>0 DEF LifespanInv
<1> HIDE DEF Early
<1>3. /\ rActive \in Nat /\ rPending \in Seq(Reranks) /\ ePending \in Seq(EQ!Ids)
      /\ RQ!WorkerInv /\ RQ!ActiveInv /\ RQ!JobInv
  BY DEF QueueFacts, RQ!RInv, RQ!IInv, RQ!TypeOK, EQ!TInv, EQ!TextInv
<1>4. ASSUME NEW w \in RerankWorkers, rPc[w] \in {"gate", "call"} PROVE rActive = 1
  BY <1>3, <1>4, GatewayAssumption
     DEF RQ!WorkerInv, RQ!OneWorker, RQ!Live, RQ!ActiveInv, RQ!Busy
<1>5. BusyIsCounted /\ BusyIsCounted'
  BY WhoIsBusyIsCounted, PTL
<1>6. \/ /\ \/ R!Work
            \/ \E w \in RerankWorkers : R!Start(w)
            \/ \E j \in Reranks : R!Rerank(j)
         /\ UNCHANGED eVars
      \/ /\ \/ E!Work
            \/ \E w \in BatchWorkers : E!Start(w)
            \/ \E r \in Embeds : \E in \in Inputs : E!Embed(r, in)
         /\ UNCHANGED rVars
      \/ UNCHANGED << rVars, eVars, gate, cache, phase >>
  BY DEF Early, Next, Lifespan, StartBatcher, StartRerank, StopRerank, RerankStopped, StopBatcher,
         BatcherStopped, RerankCalls, EmbedCalls, RerankWork, BatchWork, Down, vars
<1>7. ASSUME UNCHANGED << rPending, rActive, ePending, eActive, cache >> PROVE cache' = "clean"
  BY <1>1, <1>7 DEF RerankIdle, EmbedIdle
<1>8. CASE /\ \/ R!Work
              \/ \E w \in RerankWorkers : R!Start(w)
              \/ \E j \in Reranks : R!Rerank(j)
           /\ UNCHANGED eVars
  <2>1. UNCHANGED << ePending, eActive >>
    BY <1>8 DEF eVars
  <2>2. ASSUME NEW j \in Reranks, R!Rerank(j) PROVE FALSE
    <3>1. rPending' = Append(rPending, j)
      BY <2>2 DEF R!Rerank, R!Appended
    <3> QED
      BY <1>3, <3>1, AppendProperties DEF RerankIdle
  <2>3. ASSUME NEW w \in RerankWorkers, R!Start(w) PROVE cache' = "clean"
    BY <1>7, <2>1, <2>3 DEF R!Start
  <2>4. ASSUME NEW w \in RerankWorkers, NEW atGate, NEW n \in Nat, R!TakeNextJob(w, atGate, n)
        PROVE  rPending = << >> /\ n = 0
    BY <2>4 DEF R!TakeNextJob, RerankIdle
  <2>5. ASSUME NEW w \in RerankWorkers, R!Run(w) PROVE cache' = "clean"
    <3>1. rPending = << >> /\ rActive = 0 /\ cache' = cache
      BY <1>3, <2>4, <2>5 DEF R!Run
    <3> QED
      BY <1>1, <2>1, <3>1 DEF RerankIdle, EmbedIdle
  <2>6. ASSUME NEW w \in RerankWorkers, R!FinishJob(w) PROVE cache' = "clean"
    <3>1. rActive - 1 = 0
      BY <1>4, <2>6 DEF R!FinishJob
    <3>2. rPending = << >>
      BY <2>4, <2>6, <3>1 DEF R!FinishJob
    <3>3. Len(rPending) + (rActive - 1) = 0
      BY <3>1, <3>2, EmptySeq
    <3> QED
      BY <2>6, <3>3 DEF R!FinishJob, R!TrimCacheIfIdle
  <2>7. ASSUME NEW w \in RerankWorkers, R!EnterGate(w) \/ R!CancelIdleWorker(w) PROVE cache' = "clean"
    BY <1>7, <2>1, <2>7 DEF R!EnterGate, R!CancelIdleWorker
  <2>8. ASSUME NEW w \in RerankWorkers, R!CancelBusyWorker(w) PROVE FALSE
    BY <1>2, <2>8 DEF R!CancelBusyWorker
  <2>9. ASSUME NEW j \in Reranks, R!ThreadStarts(j) PROVE cache' = "clean"
    BY <1>7, <2>1, <2>9 DEF R!ThreadStarts
  <2>10. ASSUME NEW j \in Reranks, NEW o \in {"result", "error"}, R!ThreadEnds(j, o) PROVE FALSE
    BY <1>4, <2>10 DEF R!ThreadEnds, RerankCallInv, RerankIdle
  <2> QED
    BY <1>8, <2>2, <2>3, <2>5, <2>6, <2>7, <2>8, <2>9, <2>10 DEF R!Work, R!WorkerStep
<1>9. CASE /\ \/ E!Work
              \/ \E w \in BatchWorkers : E!Start(w)
              \/ \E r \in Embeds : \E in \in Inputs : E!Embed(r, in)
           /\ UNCHANGED rVars
  <2>1. UNCHANGED << rPending, rActive >>
    BY <1>9 DEF rVars
  <2>2. ASSUME NEW r \in Embeds, NEW in \in Inputs, E!Embed(r, in) PROVE cache' = "clean"
    <3>1. UNCHANGED << eActive, cache >> /\ E!Accepted(r, in)
      BY <2>2 DEF E!Embed
    <3>2. CASE ePending' = ePending
      BY <1>7, <2>1, <3>1, <3>2
    <3>3. CASE ePending' # ePending
      <4>1. EQ!Accepted(r, in) /\ ~\E i \in DOMAIN in.counts : EQ!Oversize(in, i)
        BY <3>1, <3>3, SameBatch DEF EQ!Accepted
      <4>2. \A i \in DOMAIN in.counts : << r, i >> \in EQ!ToSet(<< >>)
        BY <1>3, <4>1, QueueAssumptions, EQ!EmbedAppends DEF EmbedIdle
      <4>3. 1 \in DOMAIN in.counts
        BY GatewayAssumption, LenProperties
      <4>4. DOMAIN << >> = {}
        BY EmptySeq, LenProperties
      <4> QED
        BY <4>2, <4>3, <4>4 DEF EQ!ToSet
    <3> QED
      BY <3>2, <3>3
  <2>3. ASSUME NEW w \in BatchWorkers, E!Start(w) PROVE cache' = "clean"
    BY <1>7, <2>1, <2>3 DEF E!Start
  \* A worker that serves is not idle.
  <2>4. ASSUME NEW w \in BatchWorkers, NEW atGate, NEW n, E!ServeBatch(w, atGate, n) PROVE FALSE
    <3>1. ePc'[w] \in {"gate", "call"}
      BY <2>4, Types DEF E!ServeBatch
    <3> QED
      BY <1>5, <3>1 DEF BusyIsCounted, EmbedIdle
  <2>5. ASSUME NEW w \in BatchWorkers, NEW atGate, NEW n, E!NextBatch(w, atGate, n)
        PROVE  ePending' = ePending /\ eActive' = n
    BY <2>4, <2>5 DEF E!NextBatch
  <2>6. ASSUME NEW w \in BatchWorkers, E!Run(w) \/ E!Refilled(w) \/ E!Timeout(w) PROVE cache' = "clean"
    BY <1>7, <2>1, <2>4, <2>5, <2>6 DEF E!Run, E!Refilled, E!Timeout
  <2>7. ASSUME NEW w \in BatchWorkers, E!FinishBatch(w) PROVE cache' = "clean"
    <3>1. ePending = << >> /\ eActive - Len(eBatch[w]) = 0
      BY <2>5, <2>7 DEF E!FinishBatch, EmbedIdle
    <3>2. Len(ePending) + (eActive - Len(eBatch[w])) = 0
      BY <3>1, EmptySeq
    <3> QED
      BY <2>7, <3>2 DEF E!FinishBatch, E!TrimCacheIfIdle
  <2>8. ASSUME NEW w \in BatchWorkers, E!EnterGate(w) \/ E!CancelIdleWorker(w) PROVE cache' = "clean"
    BY <1>7, <2>1, <2>8 DEF E!EnterGate, E!CancelIdleWorker
  <2>9. ASSUME NEW w \in BatchWorkers, E!CancelBusyWorker(w) PROVE FALSE
    BY <1>2, <2>9 DEF E!CancelBusyWorker
  <2>10. ASSUME NEW w \in BatchWorkers, E!ThreadStarts(w) PROVE cache' = "clean"
    BY <1>7, <2>1, <2>10 DEF E!ThreadStarts
  <2>11. ASSUME NEW w \in BatchWorkers, NEW o \in {"result", "error"}, E!ThreadEnds(w, o) PROVE FALSE
    <3>1. ePc[w] = "call" /\ eActive' = eActive
      BY <1>0, <2>11 DEF E!ThreadEnds, EmbedCallInv, Early
    <3> QED
      BY <1>5, <3>1 DEF BusyIsCounted, EmbedIdle
  <2> QED
    BY <1>9, <2>2, <2>3, <2>6, <2>7, <2>8, <2>9, <2>10, <2>11 DEF E!Work, E!WorkerStep
<1> QED
  BY <1>6, <1>7, <1>8, <1>9 DEF rVars, eVars

GInv == /\ RQ!LineWaits /\ LifespanInv /\ RerankCallInv /\ EmbedCallInv /\ CacheInv

\* What the lifespan adds holds throughout a graceful life (server.py:132-148).
LEMMA GracefulInvariance ==
  ASSUME Drained
  PROVE  Spec => []GInv
<1>1. Init => GInv
  <2> SUFFICES ASSUME Init PROVE GInv
    OBVIOUS
  <2> USE DEF Init, R!Init, E!Init
  <2>1. RQ!Line = << >> /\ DOMAIN << >> = {}
    BY ConcatEmptySeq, EmptySeq, LenProperties DEF RQ!Line
  <2>2. RQ!LineWaits
    BY <2>1 DEF RQ!LineWaits
  <2> QED
    BY <2>2, GatewayAssumption DEF GInv, LifespanInv, RerankCallInv, EmbedCallInv, CacheInv
<1>2. QueueFacts /\ QueueFacts' /\ GInv /\ [Next]_vars => GInv'
  <2> SUFFICES ASSUME QueueFacts, QueueFacts', GInv, [Next]_vars PROVE GInv'
    OBVIOUS
  <2> USE DEF GInv
  <2>1. LifespanInv'
    BY NextKeepsLifespanInv
  <2>2. RerankCallInv'
    BY NextKeepsRerankCallInv
  <2>3. EmbedCallInv'
    BY NextKeepsEmbedCallInv
  <2>4. CacheInv'
    BY NextKeepsCacheInv
  <2>5. RQ!LineWaits'
    <3>1. [RQ!Next]_RQ!vars
      BY StepsAreQueueSteps DEF QueuesInv, QueueFacts, RQ!RInv, EQ!TInv
    <3>2. RQ!RInv /\ RQ!RInv' /\ RQ!LineInv
      BY DEF QueueFacts
    <3>3. [RQ!Abstract!Next]_RQ!Abstract!vars
      BY <3>1, <3>2, QueueAssumptions, RQ!NextIsAbstract
    <3>4. \A j \in Reranks : rFuture[j] = "pending" => rFuture'[j] # "cancelled"
      BY NoFutureCancelled
    <3> QED
      BY <3>2, <3>3, <3>4, QueueAssumptions, RQ!NextKeepsLineWaits
  <2> QED
    BY <2>1, <2>2, <2>3, <2>4, <2>5
<1> QED
  BY <1>1, <1>2, QueuesInvariance, PTL DEF Spec

\* "Only one embedding/rerank MLX model call enters that gate at a time", in whatever
\* threads, and however the queues, their restarts and the stops of a graceful lifespan
\* overlap: a call that outlives its worker is the batcher's last, when the rerank queue
\* is down already (README.md:465-466).
THEOREM OneModelCallAtATime ==
  ASSUME Drained
  PROVE  Spec => []OneModelCall
<1>1. ASSUME QueueFacts, GInv PROVE OneModelCall
  <2> USE <1>1 DEF QueueFacts, GInv
  <2>0. /\ \A w \in RerankWorkers : rPc[w] = "call" => rWorker = w /\ w # None /\ RQ!Holds(gate, w)
        /\ \A w \in BatchWorkers : ePc[w] = "call" => EQ!Holds(gate, w)
    BY GatewayAssumption
       DEF RQ!RInv, RQ!IInv, RQ!WorkerInv, RQ!OneWorker, RQ!Live, RQ!JobInv,
           EQ!TInv, EQ!IInv, EQ!GateInv
  <2>1. ASSUME NEW j \in Reranks, NEW k \in Reranks, rThread[j] = "running", rThread[k] = "running"
        PROVE  j = k
    BY <2>0, <2>1 DEF RerankCallInv
  <2>2. ASSUME NEW v \in BatchWorkers, NEW w \in BatchWorkers,
               eThread[v] = "running", eThread[w] = "running"
        PROVE  v = w
    BY <2>2 DEF EmbedCallInv, LifespanInv
  <2>3. ASSUME NEW j \in Reranks, NEW v \in BatchWorkers, rThread[j] = "running", eThread[v] = "running"
        PROVE  FALSE
    <3>1. PICK w \in RerankWorkers : rPc[w] = "call" /\ rJob[w] = j
      BY <2>3 DEF RerankCallInv
    <3>2. CASE ePc[v] = "call"
      <4>1. RQ!Holds(gate, w) /\ EQ!Holds(gate, v)
        BY <2>0, <3>1, <3>2
      <4>2. Head(gate) = w /\ Head(gate) = v
        BY <4>1 DEF RQ!Holds, EQ!Holds
      <4> QED
        BY <4>2, GatewayAssumption
    <3>3. CASE phase \in {"stoppingBatcher", "down"}
      BY <2>0, <3>1, <3>3 DEF LifespanInv
    <3> QED
      BY <2>3, <3>2, <3>3 DEF EmbedCallInv
  <2>4. \A a, b \in ModelCalls : a = b
    <3>1. \A a \in ModelCalls :
            \/ \E j \in Reranks : a = << "rerank", j >> /\ rThread[j] = "running"
            \/ \E w \in BatchWorkers : a = << "embed", w >> /\ eThread[w] = "running"
      BY DEF ModelCalls
    <3> QED
      BY <2>1, <2>2, <2>3, <3>1
  <2>5. CASE ModelCalls = {}
    BY <2>5, FS_EmptySet DEF OneModelCall
  <2>6. CASE \E a : a \in ModelCalls
    <3>1. PICK a : a \in ModelCalls
      BY <2>6
    <3>2. ModelCalls = {a}
      BY <2>4, <3>1
    <3>3. Cardinality(ModelCalls) = 1
      BY <3>2, FS_Singleton
    <3> QED
      BY <3>3 DEF OneModelCall
  <2> QED
    BY <2>5, <2>6
<1> QED
  BY <1>1, GracefulInvariance, QueuesInvariance, PTL

\* When the lifespan is over nothing is left of either queue but, perhaps, the last
\* embedding call: no worker lives, the gate is free, and no rerank call runs on
\* (server.py:143-148).
THEOREM NothingIsLeftRunning ==
  ASSUME Drained
  PROVE  Spec => []ShutdownIsComplete
<1>1. ASSUME QueueFacts, GInv PROVE ShutdownIsComplete
  <2> SUFFICES ASSUME phase = "down" PROVE ShutdownIsComplete
    BY DEF ShutdownIsComplete
  <2> USE <1>1 DEF QueueFacts, GInv
  <2>1. rWorker = None /\ eWorker = None
    BY DEF LifespanInv
  <2>2. /\ \A w \in RerankWorkers : rPc[w] \in {"unborn", "done"}
        /\ \A w \in BatchWorkers : ePc[w] \in {"unborn", "done"}
    BY <2>1, GatewayAssumption
       DEF RQ!RInv, RQ!IInv, RQ!WorkerInv, RQ!OneWorker, RQ!Live, EQ!TInv, EQ!IInv, EQ!WorkerInv, EQ!Live
  <2>3. \A j \in Reranks : rThread[j] # "running"
    BY <2>2 DEF RerankCallInv
  <2>4. Free(gate)
    <3>1. gate \in Seq(RerankWorkers \cup BatchWorkers)
      BY DEF RQ!RInv, RQ!IInv, RQ!TypeOK, RQ!Users
    <3>2. SUFFICES ASSUME gate # << >> PROVE FALSE
      BY DEF Free
    <3>3. Len(gate) \in Nat \ {0} /\ DOMAIN gate = 1..Len(gate)
      BY <3>1, <3>2, EmptySeq, LenProperties
    <3>4. 1 \in DOMAIN gate /\ gate[1] \in RerankWorkers \cup BatchWorkers
      BY <3>1, <3>3, ElementOfSeq
    <3>5. ASSUME gate[1] \in RerankWorkers PROVE FALSE
      BY <2>2, <3>4, <3>5 DEF RQ!RInv, RQ!IInv, RQ!GateHeldWhileBusy, RQ!InLine, RQ!Busy
    <3>6. ASSUME gate[1] \in BatchWorkers PROVE FALSE
      BY <2>2, <3>4, <3>6 DEF EQ!TInv, EQ!IInv, EQ!GateInv, EQ!InLine, EQ!Busy
    <3> QED
      BY <3>4, <3>5, <3>6
  <2> QED
    BY <2>1, <2>2, <2>3, <2>4 DEF ShutdownIsComplete
<1> QED
  BY <1>1, GracefulInvariance, QueuesInvariance, PTL

\* When neither queue has anything left while the gateway serves, the cache is trimmed,
\* although each queue looks at its own state only (rerank_queue.py:116,
\* batching.py:199).
THEOREM CacheIsTrimmedWhenIdle ==
  ASSUME Drained
  PROVE  Spec => []IdleIsTrimmed
<1>1. ASSUME QueueFacts, GInv PROVE IdleIsTrimmed
  <2> SUFFICES ASSUME phase = "serving", Len(rPending) + rActive + Len(ePending) + eActive = 0
               PROVE  cache = "clean"
    BY DEF IdleIsTrimmed
  <2> USE <1>1 DEF QueueFacts, GInv
  <2>1. /\ rPending \in Seq(Reranks) /\ ePending \in Seq(EQ!Ids) /\ rActive \in Nat
        /\ Len(rPending) \in Nat /\ Len(ePending) \in Nat
    BY LenProperties DEF RQ!RInv, RQ!IInv, RQ!TypeOK, EQ!TInv, EQ!TextInv
  <2>2. eActive \in Nat
    <3>1. /\ EQ!CountInv /\ eWorker \in BatchWorkers \cup {None}
          /\ \A w \in BatchWorkers : Len(eBatch[w]) \in Nat
      BY LenProperties DEF EQ!TInv, EQ!IInv, EQ!ControlTypes, EQ!TextInv, EQ!GoodBatch
    <3> QED
      BY <3>1 DEF EQ!CountInv
  <2>3. Len(rPending) = 0 /\ rActive = 0 /\ Len(ePending) = 0 /\ eActive = 0
    BY <2>1, <2>2
  <2>4. rPending = << >> /\ ePending = << >>
    BY <2>1, <2>3, EmptySeq
  <2> QED
    BY <2>3, <2>4 DEF CacheInv
<1> QED
  BY <1>1, GracefulInvariance, QueuesInvariance, PTL
====
