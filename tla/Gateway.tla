------------------------------ MODULE Gateway ------------------------------
(***************************************************************************)
(* server.py: one gateway process runs the embedding batcher and the       *)
(* rerank queue under one inference gate and one MLX cache.  The lifespan  *)
(* starts the batcher, then the rerank queue, and stops them in the        *)
(* opposite order.                                                         *)
(*                                                                         *)
(* Each queue is the other's environment: the steps RerankQueue and        *)
(* DynamicBatcher leave to "other users of the gate" are here the steps of *)
(* the real ones.                                                          *)
(***************************************************************************)
EXTENDS Naturals, FiniteSets, InferenceGate

CONSTANTS
  Reranks, RerankWorkers,                              \* RerankQueue
  Embeds, Inputs, MaxTexts, BatchWorkers,                       \* DynamicBatcher
  MaxBatchSize, MaxBatchTokens, TolerancePercent,
  None, Drained, ClearAfterInference

\* What RerankQueue and DynamicBatcher assume.
ASSUME GatewayAssumption ==
  /\ None \notin Reranks \cup RerankWorkers \cup BatchWorkers \cup Inputs
  /\ RerankWorkers \cap BatchWorkers = {}
  /\ IsFiniteSet(RerankWorkers) /\ IsFiniteSet(BatchWorkers)
  /\ MaxTexts \in Nat /\ TolerancePercent \in Nat
  /\ MaxBatchSize \in Nat \ {0} /\ MaxBatchTokens \in Nat \ {0}
  /\ \A in \in Inputs : in.counts \in Seq(Nat) /\ Len(in.counts) \in 1..MaxTexts /\ in.maxLength \in Nat \ {0}
  /\ Drained \in BOOLEAN /\ ClearAfterInference \in BOOLEAN

VARIABLES
  rFuture, rPending, rWorker, rActive, rStopping, rStopCall, rPc, rCancelled, rJob, rThread,
  eInput, eFuture, eEmbedding, ePending, eWorker, eActive, eStopping, eStopCall, ePc,
  eCancelled, eBatch, eThread,
  gate, cache,
  phase    \* where the lifespan is

rVars == << rFuture, rPending, rWorker, rActive, rStopping, rStopCall, rPc, rCancelled,
            rJob, rThread >>
eVars == << eInput, eFuture, eEmbedding, ePending, eWorker, eActive, eStopping, eStopCall,
            ePc, eCancelled, eBatch, eThread >>
vars == << rVars, eVars, gate, cache, phase >>

R == INSTANCE RerankQueue WITH
       Jobs <- Reranks, Workers <- RerankWorkers, Others <- BatchWorkers,
       future <- rFuture, pending <- rPending, worker <- rWorker, active <- rActive,
       stopping <- rStopping, stopCall <- rStopCall, pc <- rPc, cancelled <- rCancelled,
       job <- rJob, thread <- rThread

E == INSTANCE DynamicBatcher WITH
       Calls <- Embeds, Workers <- BatchWorkers, Others <- RerankWorkers,
       input <- eInput, future <- eFuture, embedding <- eEmbedding, pending <- ePending,
       worker <- eWorker, active <- eActive, stopping <- eStopping, stopCall <- eStopCall,
       pc <- ePc, cancelled <- eCancelled, batch <- eBatch, thread <- eThread

TypeOK == /\ R!TypeOK /\ E!TypeOK
          /\ phase \in {"startBatcher", "startRerank", "serving", "stoppingRerank",
                        "stopBatcher", "stoppingBatcher", "down"}

Init == R!Init /\ E!Init /\ phase = "startBatcher"

-----------------------------------------------------------------------------
(* The lifespan *)

StartBatcher ==
  /\ phase = "startBatcher" /\ phase' = "startRerank"
  /\ \E w \in BatchWorkers : E!Start(w)
  /\ UNCHANGED rVars

StartRerank ==
  /\ phase = "startRerank" /\ phase' = "serving"
  /\ \E w \in RerankWorkers : R!Start(w)
  /\ UNCHANGED eVars

\* Mutant: the rerank queue is not stopped.
SkipRerank ==
  /\ phase = "serving" /\ phase' = "stopBatcher"
  /\ Drained => \A j \in Reranks : rFuture[j] # "pending"
  /\ Drained => \A r \in Embeds : ~E!CallWaits(r)
  /\ UNCHANGED << rVars, eVars, gate, cache >>

StopRerank ==
  /\ phase = "serving" /\ phase' = "stoppingRerank"
  /\ Drained => \A r \in Embeds : ~E!CallWaits(r)
  /\ R!Stop
  /\ UNCHANGED eVars

RerankStopped ==
  /\ phase = "stoppingRerank" /\ phase' = "stopBatcher"
  /\ R!StopReturns
  /\ UNCHANGED eVars

StopBatcher ==
  /\ phase = "stopBatcher" /\ phase' = "stoppingBatcher"
  /\ E!Stop
  /\ UNCHANGED rVars

BatcherStopped ==
  /\ phase = "stoppingBatcher" /\ phase' = "down"
  /\ E!StopReturns
  /\ UNCHANGED rVars

Lifespan == StartBatcher \/ StartRerank \/ StopRerank \/ RerankStopped \/ StopBatcher \/ BatcherStopped

-----------------------------------------------------------------------------
(* The callers, who do not give up, and the queues *)

\* uvicorn serves requests once startup is over, and ends the lifespan once they
\* are answered; without such a drain they go on while it ends.
Serving == /\ phase \notin {"startBatcher", "startRerank", "down"}
           /\ Drained => phase = "serving"

RerankCalls ==
  /\ Serving /\ \E j \in Reranks : R!Rerank(j)
  /\ UNCHANGED << eVars, phase >>

EmbedCalls ==
  /\ Serving /\ \E r \in Embeds, in \in Inputs : E!Embed(r, in)
  /\ UNCHANGED << rVars, phase >>

RerankWork == R!Work /\ UNCHANGED << eVars, phase >>
BatchWork == E!Work /\ UNCHANGED << rVars, phase >>

\* The process may stay down.
Down == phase = "down" /\ UNCHANGED vars

Next == Lifespan \/ RerankCalls \/ EmbedCalls \/ RerankWork \/ BatchWork \/ Down

Spec == Init /\ [][Next]_vars

\* The lifespan goes on once it is starting or stopping; nothing makes it stop.
Fairness == /\ R!QueueFairness /\ E!QueueFairness
            /\ WF_vars(phase # "serving" /\ Lifespan)

FairSpec == Spec /\ Fairness

-----------------------------------------------------------------------------
(* Properties *)

ModelCalls == {<< "rerank", j >> : j \in {j \in Reranks : rThread[j] = "running"}}
              \cup {<< "embed", w >> : w \in {w \in BatchWorkers : eThread[w] = "running"}}

\* "Only one embedding/rerank MLX model call enters that gate at a time"
\* (README.md:465-466; tests/test_rerank_queue.py:183): no two model calls run at
\* the same time, in whatever threads.
OneModelCall == Cardinality(ModelCalls) <= 1

\* Once the lifespan is over no worker lives, nobody is left in the line of the
\* gate, and no rerank call runs on (server.py:143-148).  An embedding call may:
\* the other texts of a call that has failed already are still worked on when its
\* caller has been answered, and batcher.stop() leaves their thread running.
ShutdownIsComplete ==
  phase = "down" => /\ rWorker = None /\ eWorker = None /\ Free(gate)
                    /\ \A j \in Reranks : rThread[j] # "running"
                    /\ \A w \in RerankWorkers : rPc[w] \in {"unborn", "done"}
                    /\ \A w \in BatchWorkers : ePc[w] \in {"unborn", "done"}

\* When neither queue has anything left the cache is trimmed, although each
\* looks at its own state only (rerank_queue.py:116, batching.py:199).
IdleIsTrimmed ==
  (phase = "serving" /\ Len(rPending) + rActive + Len(ePending) + eActive = 0)
    => cache = "clean"

\* Between the queues, the gate and the two stops of the lifespan nothing that a
\* caller waits for gets lost: a rerank call is in its queue or worked on, and so is
\* a text of a call, also when another text of the call has failed
\* (rerank_queue.py:92-109; batching.py:114, :184-195).
NobodyForgotten == R!NoCallerForgotten /\ E!NoTextForgotten

\* Neither queue keeps the other from the gate for ever.
EveryCallAnswered ==
  /\ \A j \in Reranks : rFuture[j] = "pending" ~> rFuture[j] # "pending"
  /\ \A r \in Embeds : E!CallWaits(r) ~> ~E!CallWaits(r)

\* The lifespan comes to its end, although the batcher may still wait for a full
\* queue, or work, for texts whose call has failed (server.py:146-148,
\* batching.py:131-139).
ShutdownTerminates == phase = "stoppingRerank" ~> phase = "down"
=============================================================================
