--------------------------- MODULE DynamicBatcher ---------------------------
(***************************************************************************)
(* batching.py: embed() turns each text of a call into a job of its own.   *)
(* One worker task picks the oldest job as an anchor, gathers compatible   *)
(* jobs around it -- waiting a little for more to come -- and embeds the   *)
(* batch in one model call, in a thread and under the inference gate.      *)
(*                                                                         *)
(* As in RerankQueue, an action is what a task does between two            *)
(* suspensions.  batch_timeout_ms is positive; time itself is abstracted:  *)
(* the wait for more jobs may end at any moment.                           *)
(***************************************************************************)
EXTENDS Integers, FiniteSets, InferenceGate

CONSTANTS
  Calls,           \* the calls of embed() that may be made
  Inputs,          \* what a call may ask for: a task (with its dimensions), a
                   \* max_length and the token count of each text
  MaxTexts,        \* the texts a call may have
  Workers,         \* the worker tasks start() may create: bounds restarts
  Others,          \* the other tasks that use the inference gate
  None,
  MaxBatchSize, MaxBatchTokens,
  TolerancePercent,    \* 100 * length_tolerance
  Drained,             \* as in RerankQueue
  ClearAfterInference

ASSUME ConstantsAssumption ==
  /\ None \notin Workers /\ None \notin Inputs
  /\ Workers \cap Others = {}
  /\ IsFiniteSet(Workers)
  /\ MaxTexts \in Nat /\ TolerancePercent \in Nat
  /\ MaxBatchSize \in Nat \ {0} /\ MaxBatchTokens \in Nat \ {0}
  /\ \A in \in Inputs : in.counts \in Seq(Nat) /\ Len(in.counts) \in 1..MaxTexts /\ in.maxLength \in Nat \ {0}
  /\ Drained \in BOOLEAN /\ ClearAfterInference \in BOOLEAN

VARIABLES
  input,      \* what each call asked for
  future,     \* BatchJob.future of each text of each call
  embedding,  \* what a future that has its result holds: the text that was
              \* embedded, and the key it was embedded under
  pending, worker, active, stopping, stopCall, pc, cancelled,  \* as in RerankQueue
  batch,      \* the batch in the hands of each worker
  thread,     \* its to_thread call
  gate, cache

vars == << input, future, embedding, pending, worker, active, stopping, stopCall, pc,
           cancelled, batch, thread, gate, cache >>

Users == Workers \cup Others

\* A job is a call and the position of one of its texts.
JobsOf(r) == IF input[r] = None THEN {} ELSE {<< r, i >> : i \in DOMAIN input[r].counts}
Jobs == UNION {JobsOf(r) : r \in Calls}

\* BatchJob.key, and BatchJob.token_count, which embed() truncates.
Key(j) == [task |-> input[j[1]].task, maxLength |-> input[j[1]].maxLength]
Truncated(in, i) == Min({in.counts[i], in.maxLength})
TokenCount(j) == Truncated(input[j[1]], j[2])

Ids == Calls \X (1..MaxTexts)
NoEmbedding == [text |-> << >>, key |-> << >>]

TypeOK ==
  /\ input \in [Calls -> Inputs \cup {None}]
  /\ future \in [Ids -> {"none", "pending", "result", "error", "cancelled"}]
  /\ \A j \in Ids : embedding[j] = NoEmbedding \/ embedding[j].text \in Ids
  /\ ToSet(pending) \subseteq Ids
  /\ worker \in Workers \cup {None}
  /\ active \in Nat
  /\ stopping \in BOOLEAN
  /\ stopCall \in {"off", "awaiting"}
  /\ pc \in [Workers -> {"unborn", "ready", "waiting", "notified", "filling", "refilled",
                         "gate", "call", "done"}]
  /\ cancelled \in SUBSET Workers
  /\ \A w \in Workers : ToSet(batch[w]) \subseteq Ids
  /\ thread \in [Workers -> {"none", "queued", "running", "result", "error", "dropped"}]
  /\ ToSet(gate) \subseteq Users
  /\ cache \in {"clean", "dirty"}

Init ==
  /\ input = [r \in Calls |-> None]
  /\ future = [j \in Ids |-> "none"]
  /\ embedding = [j \in Ids |-> NoEmbedding]
  /\ pending = << >>
  /\ worker = None
  /\ active = 0
  /\ stopping = FALSE
  /\ stopCall = "off"
  /\ pc = [w \in Workers |-> "unborn"]
  /\ cancelled = {}
  /\ batch = [w \in Workers |-> << >>]
  /\ thread = [w \in Workers |-> "none"]
  /\ gate = << >>
  /\ cache = "clean"

-----------------------------------------------------------------------------
(* The choice of a batch *)

Distance(j, k) == IF TokenCount(j) < TokenCount(k) THEN TokenCount(k) - TokenCount(j)
                                                   ELSE TokenCount(j) - TokenCount(k)

LengthMatches(anchor, j) == 100 * Distance(anchor, j) <= TolerancePercent * TokenCount(anchor)

\* Mutants: texts of any task share a batch; padding is forgotten.
CompatibleByLength(anchor, j) == j = anchor \/ LengthMatches(anchor, j)
FitsUnpadded(b, j) ==
  FoldLeft(LAMBDA n, k : n + TokenCount(k), TokenCount(j), b) <= MaxBatchTokens

Compatible(anchor, j) == j = anchor \/ (Key(j) = Key(anchor) /\ LengthMatches(anchor, j))

\* _would_fit: every text of a batch is padded to its longest.
WouldFit(b, j) ==
  \A k \in ToSet(b) \cup {j} : TokenCount(k) * (Len(b) + 1) <= MaxBatchTokens

\* Mutant: the longest text comes first.
Longest(p, i, k) == TokenCount(p[i]) > TokenCount(p[k]) \/ (TokenCount(p[i]) = TokenCount(p[k]) /\ i < k)

\* The order in which jobs are offered a place: by distance to the anchor, then
\* by age (created_at grows along the list).
Before(p, i, k) == \/ Distance(p[1], p[i]) < Distance(p[1], p[k])
                   \/ Distance(p[1], p[i]) = Distance(p[1], p[k]) /\ i < k

First(p, S) == CHOOSE i \in S : \A k \in S \ {i} : Before(p, i, k)

\* One round of _select_batch_locked: of the jobs of p that are left, the first is
\* offered a place in the batch, and takes it if it still fits.
Offer(p, s) ==
  LET i == First(p, s.left)
  IN  IF s.left = {} THEN s
      ELSE [batch |-> IF Len(s.batch) < MaxBatchSize /\ WouldFit(s.batch, p[i])
                      THEN Append(s.batch, p[i]) ELSE s.batch,
            left  |-> s.left \ {i}]

Compatibles(p) == {i \in DOMAIN p : Compatible(p[1], p[i])}

\* (The rounds after the last offer do nothing.)
SelectBatch(p) ==
  LET offered[s \in [batch : Seq(Ids), left : SUBSET DOMAIN p]] == Offer(p, s)
      round[n \in 0..Len(p)] ==
        IF n = 0 THEN [batch |-> << >>, left |-> Compatibles(p)] ELSE offered[round[n - 1]]
  IN  round[Len(p)].batch

\* What the choice of batch b leaves of the list p.
Remaining(p, b) ==
  LET kept[n \in 0..Len(p)] ==
        IF n = 0 THEN << >>
        ELSE IF p[n] \in ToSet(b) THEN kept[n - 1] ELSE Append(kept[n - 1], p[n])
  IN  kept[Len(p)]

-----------------------------------------------------------------------------
(* The lifespan and the callers *)

\* Condition.notify_all, for both waits of _next_batch.  Mutant: only an idle
\* worker is woken.
NotifiedIfIdle == [w \in Workers |-> IF pc[w] = "waiting" THEN "ready" ELSE pc[w]]

Notified == [w \in Workers |-> CASE pc[w] = "waiting" -> "notified"
                                 [] pc[w] = "filling" -> "refilled"
                                 [] OTHER -> pc[w]]

\* The jobs of S that have no outcome yet take o.  Mutant: exceptions are lost.
SettledByResult(S, o) ==
  [j \in Ids |-> IF j \in S /\ future[j] = "pending" /\ o # "error" THEN o ELSE future[j]]

Settled(S, o) == [j \in Ids |-> IF j \in S /\ future[j] = "pending" THEN o ELSE future[j]]

TrimCacheIfIdle(n) == cache' = IF Len(pending) + n = 0 THEN "clean" ELSE cache

CancelPendingFutures ==
  /\ future' = Settled(ToSet(pending), "cancelled")
  /\ pending' = << >>

\* gather() in embed(): a call waits until one of its futures fails or all have
\* their results.
CallWaits(r) == /\ \A j \in JobsOf(r) : future[j] \in {"pending", "result"}
                /\ \E j \in JobsOf(r) : future[j] = "pending"

StartWorker(w) ==
  /\ worker = None
  /\ pc[w] = "unborn"
  /\ worker' = w
  /\ pc' = [pc EXCEPT ![w] = "ready"]
  /\ stopping' = FALSE

Start(w) ==
  /\ StartWorker(w)
  /\ UNCHANGED << input, future, embedding, pending, active, stopCall, cancelled, batch,
                  thread, gate, cache >>

\* embed(): start() comes first, then every text is measured, and one that is
\* too long rejects the call before any job exists.  Mutant: each text is
\* measured and queued in turn.
Oversize(in, i) == Truncated(in, i) > MaxBatchTokens

AcceptedUpToOversize(r, in) ==
  LET fits == {i \in DOMAIN in.counts : \A k \in 1..i : ~Oversize(in, k)}
  IN  /\ future' = [j \in Ids |-> IF j[1] = r /\ j[2] \in fits THEN "pending" ELSE future[j]]
      /\ pending' = pending \o [i \in fits |-> << r, i >>]

Accepted(r, in) ==
  IF \E i \in DOMAIN in.counts : Oversize(in, i)
  THEN UNCHANGED << future, pending >>
  ELSE /\ future' = [j \in Ids |-> IF j[1] = r /\ j[2] \in DOMAIN in.counts
                                   THEN "pending" ELSE future[j]]
       /\ pending' = pending \o [i \in DOMAIN in.counts |-> << r, i >>]

Embed(r, in) ==
  /\ input[r] = None
  /\ Drained => ~stopping
  /\ input' = [input EXCEPT ![r] = in]
  /\ Accepted(r, in)
  /\ \/ /\ worker # None
        /\ pc' = IF pending' = pending THEN pc ELSE Notified
        /\ UNCHANGED << worker, stopping >>
     \/ \E w \in Workers : StartWorker(w)
  /\ UNCHANGED << embedding, active, stopCall, cancelled, batch, thread, gate, cache >>

\* The task that awaits embed() is cancelled: gather() cancels its futures.
CallerCancelled(r) ==
  /\ CallWaits(r)
  /\ future' = Settled(JobsOf(r), "cancelled")
  /\ UNCHANGED << input, embedding, pending, worker, active, stopping, stopCall, pc,
                  cancelled, batch, thread, gate, cache >>

\* Mutant: the worker is told to end by the flag, and not woken.
StopByFlagOnly ==
  /\ stopCall = "off"
  /\ worker # None
  /\ stopping' = TRUE
  /\ stopCall' = "awaiting"
  /\ UNCHANGED << input, future, embedding, pending, worker, active, pc, cancelled, batch,
                  thread, gate, cache >>

Stop ==
  /\ stopCall = "off"
  /\ Drained => \A r \in Calls : ~CallWaits(r)
  /\ stopping' = TRUE
  /\ pc' = Notified
  /\ \/ /\ worker # None
        /\ cancelled' = cancelled \cup {worker}
        /\ stopCall' = "awaiting"
        /\ UNCHANGED << future, pending >>
     \/ /\ worker = None
        /\ CancelPendingFutures
        /\ UNCHANGED << cancelled, stopCall >>
  /\ UNCHANGED << input, embedding, worker, active, batch, thread, gate, cache >>

StopReturns ==
  /\ stopCall = "awaiting"
  /\ pc[worker] = "done"
  /\ stopCall' = "off"
  /\ worker' = None
  /\ CancelPendingFutures
  /\ UNCHANGED << input, embedding, active, stopping, pc, cancelled, batch, thread, gate,
                  cache >>

-----------------------------------------------------------------------------
(* The worker task *)

\* The batch leaves the list, and _process_batch runs up to its next suspension.
\* An empty batch would have _run spin without ever yielding: no step.
ServeBatch(w, atGate, n) ==
  \E b \in {SelectBatch(pending)} :
      /\ b # << >>
      /\ pending' = Remaining(pending, b)
      /\ batch' = [batch EXCEPT ![w] = b]
      /\ active' = n + Len(b)
      /\ gate' = Acquire(atGate, w)
      /\ \/ /\ Free(atGate)
            /\ pc' = [pc EXCEPT ![w] = "call"]
            /\ thread' = [thread EXCEPT ![w] = "queued"]
         \/ /\ ~Free(atGate)
            /\ pc' = [pc EXCEPT ![w] = "gate"]
            /\ UNCHANGED thread

\* `_run` from the head of its loop: _next_batch sleeps while there is no job,
\* waits while there are few, or serves at once.
NextBatch(w, atGate, n) ==
  /\ ~stopping
  /\ \/ Len(pending) >= MaxBatchSize /\ ServeBatch(w, atGate, n)
     \/ /\ Len(pending) < MaxBatchSize
        /\ pc' = [pc EXCEPT ![w] = IF pending = << >> THEN "waiting" ELSE "filling"]
        /\ batch' = [batch EXCEPT ![w] = << >>]
        /\ active' = n
        /\ gate' = atGate
        /\ UNCHANGED << pending, thread >>

Run(w) ==
  /\ pc[w] \in {"ready", "notified"}
  /\ w \notin cancelled
  /\ NextBatch(w, gate, active)
  /\ UNCHANGED << input, future, embedding, worker, stopping, stopCall, cancelled, cache >>

\* _wait_for_full_queue wakes up: the queue is full, or it waits again.
Refilled(w) ==
  /\ pc[w] = "refilled"
  /\ w \notin cancelled
  /\ \/ Len(pending) >= MaxBatchSize /\ ServeBatch(w, gate, active)
     \/ /\ Len(pending) < MaxBatchSize
        /\ pc' = [pc EXCEPT ![w] = "filling"]
        /\ UNCHANGED << pending, batch, active, gate, thread >>
  /\ UNCHANGED << input, future, embedding, worker, stopping, stopCall, cancelled, cache >>

\* batch_timeout is over, notified or not.
Timeout(w) ==
  /\ pc[w] \in {"filling", "refilled"}
  /\ w \notin cancelled
  /\ ServeBatch(w, gate, active)
  /\ UNCHANGED << input, future, embedding, worker, stopping, stopCall, cancelled, cache >>

EnterGate(w) ==
  /\ pc[w] = "gate"
  /\ w \notin cancelled
  /\ Holds(gate, w)
  /\ pc' = [pc EXCEPT ![w] = "call"]
  /\ thread' = [thread EXCEPT ![w] = "queued"]
  /\ UNCHANGED << input, future, embedding, pending, worker, active, stopping, stopCall,
                  cancelled, batch, gate, cache >>

\* The i-th vector of the call is the i-th job's, under the key of the first job.
Vectors(b) == [i \in DOMAIN b |-> [text |-> b[i], key |-> Key(b[1])]]

FinishBatch(w) ==
  LET b == batch[w]
  IN  /\ pc[w] = "call"
      /\ w \notin cancelled
      /\ thread[w] \in {"result", "error"}
      /\ future' = Settled(ToSet(b), thread[w])
      /\ embedding' = [j \in Ids |->
           IF thread[w] = "result" /\ j \in ToSet(b) /\ future[j] = "pending"
           THEN Vectors(b)[CHOOSE i \in DOMAIN b : b[i] = j] ELSE embedding[j]]
      /\ TrimCacheIfIdle(active - Len(b))
      /\ NextBatch(w, Leave(gate, w), active - Len(b))
      /\ UNCHANGED << input, worker, stopping, stopCall, cancelled >>

\* CancelledError at whatever the worker awaits: see RerankQueue.
\* Mutants: a job is uncounted that nobody counted; one is where there were several.
CancelIdleWorkerUncounting(w) ==
  /\ w \in cancelled
  /\ pc[w] \in {"ready", "waiting", "notified", "filling", "refilled"}
  /\ pc' = [pc EXCEPT ![w] = "done"]
  /\ active' = active - 1
  /\ UNCHANGED << input, future, embedding, pending, worker, stopping, stopCall,
                  cancelled, batch, thread, gate, cache >>

CancelIdleWorker(w) ==
  /\ w \in cancelled
  /\ pc[w] \in {"ready", "waiting", "notified", "filling", "refilled"}
  /\ pc' = [pc EXCEPT ![w] = "done"]
  /\ UNCHANGED << input, future, embedding, pending, worker, active, stopping, stopCall,
                  cancelled, batch, thread, gate, cache >>

CancelBusyWorkerUncountingOne(w) ==
  /\ w \in cancelled
  /\ pc[w] \in {"gate", "call"}
  /\ pc' = [pc EXCEPT ![w] = "done"]
  /\ batch' = [batch EXCEPT ![w] = << >>]
  /\ gate' = Leave(gate, w)
  /\ active' = active - 1
  /\ TrimCacheIfIdle(active - 1)
  /\ UNCHANGED << input, future, embedding, pending, worker, stopping, stopCall, cancelled,
                  thread >>

CancelBusyWorker(w) ==
  /\ w \in cancelled
  /\ pc[w] \in {"gate", "call"}
  /\ pc' = [pc EXCEPT ![w] = "done"]
  /\ batch' = [batch EXCEPT ![w] = << >>]
  /\ gate' = Leave(gate, w)
  /\ active' = active - Len(batch[w])
  /\ TrimCacheIfIdle(active - Len(batch[w]))
  /\ thread' = [thread EXCEPT ![w] = IF @ = "queued" THEN "dropped" ELSE @]
  /\ UNCHANGED << input, future, embedding, pending, worker, stopping, stopCall, cancelled >>

-----------------------------------------------------------------------------
(* The executor's threads, and the other users of the gate *)

ThreadStarts(w) ==
  /\ thread[w] = "queued"
  /\ thread' = [thread EXCEPT ![w] = "running"]
  /\ UNCHANGED << input, future, embedding, pending, worker, active, stopping, stopCall, pc,
                  cancelled, batch, gate, cache >>

\* MLXEmbeddingService.embed returns or raises; its `finally` may clear the cache.
ThreadEnds(w, o) ==
  /\ thread[w] = "running"
  /\ thread' = [thread EXCEPT ![w] = o]
  /\ cache' = IF ClearAfterInference THEN "clean" ELSE "dirty"
  /\ UNCHANGED << input, future, embedding, pending, worker, active, stopping, stopCall, pc,
                  cancelled, batch, gate >>

OtherAcquires(u) ==
  /\ ~InLine(gate, u)
  /\ gate' = Acquire(gate, u)
  /\ UNCHANGED << input, future, embedding, pending, worker, active, stopping, stopCall, pc,
                  cancelled, batch, thread, cache >>

\* The other user may be the other queue's worker, which goes round its loop and
\* joins the line again before it suspends.
OtherLeaves(u) ==
  /\ InLine(gate, u)
  /\ gate' \in {Leave(gate, u), Acquire(Leave(gate, u), u)}
  /\ UNCHANGED << input, future, embedding, pending, worker, active, stopping, stopCall, pc,
                  cancelled, batch, thread, cache >>

-----------------------------------------------------------------------------
WorkerStep(w) == \/ Run(w) \/ Refilled(w) \/ Timeout(w) \/ EnterGate(w) \/ FinishBatch(w)
                 \/ CancelIdleWorker(w) \/ CancelBusyWorker(w)

\* What goes on without the lifespan and the callers.
Work == \E w \in Workers : \/ WorkerStep(w)
                          \/ ThreadStarts(w)
                          \/ \E o \in {"result", "error"} : ThreadEnds(w, o)

QueueStep == \/ Work \/ Stop \/ StopReturns
             \/ \E w \in Workers : Start(w)
             \/ \E r \in Calls : CallerCancelled(r) \/ \E in \in Inputs : Embed(r, in)

Next == QueueStep \/ \E u \in Others : OtherAcquires(u) \/ OtherLeaves(u)

Spec == Init /\ [][Next]_vars

\* As in RerankQueue; and the event loop's timers fire.
QueueFairness ==
  /\ WF_vars(StopReturns)
  /\ \A w \in Workers : /\ WF_vars(WorkerStep(w))
                        /\ WF_vars(Timeout(w))
                        /\ WF_vars(ThreadStarts(w))
                        /\ WF_vars(\E o \in {"result", "error"} : ThreadEnds(w, o))

Fairness == QueueFairness /\ \A u \in Others : WF_vars(Holds(gate, u) /\ OtherLeaves(u))

FairSpec == Spec /\ Fairness

-----------------------------------------------------------------------------
(* Properties *)

Busy(w) == pc[w] \in {"gate", "call"}

\* A batch never exceeds its size, nor its tokens once padded to its longest
\* text; its texts share task, dimensions and max_length, and are near the
\* length of the first, the anchor (README.md:453-458; batching.py:141-170).
BatchLimits ==
  \A w \in Workers : Busy(w) =>
    LET b == batch[w]
    IN  /\ Len(b) \in 1..MaxBatchSize
        /\ \A j \in ToSet(b) : /\ TokenCount(j) * Len(b) <= MaxBatchTokens
                               /\ Key(j) = Key(b[1])
                               /\ 100 * TokenCount(j) >= (100 - TolerancePercent) * TokenCount(b[1])
                               /\ 100 * TokenCount(j) <= (100 + TolerancePercent) * TokenCount(b[1])

\* No job is overtaken for ever: when a batch is taken from the list, the oldest
\* job of the list is in it (batching.py:142).
OldestJobInEveryBatch ==
  [][\A w \in Workers : batch'[w] # batch[w] /\ batch'[w] # << >>
                           => Head(pending) = Head(batch'[w])]_vars

\* Who gets a vector gets that of its own text, under its own task and
\* max_length, whomever it shared a batch with (batching.py:175-183, :193-195).
OwnEmbedding ==
  \A j \in Jobs : future[j] = "result" => embedding[j] = [text |-> j, key |-> Key(j)]

\* A call with one text beyond max_batch_tokens leaves no job of its other texts
\* in the queue (README.md:459-460; batching.py:91-97).
OversizeLeavesNothing ==
  \A r \in Calls : (\E j \in JobsOf(r) : TokenCount(j) > MaxBatchTokens)
                      => \A j \in JobsOf(r) : future[j] = "none"

\* "active" counts the texts, not the batches, in the hands of workers, and no two
\* workers have a batch at once, stopped and restarted as the queue may be
\* (batching.py:56-75, :173, :190).
ActiveIsExact ==
  \/ active = 0 /\ \A w \in Workers : batch[w] = << >>
  \/ \E w \in Workers : /\ active = Len(batch[w])
                        /\ \A v \in Workers \ {w} : batch[v] = << >>

\* A worker that still waits for more jobs to come has not enough of them: the
\* call that fills the queue wakes it (batching.py:112, :137-139).
FullQueueIsNoticed ==
  \A w \in Workers : pc[w] = "filling" => Len(pending) < MaxBatchSize

\* A text of a call that still waits is in the list or in a worker's batch.
NoTextForgotten ==
  \A r \in Calls : CallWaits(r) =>
    \A j \in JobsOf(r) : future[j] = "pending" =>
      j \in ToSet(pending) \cup UNION {ToSet(batch[w]) : w \in Workers}

\* Every call is answered in the end, also one whose texts never fill a batch.
EveryCallAnswered == \A r \in Calls : CallWaits(r) ~> ~CallWaits(r)
=============================================================================
