----------------------------- MODULE RerankQueue -----------------------------
(***************************************************************************)
(* rerank_queue.py: calls of rerank() wait in one list for one worker      *)
(* task, which runs them one after the other, each in a thread             *)
(* (asyncio.to_thread) and under the inference gate it shares with the     *)
(* embedding batcher.  The lifespan starts and stops the queue; rerank()   *)
(* also starts it by itself.                                               *)
(*                                                                         *)
(* An action is what one task does between two suspensions: tasks of one   *)
(* event loop interleave only at an `await` that really suspends.  The     *)
(* condition's lock is never held across one, so it is never contended and *)
(* a whole call of rerank() up to `await future` is a single action.       *)
(* Task.cancel() makes the task's next resumption raise CancelledError,    *)
(* whatever the task was waiting for, done or not.                         *)
(***************************************************************************)
EXTENDS Naturals, FiniteSets, InferenceGate

CONSTANTS
  Jobs,                \* the calls of rerank() that may be made
  Workers,             \* the worker tasks start() may create: bounds restarts
  Others,              \* the other tasks that use the inference gate
  None,
  Drained,             \* TRUE: stop() comes once every call is answered, and no
                       \* call follows it (uvicorn's graceful shutdown)
  ClearAfterInference  \* MLXRerankService(clear_cache_after_inference=...)

ASSUME ConstantsAssumption ==
  /\ None \notin Jobs /\ None \notin Workers
  /\ Workers \cap Others = {}
  /\ IsFiniteSet(Workers)
  /\ Drained \in BOOLEAN /\ ClearAfterInference \in BOOLEAN

VARIABLES
  future,     \* RerankJob.future, "none" before the call
  pending,    \* _pending
  worker,     \* _worker_task
  active,     \* _active_jobs
  stopping,   \* _stopping
  stopCall,   \* "awaiting" while stop() awaits the worker it cancelled
  pc,         \* where each worker task is suspended
  cancelled,  \* the worker tasks that stop() cancelled
  job,        \* the job in the hands of each worker
  thread,     \* the to_thread call of each job
  gate,       \* inference_gate
  cache       \* MLX's free-buffer cache, as this queue's calls leave it

vars == << future, pending, worker, active, stopping, stopCall, pc, cancelled,
           job, thread, gate, cache >>

Users == Workers \cup Others

TypeOK ==
  /\ future \in [Jobs -> {"none", "pending", "result", "error", "cancelled"}]
  /\ pending \in Seq(Jobs)
  /\ worker \in Workers \cup {None}
  /\ active \in Nat
  /\ stopping \in BOOLEAN
  /\ stopCall \in {"off", "awaiting"}
  /\ pc \in [Workers -> {"unborn", "ready", "waiting", "notified", "gate", "call", "done"}]
  /\ cancelled \in SUBSET Workers
  /\ job \in [Workers -> Jobs \cup {None}]
  /\ thread \in [Jobs -> {"none", "queued", "running", "result", "error", "dropped"}]
  /\ gate \in Seq(Users)
  /\ cache \in {"clean", "dirty"}

Init ==
  /\ future = [j \in Jobs |-> "none"]
  /\ pending = << >>
  /\ worker = None
  /\ active = 0
  /\ stopping = FALSE
  /\ stopCall = "off"
  /\ pc = [w \in Workers |-> "unborn"]
  /\ cancelled = {}
  /\ job = [w \in Workers |-> None]
  /\ thread = [j \in Jobs |-> "none"]
  /\ gate = << >>
  /\ cache = "clean"

-----------------------------------------------------------------------------
\* Condition.notify_all.  (Definitions in the pattern of NobodyNotified, which a
\* comment calls a mutant, are not the code's: they are bugs the runs must see.)
\* Mutant: no notification.
NobodyNotified == pc

Notified == [w \in Workers |-> IF pc[w] = "waiting" THEN "notified" ELSE pc[w]]

\* The caller's future takes an outcome only if it has none yet.
Settled(j, o) == [future EXCEPT ![j] = IF @ = "pending" THEN o ELSE @]

\* Mutants: the newest call first; the job taken stays in the list.
Prepended(j) == << j >> \o pending
Peeked == pending

Appended(j) == Append(pending, j)
Popped == Tail(pending)

\* Mutant: the list is cleared before its futures are cancelled.
DropPendingFutures == pending' = << >> /\ UNCHANGED future

CancelPendingFutures ==
  /\ future' = [j \in Jobs |->
                  IF future[j] = "pending" /\ \E i \in DOMAIN pending : pending[i] = j
                  THEN "cancelled" ELSE future[j]]
  /\ pending' = << >>

\* _trim_cache_if_idle, with n jobs active: MLXMemoryManager.trim_if_idle
\* clears the cache when "unfinished" is zero.
\* Mutant: the worker trims before it uncounts its own job.
TrimCountingItself(n) == cache' = IF Len(pending) + n + 1 = 0 THEN "clean" ELSE cache

TrimCacheIfIdle(n) == cache' = IF Len(pending) + n = 0 THEN "clean" ELSE cache

StartWorker(w) ==
  /\ worker = None
  /\ pc[w] = "unborn"
  /\ worker' = w
  /\ pc' = [pc EXCEPT ![w] = "ready"]
  /\ stopping' = FALSE

-----------------------------------------------------------------------------
(* The lifespan and the callers *)

Start(w) ==
  /\ StartWorker(w)
  /\ UNCHANGED << future, pending, active, stopCall, cancelled, job, thread, gate, cache >>

Rerank(j) ==
  /\ future[j] = "none"
  /\ Drained => ~stopping
  /\ \/ /\ worker # None
        /\ pc' = Notified
        /\ UNCHANGED << worker, stopping >>
     \/ \E w \in Workers : StartWorker(w)
  /\ future' = [future EXCEPT ![j] = "pending"]
  /\ pending' = Appended(j)
  /\ UNCHANGED << active, stopCall, cancelled, job, thread, gate, cache >>

\* The task that awaits rerank() is cancelled, and its future with it; the job
\* stays where it is.
CallerCancelled(j) ==
  /\ future[j] = "pending"
  /\ future' = [future EXCEPT ![j] = "cancelled"]
  /\ UNCHANGED << pending, worker, active, stopping, stopCall, pc, cancelled,
                  job, thread, gate, cache >>

\* Mutants: stop() does not await the worker; it only raises the flag.
StopUnawaited ==
  /\ stopCall = "off"
  /\ stopping' = TRUE
  /\ pc' = Notified
  /\ worker' = None
  /\ cancelled' = IF worker = None THEN cancelled ELSE cancelled \cup {worker}
  /\ CancelPendingFutures
  /\ UNCHANGED << active, stopCall, job, thread, gate, cache >>

StopByFlagOnly ==
  /\ stopCall = "off"
  /\ worker # None
  /\ stopping' = TRUE
  /\ stopCall' = "awaiting"
  /\ UNCHANGED << future, pending, worker, active, pc, cancelled, job, thread, gate, cache >>

\* stop() up to `await self._worker_task`, or to its end when no worker exists.
Stop ==
  /\ stopCall = "off"
  /\ Drained => \A j \in Jobs : future[j] # "pending"
  /\ stopping' = TRUE
  /\ pc' = Notified
  /\ \/ /\ worker # None
        /\ cancelled' = cancelled \cup {worker}
        /\ stopCall' = "awaiting"
        /\ UNCHANGED << future, pending >>
     \/ /\ worker = None
        /\ CancelPendingFutures
        /\ UNCHANGED << cancelled, stopCall >>
  /\ UNCHANGED << worker, active, job, thread, gate, cache >>

StopReturns ==
  /\ stopCall = "awaiting"
  /\ pc[worker] = "done"
  /\ stopCall' = "off"
  /\ worker' = None
  /\ CancelPendingFutures
  /\ UNCHANGED << active, stopping, pc, cancelled, job, thread, gate, cache >>

-----------------------------------------------------------------------------
(* The worker task *)

\* `_run` from the head of its loop, with the gate and the count of active jobs
\* it gets there with: _next_job, and _process_job up to its next suspension.
\* A worker never gets here while stopping: stop() has cancelled it by then.
TakeNextJob(w, atGate, n) ==
  /\ ~stopping
  /\ \/ /\ pending = << >>
        /\ pc' = [pc EXCEPT ![w] = "waiting"]
        /\ job' = [job EXCEPT ![w] = None]
        /\ active' = n
        /\ gate' = atGate
        /\ UNCHANGED << pending, thread >>
     \/ /\ pending # << >>
        /\ pending' = Popped
        /\ job' = [job EXCEPT ![w] = Head(pending)]
        /\ active' = n + 1
        /\ gate' = Acquire(atGate, w)
        /\ \/ /\ Free(atGate)
              /\ pc' = [pc EXCEPT ![w] = "call"]
              /\ thread' = [thread EXCEPT ![Head(pending)] = "queued"]
           \/ /\ ~Free(atGate)
              /\ pc' = [pc EXCEPT ![w] = "gate"]
              /\ UNCHANGED thread

Run(w) ==
  /\ pc[w] \in {"ready", "notified"}
  /\ w \notin cancelled
  /\ TakeNextJob(w, gate, active)
  /\ UNCHANGED << future, worker, stopping, stopCall, cancelled, cache >>

EnterGate(w) ==
  /\ pc[w] = "gate"
  /\ w \notin cancelled
  /\ Holds(gate, w)
  /\ pc' = [pc EXCEPT ![w] = "call"]
  /\ thread' = [thread EXCEPT ![job[w]] = "queued"]
  /\ UNCHANGED << future, pending, worker, active, stopping, stopCall, cancelled,
                  job, gate, cache >>

\* The call has returned or raised: release the gate, answer the caller, and go
\* round the loop.
FinishJob(w) ==
  /\ pc[w] = "call"
  /\ w \notin cancelled
  /\ thread[job[w]] \in {"result", "error"}
  /\ future' = Settled(job[w], thread[job[w]])
  /\ TrimCacheIfIdle(active - 1)
  /\ TakeNextJob(w, Leave(gate, w), active - 1)
  /\ UNCHANGED << worker, stopping, stopCall, cancelled >>

\* CancelledError at whatever the worker awaits.  It is no Exception: the gate
\* is left and the job uncounted, but nobody settles the job's future.  A call
\* that no thread has taken up yet is withdrawn; one that runs goes on.
\* Mutant: a `finally` around the whole loop uncounts a job nobody counted.
CancelIdleWorkerUncounting(w) ==
  /\ w \in cancelled
  /\ pc[w] \in {"ready", "waiting", "notified"}
  /\ pc' = [pc EXCEPT ![w] = "done"]
  /\ active' = active - 1
  /\ UNCHANGED << future, pending, worker, stopping, stopCall, cancelled,
                  job, thread, gate, cache >>

CancelIdleWorker(w) ==
  /\ w \in cancelled
  /\ pc[w] \in {"ready", "waiting", "notified"}
  /\ pc' = [pc EXCEPT ![w] = "done"]
  /\ UNCHANGED << future, pending, worker, active, stopping, stopCall, cancelled,
                  job, thread, gate, cache >>

\* Mutant: the job is uncounted in the paths of `try` and `except` only.
CancelBusyWorkerKeepingCount(w) ==
  /\ w \in cancelled
  /\ pc[w] \in {"gate", "call"}
  /\ pc' = [pc EXCEPT ![w] = "done"]
  /\ job' = [job EXCEPT ![w] = None]
  /\ gate' = Leave(gate, w)
  /\ UNCHANGED << future, pending, worker, active, stopping, stopCall, cancelled,
                  thread, cache >>

CancelBusyWorker(w) ==
  /\ w \in cancelled
  /\ pc[w] \in {"gate", "call"}
  /\ pc' = [pc EXCEPT ![w] = "done"]
  /\ job' = [job EXCEPT ![w] = None]
  /\ gate' = Leave(gate, w)
  /\ active' = active - 1
  /\ TrimCacheIfIdle(active - 1)
  /\ thread' = [thread EXCEPT ![job[w]] = IF @ = "queued" THEN "dropped" ELSE @]
  /\ UNCHANGED << future, pending, worker, stopping, stopCall, cancelled >>

-----------------------------------------------------------------------------
(* The executor's threads, and the other users of the gate *)

ThreadStarts(j) ==
  /\ thread[j] = "queued"
  /\ thread' = [thread EXCEPT ![j] = "running"]
  /\ UNCHANGED << future, pending, worker, active, stopping, stopCall, pc, cancelled,
                  job, gate, cache >>

\* MLXRerankService.rerank returns or raises; its `finally` may clear the cache.
ThreadEnds(j, o) ==
  /\ thread[j] = "running"
  /\ thread' = [thread EXCEPT ![j] = o]
  /\ cache' = IF ClearAfterInference THEN "clean" ELSE "dirty"
  /\ UNCHANGED << future, pending, worker, active, stopping, stopCall, pc, cancelled,
                  job, gate >>

OtherAcquires(u) ==
  /\ ~InLine(gate, u)
  /\ gate' = Acquire(gate, u)
  /\ UNCHANGED << future, pending, worker, active, stopping, stopCall, pc, cancelled,
                  job, thread, cache >>

\* The other user may be the other queue's worker, which goes round its loop and
\* joins the line again before it suspends.
OtherLeaves(u) ==
  /\ InLine(gate, u)
  /\ gate' \in {Leave(gate, u), Acquire(Leave(gate, u), u)}
  /\ UNCHANGED << future, pending, worker, active, stopping, stopCall, pc, cancelled,
                  job, thread, cache >>

-----------------------------------------------------------------------------
WorkerStep(w) == \/ Run(w) \/ EnterGate(w) \/ FinishJob(w)
                 \/ CancelIdleWorker(w) \/ CancelBusyWorker(w)

\* What goes on without the lifespan and the callers.
Work == \/ \E w \in Workers : WorkerStep(w)
        \/ \E j \in Jobs : \/ ThreadStarts(j)
                           \/ \E o \in {"result", "error"} : ThreadEnds(j, o)

QueueStep == \/ Work \/ Stop \/ StopReturns
             \/ \E w \in Workers : Start(w)
             \/ \E j \in Jobs : Rerank(j) \/ CallerCancelled(j)

Next == QueueStep \/ \E u \in Others : OtherAcquires(u) \/ OtherLeaves(u)

Spec == Init /\ [][Next]_vars

\* The event loop resumes every task that can run, a rerank call ends, and so
\* does every other use of the gate.
QueueFairness ==
  /\ WF_vars(StopReturns)
  /\ \A w \in Workers : WF_vars(WorkerStep(w))
  /\ \A j \in Jobs : /\ WF_vars(ThreadStarts(j))
                     /\ WF_vars(\E o \in {"result", "error"} : ThreadEnds(j, o))

Fairness == QueueFairness /\ \A u \in Others : WF_vars(Holds(gate, u) /\ OtherLeaves(u))

FairSpec == Spec /\ Fairness

-----------------------------------------------------------------------------
(* Properties *)

Live(w) == pc[w] \notin {"unborn", "done"}

Busy(w) == pc[w] \in {"gate", "call"}

\* However start(), stop() and rerank() overlap, no second worker runs beside
\* the one _worker_task names (rerank_queue.py:27, :35-39).
OneWorker == \A w \in Workers : Live(w) => worker = w

\* "active" of the stats is the number of jobs in a worker's hands, whatever
\* path the worker left its last job by (rerank_queue.py:93, :111).
ActiveIsExact == active = Cardinality({w \in Workers : Busy(w)})

\* A worker stands in the line of the gate, once, exactly while it works on a
\* job: a cancelled one leaves nothing behind for others to wait on.
GateHeldWhileBusy ==
  /\ IsInjective(gate)
  /\ \A w \in Workers : InLine(gate, w) <=> Busy(w)

\* The job a worker has popped, and the pending list.
Line == (IF worker # None /\ job[worker] # None THEN << job[worker] >> ELSE << >>)
        \o pending

\* A caller waits for an answer that nobody will give: its job is in neither.
Forgotten(j) == future[j] = "pending" /\ \A i \in DOMAIN Line : Line[i] # j

\* Nobody is, in the gateway's graceful life (stated there, module Gateway).
NoCallerForgotten == \A j \in Jobs : ~Forgotten(j)

\* When stop() cuts the queue short, at any moment and with calls that go on
\* arriving and restart it, a caller is left without an answer only when his job is
\* the one that the cancelled worker drops: CancelledError is no Exception
\* (rerank_queue.py:106).  All others are told (:40-43).
ForgetsOnlyTheJobInHand ==
  [][\A j \in Jobs : Forgotten(j)' /\ ~Forgotten(j)
                       => \E w \in cancelled : job[w] = j /\ job'[w] = None]_vars

\* No job is worked on twice, or while it is also queued: a job has one place.
JobHasOnePlace == IsInjective(Line)

\* Every call is answered in the end, even one that arrives while the worker
\* falls asleep or others want the gate all the time.
EveryCallAnswered == \A j \in Jobs : future[j] = "pending" ~> future[j] # "pending"

\* stop() never hangs, whatever the worker was awaiting.
StopTerminates == stopCall = "awaiting" ~> stopCall = "off"

\* The queue answers its calls in the order of their arrival, as OrderedService
\* says.
Abstract == INSTANCE OrderedService WITH line <- Line, outcome <- future, closing <- stopping

ImplementsOrderedService == Abstract!Spec
=============================================================================
