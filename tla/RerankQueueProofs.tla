-------------------------- MODULE RerankQueueProofs --------------------------
(***************************************************************************)
(* Proofs about RerankQueue, for any number of jobs, workers and other     *)
(* users of the gate, and whether or not shutdowns are graceful.           *)
(*                                                                         *)
(* The invariants are not inductive one by one: that a job is counted      *)
(* active exactly while it is worked on needs that only one worker lives,  *)
(* and that in turn needs that stop() forgets a worker only once it is     *)
(* done.  IInv joins them.                                                 *)
(*                                                                         *)
(* The second half shows that RerankQueue implements OrderedService: each  *)
(* step of the queue is a step of the service, or none.  What follows from *)
(* the promise of the service then holds for the queue.                    *)
(***************************************************************************)
EXTENDS RerankQueue, InferenceGateProofs, FiniteSetTheorems

\* _worker_task names the only live task, and stop() is the only one to cancel
\* it.
WorkerInv ==
  /\ OneWorker
  /\ worker # None => pc[worker] # "unborn"
  /\ \A w \in cancelled : pc[w] # "unborn" /\ (worker = w => stopping)
  /\ stopCall = "awaiting" => worker # None

\* A worker has a job in its hands exactly while it is busy, and one that calls
\* the model holds the gate.
JobInv ==
  \A w \in Workers : /\ job[w] # None <=> Busy(w)
                     /\ pc[w] = "call" => Holds(gate, w)

ActiveInv == active = IF worker # None /\ Busy(worker) THEN 1 ELSE 0

IInv == TypeOK /\ WorkerInv /\ JobInv /\ ActiveInv /\ GateHeldWhileBusy

-----------------------------------------------------------------------------
\* No worker exists at first.
LEMMA InitIInv == Init => IInv
<1> SUFFICES ASSUME Init PROVE IInv
  OBVIOUS
<1> USE DEF Init
<1>1. /\ << >> \in Seq(Jobs) /\ << >> \in Seq(Users)
      /\ DOMAIN << >> = {}
  <2>1. /\ << >> \in Seq(Jobs) /\ << >> \in Seq(Users)
    BY EmptySeq
  <2> QED
    BY <2>1, LenProperties, EmptySeq
<1>2. TypeOK
  BY <1>1 DEF TypeOK
<1>3. WorkerInv
  BY DEF WorkerInv, OneWorker, Live
<1>4. JobInv /\ ActiveInv
  BY DEF JobInv, ActiveInv, Busy
<1>5. GateHeldWhileBusy
  BY <1>1 DEF GateHeldWhileBusy, InLine, IsInjective, Busy
<1> QED
  BY <1>2, <1>3, <1>4, <1>5 DEF IInv

\* Going round the loop of _run, with the gate that is left once the last job is
\* done, keeps everything: the worker falls asleep, or takes one job, counts it
\* and joins the line of the gate.
LEMMA TakeNextJobKeepsIInv ==
  ASSUME TypeOK, WorkerInv, NEW w \in Workers, Live(w), w \notin cancelled,
         NEW atGate \in Seq(Users), IsInjective(atGate),
         \A v \in Workers : ~InLine(atGate, v),
         \A v \in Workers : v # w => job[v] = None /\ ~Busy(v),
         TakeNextJob(w, atGate, 0),
         UNCHANGED << worker, stopping, stopCall, cancelled >>,
         future' \in [Jobs -> {"none", "pending", "result", "error", "cancelled"}],
         cache' \in {"clean", "dirty"}
  PROVE  IInv'
<1>1. worker = w /\ w # None
  BY ConstantsAssumption DEF WorkerInv, OneWorker
<1>2. CASE /\ pending = << >>
           /\ pc' = [pc EXCEPT ![w] = "waiting"]
           /\ job' = [job EXCEPT ![w] = None]
           /\ active' = 0
           /\ gate' = atGate
           /\ UNCHANGED << pending, thread >>
  <2>1. TypeOK'
    BY <1>2 DEF TypeOK
  <2>2. WorkerInv'
    BY <1>1, <1>2 DEF WorkerInv, OneWorker, Live, TypeOK
  <2>3. JobInv' /\ ActiveInv'
    BY <1>1, <1>2 DEF JobInv, ActiveInv, Busy, TypeOK
  <2>4. GateHeldWhileBusy'
    BY <1>2 DEF GateHeldWhileBusy, Busy, TypeOK
  <2> QED
    BY <2>1, <2>2, <2>3, <2>4 DEF IInv
<1>3. CASE /\ pending # << >>
           /\ pending' = Popped
           /\ job' = [job EXCEPT ![w] = Head(pending)]
           /\ active' = 0 + 1
           /\ gate' = Acquire(atGate, w)
           /\ \/ /\ Free(atGate)
                 /\ pc' = [pc EXCEPT ![w] = "call"]
                 /\ thread' = [thread EXCEPT ![Head(pending)] = "queued"]
              \/ /\ ~Free(atGate)
                 /\ pc' = [pc EXCEPT ![w] = "gate"]
                 /\ UNCHANGED thread
  <2>1. Head(pending) \in Jobs /\ Head(pending) # None /\ pending' \in Seq(Jobs)
    BY <1>3, HeadTailProperties, ConstantsAssumption DEF TypeOK, Popped
  <2>2. w \in Users
    BY DEF Users
  <2>3. /\ gate' \in Seq(Users)
        /\ IsInjective(gate')
        /\ \A v : InLine(gate', v) <=> (v = w \/ InLine(atGate, v))
        /\ Free(atGate) => Holds(gate', w)
    BY <1>3, <2>2, AcquireLemma
  <2>4. TypeOK'
    <3>1. pc' \in [Workers -> {"unborn", "ready", "waiting", "notified", "gate", "call", "done"}]
      BY <1>3 DEF TypeOK
    <3>2. thread' \in [Jobs -> {"none", "queued", "running", "result", "error", "dropped"}]
      BY <1>3, <2>1 DEF TypeOK
    <3>3. job' \in [Workers -> Jobs \cup {None}]
      BY <1>3, <2>1 DEF TypeOK
    <3>4. active' \in Nat
      BY <1>3
    <3> QED
      BY <2>1, <2>3, <3>1, <3>2, <3>3, <3>4 DEF TypeOK
  <2>5. WorkerInv'
    BY <1>1, <1>3 DEF WorkerInv, OneWorker, Live, TypeOK
  <2>6. JobInv'
    BY <1>3, <2>1, <2>3 DEF JobInv, Busy, TypeOK
  <2>7. ActiveInv'
    BY <1>1, <1>3 DEF ActiveInv, Busy, TypeOK
  <2>8. GateHeldWhileBusy'
    BY <1>3, <2>3 DEF GateHeldWhileBusy, Busy, TypeOK
  <2> QED
    BY <2>4, <2>5, <2>6, <2>7, <2>8 DEF IInv
<1> QED
  BY <1>2, <1>3 DEF TakeNextJob

-----------------------------------------------------------------------------
\* Every action keeps IInv.
LEMMA NextKeepsIInv == IInv /\ [Next]_vars => IInv'
<1> SUFFICES ASSUME IInv, [Next]_vars PROVE IInv'
  OBVIOUS
<1> USE DEF IInv
<1>0. \A w \in Workers : w # None /\ w \in Users
  BY ConstantsAssumption DEF Users
<1>1. ASSUME NEW w \in Workers, Start(w) PROVE IInv'
  <2> USE <1>1 DEF Start, StartWorker
  <2>1. TypeOK'
    BY DEF TypeOK
  <2>2. WorkerInv'
    BY <1>0 DEF WorkerInv, OneWorker, Live, TypeOK
  <2>3. JobInv' /\ ActiveInv' /\ GateHeldWhileBusy'
    BY <1>0 DEF JobInv, ActiveInv, GateHeldWhileBusy, Busy, TypeOK
  <2> QED
    BY <2>1, <2>2, <2>3
<1>2. ASSUME NEW j \in Jobs, Rerank(j) PROVE IInv'
  <2> USE <1>2 DEF Rerank
  <2>1. pending' \in Seq(Jobs)
    BY AppendProperties DEF TypeOK, Appended
  <2>2. CASE worker # None /\ pc' = Notified /\ UNCHANGED << worker, stopping >>
    <3>1. TypeOK'
      BY <2>1, <2>2 DEF TypeOK, Notified
    <3>2. WorkerInv'
      BY <2>2 DEF WorkerInv, OneWorker, Live, Notified, TypeOK
    <3>3. JobInv' /\ ActiveInv' /\ GateHeldWhileBusy'
      BY <2>2 DEF JobInv, ActiveInv, GateHeldWhileBusy, Busy, Notified, TypeOK
    <3> QED
      BY <3>1, <3>2, <3>3
  <2>3. ASSUME NEW w \in Workers, StartWorker(w) PROVE IInv'
    <3>1. TypeOK'
      BY <2>1, <2>3 DEF TypeOK, StartWorker
    <3>2. WorkerInv'
      BY <1>0, <2>3 DEF WorkerInv, OneWorker, Live, StartWorker, TypeOK
    <3>3. JobInv' /\ ActiveInv' /\ GateHeldWhileBusy'
      BY <1>0, <2>3 DEF JobInv, ActiveInv, GateHeldWhileBusy, Busy, StartWorker, TypeOK
    <3> QED
      BY <3>1, <3>2, <3>3
  <2> QED
    BY <2>2, <2>3
<1>3. ASSUME NEW j \in Jobs, CallerCancelled(j) PROVE IInv'
  <2> USE <1>3 DEF CallerCancelled
  <2>1. TypeOK'
    BY DEF TypeOK
  <2>2. WorkerInv' /\ JobInv' /\ ActiveInv' /\ GateHeldWhileBusy'
    BY DEF WorkerInv, OneWorker, Live, JobInv, ActiveInv, GateHeldWhileBusy, Busy
  <2> QED
    BY <2>1, <2>2
<1>4. CASE Stop
  <2> USE <1>4 DEF Stop
  <2>1. TypeOK'
    BY EmptySeq DEF TypeOK, Notified, CancelPendingFutures
  <2>2. WorkerInv'
    BY <1>0 DEF WorkerInv, OneWorker, Live, Notified, TypeOK
  <2>3. JobInv' /\ ActiveInv' /\ GateHeldWhileBusy'
    BY DEF JobInv, ActiveInv, GateHeldWhileBusy, Busy, Notified, TypeOK
  <2> QED
    BY <2>1, <2>2, <2>3
<1>5. CASE StopReturns
  <2> USE <1>5 DEF StopReturns
  <2>1. TypeOK'
    BY EmptySeq DEF TypeOK, CancelPendingFutures
  <2>2. WorkerInv'
    BY <1>0 DEF WorkerInv, OneWorker, Live, TypeOK
  <2>3. JobInv' /\ ActiveInv' /\ GateHeldWhileBusy'
    BY DEF JobInv, ActiveInv, GateHeldWhileBusy, Busy, WorkerInv
  <2> QED
    BY <2>1, <2>2, <2>3
<1>6. ASSUME NEW w \in Workers, Run(w) PROVE IInv'
  <2> USE <1>6 DEF Run
  <2>1. Live(w) /\ ~Busy(w)
    BY DEF Live, Busy
  <2>2. worker = w
    BY <2>1 DEF WorkerInv, OneWorker
  <2>3. \A v \in Workers : ~Busy(v)
    BY <2>1, <2>2 DEF WorkerInv, OneWorker, Live, Busy
  <2>4. active = 0
    BY <2>1, <2>2 DEF ActiveInv
  <2>5. /\ gate \in Seq(Users) /\ IsInjective(gate)
        /\ \A v \in Workers : ~InLine(gate, v)
        /\ \A v \in Workers : job[v] = None
    BY <2>3 DEF GateHeldWhileBusy, JobInv, TypeOK
  <2>6. /\ future' \in [Jobs -> {"none", "pending", "result", "error", "cancelled"}]
        /\ cache' \in {"clean", "dirty"}
    BY DEF TypeOK
  <2>7. /\ TakeNextJob(w, gate, 0)
        /\ UNCHANGED << worker, stopping, stopCall, cancelled >>
        /\ w \notin cancelled
    BY <2>4
  <2> QED
    BY <2>1, <2>3, <2>5, <2>6, <2>7, TakeNextJobKeepsIInv
<1>7. ASSUME NEW w \in Workers, EnterGate(w) PROVE IInv'
  <2> USE <1>7 DEF EnterGate
  <2>1. TypeOK'
    BY DEF TypeOK
  <2>2. WorkerInv' /\ JobInv' /\ ActiveInv' /\ GateHeldWhileBusy'
    BY DEF WorkerInv, OneWorker, Live, JobInv, ActiveInv, GateHeldWhileBusy, Busy, TypeOK
  <2> QED
    BY <2>1, <2>2
<1>8. ASSUME NEW w \in Workers, FinishJob(w) PROVE IInv'
  <2> USE <1>8 DEF FinishJob
  <2>1. Live(w) /\ Busy(w)
    BY DEF Live, Busy
  <2>2. worker = w
    BY <2>1 DEF WorkerInv, OneWorker
  <2>3. \A v \in Workers : v # w => ~Busy(v) /\ job[v] = None
    BY <2>2 DEF WorkerInv, OneWorker, Live, Busy, JobInv
  <2>4. active - 1 = 0
    BY <1>0, <2>1, <2>2 DEF ActiveInv
  <2>5. gate \in Seq(Users) /\ IsInjective(gate) /\ InLine(gate, w)
    BY <2>1 DEF GateHeldWhileBusy, TypeOK
  <2>6. /\ Leave(gate, w) \in Seq(Users) /\ IsInjective(Leave(gate, w))
        /\ \A v : InLine(Leave(gate, w), v) <=> (v # w /\ InLine(gate, v))
    BY <2>5, LeaveLemma
  <2>7. \A v \in Workers : ~InLine(Leave(gate, w), v)
    BY <2>3, <2>6 DEF GateHeldWhileBusy
  <2>8. /\ future' \in [Jobs -> {"none", "pending", "result", "error", "cancelled"}]
        /\ cache' \in {"clean", "dirty"}
    BY DEF TypeOK, Settled, TrimCacheIfIdle
  <2>9. /\ TakeNextJob(w, Leave(gate, w), 0)
        /\ UNCHANGED << worker, stopping, stopCall, cancelled >>
        /\ w \notin cancelled
    BY <2>4
  <2> QED
    BY <2>1, <2>3, <2>6, <2>7, <2>8, <2>9, TakeNextJobKeepsIInv
<1>9. ASSUME NEW w \in Workers, CancelIdleWorker(w) PROVE IInv'
  <2> USE <1>9 DEF CancelIdleWorker
  <2>1. TypeOK'
    BY DEF TypeOK
  <2>2. WorkerInv' /\ JobInv' /\ ActiveInv' /\ GateHeldWhileBusy'
    BY DEF WorkerInv, OneWorker, Live, JobInv, ActiveInv, GateHeldWhileBusy, Busy, TypeOK
  <2> QED
    BY <2>1, <2>2
<1>10. ASSUME NEW w \in Workers, CancelBusyWorker(w) PROVE IInv'
  <2> USE <1>10 DEF CancelBusyWorker
  <2>1. Live(w) /\ Busy(w) /\ worker = w
    BY DEF Live, Busy, WorkerInv, OneWorker
  <2>2. active' = 0
    BY <1>0, <2>1 DEF ActiveInv
  <2>3. gate \in Seq(Users) /\ IsInjective(gate) /\ InLine(gate, w)
    BY <2>1 DEF GateHeldWhileBusy, TypeOK
  <2>4. /\ gate' \in Seq(Users) /\ IsInjective(gate')
        /\ \A v : InLine(gate', v) <=> (v # w /\ InLine(gate, v))
    BY <2>3, LeaveLemma
  <2>5. TypeOK'
    <3>1. job[w] \in Jobs
      BY <2>1 DEF JobInv, TypeOK
    <3>2. /\ thread' \in [Jobs -> {"none", "queued", "running", "result", "error", "dropped"}]
          /\ cache' \in {"clean", "dirty"}
      BY <3>1 DEF TypeOK, TrimCacheIfIdle
    <3> QED
      BY <2>2, <2>4, <3>2 DEF TypeOK
  <2>6. WorkerInv'
    BY DEF WorkerInv, OneWorker, Live, TypeOK
  <2>7. ActiveInv'
    BY <2>1, <2>2 DEF ActiveInv, Busy, TypeOK
  <2>8. GateHeldWhileBusy'
    BY <2>4 DEF GateHeldWhileBusy, Busy, TypeOK
  <2>9. JobInv'
    <3>1. \A v \in Workers : v # w => pc'[v] # "call"
      BY <1>0, <2>1 DEF WorkerInv, OneWorker, Live, TypeOK
    <3> QED
      BY <3>1 DEF JobInv, Busy, TypeOK
  <2> QED
    BY <2>5, <2>6, <2>7, <2>8, <2>9
<1>11. ASSUME NEW j \in Jobs, ThreadStarts(j) PROVE IInv'
  <2> USE <1>11 DEF ThreadStarts
  <2>1. TypeOK'
    BY DEF TypeOK
  <2>2. WorkerInv' /\ JobInv' /\ ActiveInv' /\ GateHeldWhileBusy'
    BY DEF WorkerInv, OneWorker, Live, JobInv, ActiveInv, GateHeldWhileBusy, Busy
  <2> QED
    BY <2>1, <2>2
<1>12. ASSUME NEW j \in Jobs, NEW o \in {"result", "error"}, ThreadEnds(j, o) PROVE IInv'
  <2> USE <1>12 DEF ThreadEnds
  <2>1. TypeOK'
    BY DEF TypeOK
  <2>2. WorkerInv' /\ JobInv' /\ ActiveInv' /\ GateHeldWhileBusy'
    BY DEF WorkerInv, OneWorker, Live, JobInv, ActiveInv, GateHeldWhileBusy, Busy
  <2> QED
    BY <2>1, <2>2
<1>13. ASSUME NEW u \in Others, OtherAcquires(u) PROVE IInv'
  <2> USE <1>13 DEF OtherAcquires
  <2>1. u \in Users /\ u \notin Workers
    BY ConstantsAssumption DEF Users
  <2>2. gate \in Seq(Users) /\ IsInjective(gate) /\ ~InLine(gate, u)
    BY DEF GateHeldWhileBusy, TypeOK
  <2>3. /\ gate' \in Seq(Users) /\ IsInjective(gate')
        /\ \A v : InLine(gate', v) <=> (v = u \/ InLine(gate, v))
        /\ \A v : Holds(gate, v) => Holds(gate', v)
    BY <2>1, <2>2, AcquireLemma
  <2>4. TypeOK'
    BY <2>3 DEF TypeOK
  <2>5. WorkerInv' /\ JobInv' /\ ActiveInv' /\ GateHeldWhileBusy'
    BY <2>1, <2>3
       DEF WorkerInv, OneWorker, Live, JobInv, ActiveInv, GateHeldWhileBusy, Busy
  <2> QED
    BY <2>4, <2>5
<1>14. ASSUME NEW u \in Others, OtherLeaves(u) PROVE IInv'
  <2> USE <1>14 DEF OtherLeaves
  <2>1. u \in Users /\ u \notin Workers
    BY ConstantsAssumption DEF Users
  <2>2. gate \in Seq(Users) /\ IsInjective(gate) /\ InLine(gate, u)
    BY DEF GateHeldWhileBusy, TypeOK
  <2>3. /\ gate' \in Seq(Users) /\ IsInjective(gate')
        /\ \A v : v # u => (InLine(gate', v) <=> InLine(gate, v))
        /\ \A v : v # u /\ Holds(gate, v) => Holds(gate', v)
    BY <2>1, <2>2, RejoinLemma
  <2>4. TypeOK'
    BY <2>3 DEF TypeOK
  <2>5. WorkerInv' /\ JobInv' /\ ActiveInv' /\ GateHeldWhileBusy'
    BY <2>1, <2>3
       DEF WorkerInv, OneWorker, Live, JobInv, ActiveInv, GateHeldWhileBusy, Busy
  <2> QED
    BY <2>4, <2>5
<1>15. CASE UNCHANGED vars
  <2>1. TypeOK'
    BY <1>15 DEF TypeOK, vars
  <2>2. WorkerInv' /\ JobInv' /\ ActiveInv' /\ GateHeldWhileBusy'
    BY <1>15 DEF WorkerInv, OneWorker, Live, JobInv, ActiveInv, GateHeldWhileBusy, Busy, vars
  <2> QED
    BY <2>1, <2>2
<1> QED
  BY <1>1, <1>2, <1>3, <1>4, <1>5, <1>6, <1>7, <1>8, <1>9, <1>10, <1>11, <1>12, <1>13,
     <1>14, <1>15 DEF Next, QueueStep, Work, WorkerStep

\* IInv is an invariant: what the lifespan, the callers, the worker and its threads
\* rely on of each other (rerank_queue.py:27-116).
THEOREM Invariance == Spec => []IInv
<1>1. Init => IInv
  BY InitIInv
<1>2. IInv /\ [Next]_vars => IInv'
  BY NextKeepsIInv
<1> QED
  BY <1>1, <1>2, PTL DEF Spec

\* Every variable of the queue keeps its type.
THEOREM TypeCorrect == Spec => []TypeOK
<1>1. IInv => TypeOK
  BY DEF IInv
<1> QED
  BY <1>1, Invariance, PTL

\* However start(), stop() and rerank() overlap, _worker_task names the only
\* worker that runs (rerank_queue.py:27, :35-39).
THEOREM AtMostOneWorker == Spec => []OneWorker
<1>1. IInv => OneWorker
  BY DEF IInv, WorkerInv
<1> QED
  BY <1>1, Invariance, PTL

\* The worker leaves the gate by every path that ends its work on a job, the
\* cancellation while it waits in line included (rerank_queue.py:95).
THEOREM GateIsNeverLeaked == Spec => []GateHeldWhileBusy
<1>1. IInv => GateHeldWhileBusy
  BY DEF IInv
<1> QED
  BY <1>1, Invariance, PTL

\* The "active" of the stats counts the jobs in the hands of a worker
\* (rerank_queue.py:93, :111).
THEOREM ActiveCountsBusyWorkers == Spec => []ActiveIsExact
<1>1. ASSUME IInv PROVE ActiveIsExact
  <2> DEFINE B == {w \in Workers : Busy(w)}
  <2>1. \A w \in B : w = worker
    BY <1>1 DEF IInv, WorkerInv, OneWorker, Live, Busy
  <2>2. CASE worker # None /\ Busy(worker)
    <3>1. B = {worker}
      BY <1>1, <2>1, <2>2 DEF IInv, TypeOK
    <3>2. active = 1 /\ Cardinality(B) = 1
      BY <1>1, <2>2, <3>1, FS_Singleton DEF IInv, ActiveInv
    <3> QED
      BY <3>2 DEF ActiveIsExact
  <2>3. CASE ~(worker # None /\ Busy(worker))
    <3>1. B = {}
      BY <2>1, <2>3, ConstantsAssumption
    <3>2. active = 0 /\ Cardinality(B) = 0
      BY <1>1, <2>3, <3>1, FS_EmptySet DEF IInv, ActiveInv
    <3> QED
      BY <3>2 DEF ActiveIsExact
  <2> QED
    BY <2>2, <2>3
<1> QED
  BY <1>1, Invariance, PTL

\* All that a step of the queue does to the gate: one of its workers, which is not in
\* the line, joins it, or one that is leaves it, or leaves and joins it anew
\* (rerank_queue.py:95).
UsesGate ==
  \/ gate' = gate
  \/ \E w \in Workers : ~InLine(gate, w) /\ gate' = Acquire(gate, w)
  \/ \E w \in Workers : /\ InLine(gate, w)
                       /\ gate' \in {Leave(gate, w), Acquire(Leave(gate, w), w)}

\* So another queue sees the steps of this one as those of other users of the gate.
LEMMA QueueUsesGate == IInv /\ QueueStep => UsesGate
<1> SUFFICES ASSUME IInv, QueueStep PROVE UsesGate
  OBVIOUS
<1>1. ASSUME NEW w \in Workers
      PROVE  ~Busy(w) <=> ~InLine(gate, w)
  BY <1>1 DEF IInv, GateHeldWhileBusy
<1>2. ASSUME NEW w \in Workers, NEW atGate, NEW n, TakeNextJob(w, atGate, n)
      PROVE  gate' = atGate \/ gate' = Acquire(atGate, w)
  BY <1>2 DEF TakeNextJob
<1>3. ASSUME NEW w \in Workers, Run(w) PROVE UsesGate
  BY <1>1, <1>2, <1>3 DEF Run, Busy, UsesGate
<1>4. ASSUME NEW w \in Workers, FinishJob(w) PROVE UsesGate
  BY <1>1, <1>2, <1>4 DEF FinishJob, Busy, UsesGate
<1>5. ASSUME NEW w \in Workers, CancelBusyWorker(w) PROVE UsesGate
  BY <1>1, <1>5 DEF CancelBusyWorker, Busy, UsesGate
<1>6. CASE UNCHANGED gate
  BY <1>6 DEF UsesGate
<1> QED
  BY <1>3, <1>4, <1>5, <1>6
     DEF QueueStep, Work, WorkerStep, Start, Rerank, CallerCancelled, Stop, StopReturns,
         EnterGate, CancelIdleWorker, ThreadStarts, ThreadEnds

-----------------------------------------------------------------------------
(* The refinement of OrderedService *)

\* What the steps that close the service rely on: without a worker there is no
\* pending call; stop() has set _stopping before it awaits its worker; and when
\* shutdowns are graceful nobody waits while the queue is stopping.
CloseInv ==
  /\ worker = None => pending = << >>
  /\ stopCall = "awaiting" => stopping
  /\ Drained /\ stopping => \A j \in Jobs : future[j] # "pending"

RInv == IInv /\ CloseInv

\* Nothing waits at first.
LEMMA InitCloseInv == Init => CloseInv
BY DEF Init, CloseInv

\* Every action keeps CloseInv.
LEMMA NextKeepsCloseInv == RInv /\ [Next]_vars => CloseInv'
<1> SUFFICES ASSUME RInv, [Next]_vars PROVE CloseInv'
  OBVIOUS
<1> USE DEF RInv, IInv, CloseInv
<1>1. ASSUME NEW w \in Workers, Start(w) PROVE CloseInv'
  BY <1>1, ConstantsAssumption DEF Start, StartWorker, WorkerInv
<1>2. ASSUME NEW j \in Jobs, Rerank(j) PROVE CloseInv'
  <2>1. worker' # None /\ (stopping' => stopping)
    BY <1>2, ConstantsAssumption DEF Rerank, StartWorker
  <2>2. Drained => ~stopping'
    BY <1>2, <2>1 DEF Rerank
  <2>3. stopCall' = "awaiting" => stopping'
    <3>1. stopCall' = stopCall /\ (stopCall = "awaiting" => worker # None)
      BY <1>2 DEF Rerank, WorkerInv
    <3>2. worker # None => stopping' = stopping
      BY <1>2 DEF Rerank, StartWorker
    <3> QED
      BY <3>1, <3>2
  <2> QED
    BY <2>1, <2>2, <2>3
<1>3. ASSUME NEW j \in Jobs, CallerCancelled(j) PROVE CloseInv'
  BY <1>3 DEF CallerCancelled, TypeOK
<1>4. CASE Stop
  <2>1. Drained => \A j \in Jobs : future'[j] # "pending"
    BY <1>4 DEF Stop, CancelPendingFutures
  <2>2. worker' = None => pending' = << >>
    BY <1>4 DEF Stop, CancelPendingFutures
  <2>3. stopping'
    BY <1>4 DEF Stop
  <2> QED
    BY <2>1, <2>2, <2>3
<1>5. CASE StopReturns
  <2>1. Drained /\ stopping' => \A j \in Jobs : future'[j] # "pending"
    BY <1>5 DEF StopReturns, CancelPendingFutures
  <2> QED
    BY <1>5, <2>1 DEF StopReturns, CancelPendingFutures
<1>6. ASSUME NEW w \in Workers, Run(w) PROVE CloseInv'
  <2>1. worker = w /\ w # None
    BY <1>6, ConstantsAssumption DEF Run, WorkerInv, OneWorker, Live
  <2> QED
    BY <1>6, <2>1 DEF Run
<1>7. ASSUME NEW w \in Workers, FinishJob(w) PROVE CloseInv'
  <2>1. worker = w /\ w # None
    BY <1>7, ConstantsAssumption DEF FinishJob, WorkerInv, OneWorker, Live
  <2>2. ~stopping /\ ~stopping'
    BY <1>7 DEF FinishJob, TakeNextJob
  <2> QED
    BY <1>7, <2>1, <2>2 DEF FinishJob
<1>8. CASE UNCHANGED << future, pending, worker, stopping, stopCall >>
  BY <1>8
<1> QED
  BY <1>1, <1>2, <1>3, <1>4, <1>5, <1>6, <1>7, <1>8
     DEF Next, QueueStep, Work, WorkerStep, EnterGate, CancelIdleWorker, CancelBusyWorker,
         ThreadStarts, ThreadEnds, OtherAcquires, OtherLeaves, vars

\* IInv and CloseInv are invariants.
LEMMA ClosingInvariance == Spec => []RInv
<1>1. RInv /\ [Next]_vars => RInv'
  BY NextKeepsIInv, NextKeepsCloseInv DEF RInv
<1> QED
  BY <1>1, InitIInv, InitCloseInv, PTL DEF Spec, RInv

-----------------------------------------------------------------------------
(* The line, as the service sees it *)

\* The line while a job is in hand: its head and the rest.
LEMMA JobAndPending ==
  ASSUME NEW j \in Jobs, NEW s \in Seq(Jobs)
  PROVE  /\ << j >> \o s \in Seq(Jobs) /\ << j >> \o s # << >>
         /\ Head(<< j >> \o s) = j /\ Tail(<< j >> \o s) = s
<1>1. << j >> \in Seq(Jobs) /\ Len(<< j >>) = 1 /\ << j >>[1] = j
  OBVIOUS
<1>2. /\ << j >> \o s \in Seq(Jobs) /\ Len(<< j >> \o s) = 1 + Len(s)
      /\ \A i \in 1..1 + Len(s) : (<< j >> \o s)[i] = IF i <= 1 THEN << j >>[i] ELSE s[i - 1]
  BY <1>1, ConcatProperties
<1>3. Len(s) \in Nat
  BY LenProperties
<1>4. << j >> \o s # << >>
  BY <1>2, <1>3, EmptySeq
<1>5. Tail(<< j >> \o s) \in Seq(Jobs) /\ Len(Tail(<< j >> \o s)) = Len(s)
      /\ \A i \in 1..Len(s) : Tail(<< j >> \o s)[i] = (<< j >> \o s)[i + 1]
  BY <1>2, <1>3, <1>4, HeadTailProperties
<1>6. Tail(<< j >> \o s) = s
  <2>1. \A i \in 1..Len(s) : Tail(<< j >> \o s)[i] = s[i]
    BY <1>2, <1>3, <1>5
  <2> QED
    BY <1>5, <2>1, SeqEqual
<1> QED
  BY <1>1, <1>2, <1>3, <1>4, <1>6

\* A list that is not empty is its head in a worker's hands, and the rest.
LEMMA HeadAndRest ==
  ASSUME NEW s \in Seq(Jobs), s # << >>
  PROVE  << Head(s) >> \o Tail(s) = s
<1>1. /\ Head(s) \in Jobs /\ Tail(s) \in Seq(Jobs) /\ Len(Tail(s)) = Len(s) - 1
      /\ \A i \in 1..Len(Tail(s)) : Tail(s)[i] = s[i + 1]
  BY HeadTailProperties
<1>2. Len(s) \in Nat \ {0}
  BY EmptySeq
<1>3. /\ << Head(s) >> \o Tail(s) \in Seq(Jobs)
      /\ Len(<< Head(s) >> \o Tail(s)) = 1 + Len(Tail(s))
      /\ \A i \in 1..1 + Len(Tail(s)) :
            (<< Head(s) >> \o Tail(s))[i] = IF i <= 1 THEN << Head(s) >>[i] ELSE Tail(s)[i - 1]
  <2>1. << Head(s) >> \in Seq(Jobs) /\ Len(<< Head(s) >>) = 1
    BY <1>1
  <2> QED
    BY <1>1, <2>1, ConcatProperties
<1>4. \A i \in 1..Len(s) : (<< Head(s) >> \o Tail(s))[i] = s[i]
  BY <1>1, <1>2, <1>3
<1> QED
  BY <1>1, <1>2, <1>3, <1>4, SeqEqual

InHand == worker # None /\ job[worker] # None

\* What the line is, with a job in hand and without.
LEMMA LineIs ==
  ASSUME TypeOK
  PROVE  /\ InHand => Line = << job[worker] >> \o pending /\ job[worker] \in Jobs
         /\ ~InHand => Line = pending
BY ConcatEmptySeq DEF TypeOK, Line, InHand

\* The same after a step.
LEMMA LineIsNext ==
  ASSUME TypeOK'
  PROVE  /\ InHand' => Line' = << job[worker] >>' \o pending' /\ job[worker]' \in Jobs
         /\ ~InHand' => Line' = pending'
BY ConcatEmptySeq DEF TypeOK, Line, InHand
-----------------------------------------------------------------------------
(* The steps *)

\* A step that changes neither what the callers see, nor the line, nor whether the
\* queue is stopping.
Unseen == UNCHANGED << Line, future, stopping >>

\* A step of the service that answers, tells or keeps everybody in its line.
Serves == \/ Abstract!Open \/ Abstract!Close \/ Abstract!Flush
          \/ \E j \in Jobs : Abstract!Submit(j) \/ Abstract!Withdraw(j)
          \/ \E o \in {"result", "error"} : Abstract!Answer(o)

\* A step that drops the job in the hands of a cancelled worker.
Drops == Abstract!Abandon /\ \E w \in cancelled : job[w] = Head(Line) /\ job'[w] = None

\* Every step of the queue is a step of the service, or none; and only a cancelled
\* worker drops a call.
LEMMA StepServes == RInv /\ RInv' /\ [Next]_vars => Serves \/ Drops \/ Unseen
<1> SUFFICES ASSUME RInv, RInv', [Next]_vars PROVE Serves \/ Drops \/ Unseen
  OBVIOUS
<1> USE DEF RInv, IInv
<1>0. None \notin Workers /\ None \notin Jobs
  BY ConstantsAssumption
<1>1. ASSUME NEW w \in Workers, Start(w) PROVE Abstract!Open
  <2>1. ~InHand /\ ~InHand'
    BY <1>0, <1>1 DEF Start, StartWorker, InHand, JobInv, Busy
  <2>2. Line' = Line
    BY <1>1, <2>1, LineIs, LineIsNext DEF Start
  <2> QED
    BY <1>1, <2>2 DEF Start, StartWorker, Abstract!Open
<1>2. ASSUME NEW j \in Jobs, Rerank(j) PROVE Abstract!Submit(j)
  <2>1. (InHand' <=> InHand) /\ (InHand => job'[worker'] = job[worker])
    BY <1>0, <1>2 DEF Rerank, StartWorker, InHand, JobInv, Busy
  <2>2. pending \in Seq(Jobs) /\ pending' = Append(pending, j)
    BY <1>2 DEF Rerank, Appended, TypeOK
  <2>3. Line' = Append(Line, j)
    <3>1. CASE InHand
      <4>1. << job[worker] >> \in Seq(Jobs) /\ << j >> \in Seq(Jobs)
        BY <3>1, LineIs
      <4>2. /\ Line = << job[worker] >> \o pending /\ Line \in Seq(Jobs)
            /\ Line' = << job[worker] >> \o pending'
        BY <2>1, <2>2, <3>1, LineIs, LineIsNext, JobAndPending
      <4>3. pending' = pending \o << j >> /\ Append(Line, j) = Line \o << j >>
        BY <2>2, <4>2, AppendIsConcat
      <4> QED
        BY <2>2, <4>1, <4>2, <4>3, ConcatAssociative
    <3>2. CASE ~InHand
      BY <2>1, <2>2, <3>2, LineIs, LineIsNext
    <3> QED
      BY <3>1, <3>2
  <2>4. stopping' = stopping \/ stopping' = FALSE
    BY <1>2 DEF Rerank, StartWorker
  <2> QED
    BY <1>2, <2>3, <2>4 DEF Rerank, Abstract!Submit
<1>3. ASSUME NEW j \in Jobs, CallerCancelled(j) PROVE Abstract!Withdraw(j)
  BY <1>3 DEF CallerCancelled, Abstract!Withdraw, Line
<1>4. CASE Stop
  <2>1. Line' = Line
    BY <1>4 DEF Stop, CancelPendingFutures, CloseInv, Line
  <2>2. future' = future
    <3>1. CASE worker # None
      BY <1>4, <3>1 DEF Stop
    <3>2. CASE worker = None
      <4>1. pending = << >> /\ DOMAIN << >> = {}
        BY <3>2, EmptySeq, LenProperties DEF CloseInv
      <4>2. future' = [j \in Jobs |-> future[j]]
        BY <1>4, <3>2, <4>1 DEF Stop, CancelPendingFutures
      <4> QED
        BY <4>2 DEF TypeOK
    <3> QED
      BY <3>1, <3>2
  <2> QED
    BY <1>4, <2>1, <2>2 DEF Stop, Serves, Abstract!Close
<1>5. CASE StopReturns
  <2>1. worker \in Workers /\ stopping
    BY <1>5 DEF StopReturns, WorkerInv, CloseInv, TypeOK
  <2>2. ~InHand /\ ~InHand'
    BY <1>5, <2>1 DEF StopReturns, InHand, JobInv, Busy
  <2>3. Line = pending /\ Line' = << >>
    BY <1>5, <2>2, LineIs, LineIsNext DEF StopReturns, CancelPendingFutures
  <2>4. stopping' = stopping
    BY <1>5 DEF StopReturns
  <2> QED
    BY <1>5, <2>1, <2>3, <2>4
       DEF StopReturns, CancelPendingFutures, Serves, Abstract!Flush
<1>6. ASSUME NEW w \in Workers, NEW atGate, NEW n, TakeNextJob(w, atGate, n), worker = w,
             worker' = worker
      PROVE  Line' = pending
  <2>1. CASE pending = << >>
    <3>1. ~InHand'
      BY <1>6, <2>1 DEF TakeNextJob, InHand, TypeOK
    <3> QED
      BY <1>6, <2>1, <3>1, LineIsNext DEF TakeNextJob
  <2>2. CASE pending # << >>
    <3>1. /\ pending' = Tail(pending) /\ job'[w] = Head(pending)
          /\ Head(pending) \in Jobs
      BY <1>6, <2>2, HeadTailProperties DEF TakeNextJob, Popped, TypeOK
    <3>2. InHand'
      BY <1>0, <1>6, <3>1 DEF InHand
    <3>3. Line' = << Head(pending) >> \o Tail(pending)
      BY <1>6, <3>1, <3>2, LineIsNext
    <3> QED
      BY <2>2, <3>3, HeadAndRest DEF TypeOK
  <2> QED
    BY <2>1, <2>2
<1>7. ASSUME NEW w \in Workers, Run(w) PROVE Unseen
  <2>1. worker = w /\ ~InHand
    BY <1>7 DEF Run, WorkerInv, OneWorker, Live, JobInv, Busy, InHand
  <2>2. Line = pending /\ Line' = pending
    BY <1>6, <1>7, <2>1, LineIs DEF Run
  <2> QED
    BY <1>7, <2>2 DEF Run, Unseen
<1>8. ASSUME NEW w \in Workers, Live(w), Busy(w)
      PROVE  /\ worker = w /\ job[w] \in Jobs /\ Line # << >>
             /\ Head(Line) = job[w] /\ Tail(Line) = pending
  <2>1. worker = w /\ InHand
    BY <1>0, <1>8 DEF WorkerInv, OneWorker, JobInv, InHand
  <2>2. Line = << job[w] >> \o pending /\ job[w] \in Jobs /\ pending \in Seq(Jobs)
    BY <2>1, LineIs DEF TypeOK
  <2> QED
    BY <2>1, <2>2, JobAndPending
<1>9. ASSUME NEW w \in Workers, FinishJob(w) PROVE Serves
  <2>1. /\ worker = w /\ job[w] \in Jobs /\ Line # << >>
        /\ Head(Line) = job[w] /\ Tail(Line) = pending
    BY <1>8, <1>9 DEF FinishJob, Live, Busy
  <2>2. Line' = Tail(Line)
    BY <1>6, <1>9, <2>1 DEF FinishJob
  <2>3. future' = [future EXCEPT ![Head(Line)] = IF @ = "pending" THEN thread[job[w]] ELSE @]
    BY <1>9, <2>1 DEF FinishJob, Settled
  <2>4. stopping' = stopping
    BY <1>9 DEF FinishJob
  <2>5. Abstract!Answer(thread[job[w]])
    BY <2>1, <2>2, <2>3, <2>4 DEF Abstract!Answer, Abstract!Settle
  <2> QED
    BY <1>9, <2>5 DEF FinishJob, Serves
<1>10. ASSUME NEW w \in Workers, CancelBusyWorker(w) PROVE Drops
  <2>1. /\ worker = w /\ job[w] \in Jobs /\ Line # << >>
        /\ Head(Line) = job[w] /\ Tail(Line) = pending
    BY <1>8, <1>10 DEF CancelBusyWorker, Live, Busy
  <2>2. stopping /\ (Drained => future[Head(Line)] # "pending")
    BY <1>10, <2>1 DEF CancelBusyWorker, WorkerInv, CloseInv
  <2>3. ~InHand' /\ pending' = pending
    BY <1>10, <2>1 DEF CancelBusyWorker, InHand, TypeOK
  <2>4. Line' = Tail(Line)
    BY <2>1, <2>3, LineIsNext
  <2>5. job'[w] = None
    BY <1>10 DEF CancelBusyWorker, TypeOK
  <2> QED
    BY <1>10, <2>1, <2>2, <2>4, <2>5 DEF CancelBusyWorker, Abstract!Abandon, Drops
<1>11. CASE UNCHANGED << future, pending, worker, stopping, job >>
  BY <1>11 DEF Unseen, Line
<1> QED
  BY <1>1, <1>2, <1>3, <1>4, <1>5, <1>7, <1>9, <1>10, <1>11
     DEF Next, QueueStep, Work, WorkerStep, EnterGate, CancelIdleWorker, ThreadStarts,
         ThreadEnds, OtherAcquires, OtherLeaves, vars, Serves

\* So it implements the service.
LEMMA NextIsAbstract == RInv /\ RInv' /\ [Next]_vars => [Abstract!Next]_Abstract!vars
<1>1. Serves \/ Drops => Abstract!Next
  BY DEF Serves, Drops, Abstract!Next
<1>2. Unseen => UNCHANGED Abstract!vars
  BY DEF Unseen, Abstract!vars
<1> QED
  BY <1>1, <1>2, StepServes

\* The queue answers its calls in the order of their arrival, gives each one answer,
\* and drops a call only while it is being stopped (rerank_queue.py:31-43, :56-66,
\* :77-116).
THEOREM QueueIsOrderedService == Spec => ImplementsOrderedService
<1>1. Init => Abstract!Init
  BY ConstantsAssumption DEF Init, Abstract!Init, Line
<1>2. RInv /\ RInv' /\ [Next]_vars => [Abstract!Next]_Abstract!vars
  BY NextIsAbstract
<1> QED
  BY <1>1, <1>2, ClosingInvariance, PTL DEF Spec, ImplementsOrderedService, Abstract!Spec

-----------------------------------------------------------------------------
(* What follows from the promise of OrderedService *)

\* Where a call stands.
OnlyOnce == \A i, k \in DOMAIN Line : Line[i] = Line[k] => i = k

InTheLine(j) == \E i \in DOMAIN Line : Line[i] = j

LineInv ==
  /\ Line \in Seq(Jobs)
  /\ future \in [Jobs -> {"none", "pending", "result", "error", "cancelled"}]
  /\ OnlyOnce
  /\ \A i \in DOMAIN Line : future[Line[i]] # "none"
  /\ Drained => \A j \in Jobs : future[j] = "pending" => InTheLine(j)

\* The line is empty at first.
LEMMA InitLineInv == Abstract!Init => LineInv
<1> SUFFICES ASSUME Abstract!Init PROVE LineInv
  OBVIOUS
<1>1. << >> \in Seq(Jobs) /\ DOMAIN << >> = {}
  BY EmptySeq, LenProperties
<1> QED
  BY <1>1 DEF Abstract!Init, LineInv, OnlyOnce, InTheLine

\* The head of the line leaves.
LEMMA HeadLeaves ==
  ASSUME LineInv, Line # << >>, Line' = Tail(Line)
  PROVE  /\ Line' \in Seq(Jobs) /\ Head(Line) \in Jobs
         /\ OnlyOnce'
         /\ \A i \in DOMAIN Line' : \E k \in DOMAIN Line : Line'[i] = Line[k]
         /\ \A j \in Jobs : j # Head(Line) /\ InTheLine(j) => InTheLine(j)'
<1> USE DEF LineInv
<1>1. /\ Head(Line) \in Jobs /\ Line' \in Seq(Jobs)
      /\ Len(Line') = Len(Line) - 1
      /\ \A i \in 1..Len(Line') : Line'[i] = Line[i + 1]
  BY HeadTailProperties
<1>2. /\ DOMAIN Line = 1..Len(Line) /\ Len(Line) \in Nat
      /\ DOMAIN Line' = 1..Len(Line') /\ Len(Line') \in Nat
  BY <1>1, LenProperties
<1>3. Head(Line) = Line[1]
  OBVIOUS
<1>4. \A i \in DOMAIN Line' : i + 1 \in DOMAIN Line /\ Line'[i] = Line[i + 1]
  BY <1>1, <1>2
<1>5. OnlyOnce'
  BY <1>2, <1>4 DEF OnlyOnce
<1>6. ASSUME NEW j \in Jobs, j # Head(Line), InTheLine(j) PROVE InTheLine(j)'
  <2>1. PICK i \in DOMAIN Line : Line[i] = j
    BY <1>6 DEF InTheLine
  <2>2. i - 1 \in DOMAIN Line' /\ Line'[i - 1] = j
    BY <1>1, <1>2, <1>3, <1>6, <2>1
  <2> QED
    BY <2>2 DEF InTheLine
<1> QED
  BY <1>1, <1>4, <1>5, <1>6

\* Every step of the service keeps LineInv.
LEMMA NextKeepsLineInv == LineInv /\ [Abstract!Next]_Abstract!vars => LineInv'
<1> SUFFICES ASSUME LineInv, [Abstract!Next]_Abstract!vars PROVE LineInv'
  OBVIOUS
<1> USE DEF LineInv
<1>1. CASE Line' = Line /\ future' = future
  BY <1>1 DEF OnlyOnce, InTheLine
<1>2. ASSUME NEW j \in Jobs, Abstract!Submit(j) PROVE LineInv'
  <2> USE <1>2 DEF Abstract!Submit
  <2>1. /\ Line' \in Seq(Jobs) /\ Len(Line') = Len(Line) + 1
        /\ \A i \in 1..Len(Line) : Line'[i] = Line[i]
        /\ Line'[Len(Line) + 1] = j
    BY AppendProperties
  <2>2. /\ DOMAIN Line = 1..Len(Line) /\ Len(Line) \in Nat
        /\ DOMAIN Line' = 1..(Len(Line) + 1)
    BY <2>1, LenProperties
  <2>3. \A i \in DOMAIN Line' : i = Len(Line) + 1 \/ (i \in DOMAIN Line /\ Line'[i] = Line[i])
    BY <2>1, <2>2
  <2>4. \A i \in DOMAIN Line : Line[i] # j
    OBVIOUS
  <2>5. OnlyOnce'
    BY <2>1, <2>3, <2>4 DEF OnlyOnce
  <2>6. \A k \in Jobs : k = j \/ InTheLine(k) => InTheLine(k)'
    BY <2>1, <2>2 DEF InTheLine
  <2>7. /\ future' \in [Jobs -> {"none", "pending", "result", "error", "cancelled"}]
        /\ \A i \in DOMAIN Line' : future'[Line'[i]] # "none"
    <3>1. \A i \in DOMAIN Line : Line[i] \in Jobs
      BY <2>2, ElementOfSeq
    <3> QED
      BY <2>1, <2>3, <3>1
  <2>8. \A k \in Jobs : future'[k] = "pending" => k = j \/ future[k] = "pending"
    OBVIOUS
  <2> QED
    BY <2>1, <2>5, <2>6, <2>7, <2>8
<1>3. ASSUME NEW j \in Jobs, Abstract!Withdraw(j) PROVE LineInv'
  <2>1. \A i \in DOMAIN Line : Line[i] \in Jobs
    BY LenProperties, ElementOfSeq
  <2> QED
    BY <1>3, <2>1 DEF Abstract!Withdraw, OnlyOnce, InTheLine
<1>4. ASSUME NEW o \in {"result", "error"}, Abstract!Answer(o) PROVE LineInv'
  <2> USE <1>4 DEF Abstract!Answer, Abstract!Settle
  <2>1. /\ Line' \in Seq(Jobs) /\ Head(Line) \in Jobs
        /\ OnlyOnce'
        /\ \A i \in DOMAIN Line' : \E k \in DOMAIN Line : Line'[i] = Line[k]
        /\ \A j \in Jobs : j # Head(Line) /\ InTheLine(j) => InTheLine(j)'
    BY HeadLeaves
  <2>2. future' \in [Jobs -> {"none", "pending", "result", "error", "cancelled"}]
    OBVIOUS
  <2>3. \A j \in Jobs : /\ future[j] # "none" => future'[j] # "none"
                        /\ future'[j] = "pending" => j # Head(Line) /\ future[j] = "pending"
    BY <2>1
  <2>4. \A i \in DOMAIN Line : Line[i] \in Jobs
    BY LenProperties, ElementOfSeq
  <2> QED
    BY <2>1, <2>2, <2>3, <2>4
<1>5. CASE Abstract!Abandon
  <2> USE <1>5 DEF Abstract!Abandon
  <2>1. /\ Line' \in Seq(Jobs) /\ Head(Line) \in Jobs
        /\ OnlyOnce'
        /\ \A i \in DOMAIN Line' : \E k \in DOMAIN Line : Line'[i] = Line[k]
        /\ \A j \in Jobs : j # Head(Line) /\ InTheLine(j) => InTheLine(j)'
    BY HeadLeaves
  <2> QED
    BY <2>1
<1>6. CASE Abstract!Flush
  <2> USE <1>6 DEF Abstract!Flush
  <2>1. Line' \in Seq(Jobs) /\ DOMAIN Line' = {}
    BY EmptySeq, LenProperties
  <2>2. \A j \in Jobs : future'[j] = "pending" => future[j] = "pending" /\ ~InTheLine(j)
    BY DEF InTheLine
  <2>3. future' \in [Jobs -> {"none", "pending", "result", "error", "cancelled"}]
    OBVIOUS
  <2> QED
    BY <2>1, <2>2, <2>3 DEF OnlyOnce
<1>7. CASE Abstract!Open \/ Abstract!Close \/ UNCHANGED Abstract!vars
  BY <1>1, <1>7 DEF Abstract!Open, Abstract!Close, Abstract!vars
<1> QED
  BY <1>2, <1>3, <1>4, <1>5, <1>6, <1>7 DEF Abstract!Next

\* A call stands in the line once at most, and a service that closes only when
\* nobody waits has everybody who waits in its line.
THEOREM LineIsExact == Abstract!Spec => []LineInv
<1> QED
  BY InitLineInv, NextKeepsLineInv, PTL DEF Abstract!Spec

\* So the line of the queue is exact.
LEMMA LineInvariance == Spec => []LineInv
BY QueueIsOrderedService, LineIsExact, PTL DEF ImplementsOrderedService

\* A call has one place: in the list, or in the hands of the one busy worker.
LEMMA OnePlace ==
  ASSUME IInv, LineInv
  PROVE  /\ \A i, k \in DOMAIN pending : pending[i] = pending[k] => i = k
         /\ \A w \in Workers, i \in DOMAIN pending : Busy(w) => pending[i] # job[w]
         /\ \A w, v \in Workers : Busy(w) /\ Busy(v) => w = v
         /\ \A i \in DOMAIN pending : future[pending[i]] # "none"
         /\ \A w \in Workers : Busy(w) => future[job[w]] # "none"
<1> USE DEF IInv
<1>0. DOMAIN pending = 1..Len(pending) /\ Len(pending) \in Nat
  BY LenProperties DEF TypeOK
<1>1. \A w \in Workers : Busy(w) => worker = w
  BY DEF WorkerInv, OneWorker, Live, Busy
<1>2. CASE InHand
  <2>1. /\ Line = << job[worker] >> \o pending /\ job[worker] \in Jobs
        /\ << job[worker] >> \in Seq(Jobs) /\ Len(<< job[worker] >>) = 1
    BY <1>2, LineIs
  <2>2. /\ Len(Line) = 1 + Len(pending) /\ DOMAIN Line = 1..(1 + Len(pending))
        /\ Line[1] = job[worker]
        /\ \A i \in 1..Len(pending) : Line[1 + i] = pending[i]
    BY <1>0, <2>1, ConcatProperties, LenProperties DEF TypeOK
  <2>3. \A i \in DOMAIN pending : /\ 1 + i \in DOMAIN Line /\ 1 \in DOMAIN Line /\ 1 + i # 1
                                  /\ Line[1 + i] = pending[i]
    BY <1>0, <2>2
  <2> QED
    BY <1>0, <1>1, <2>2, <2>3 DEF LineInv, OnlyOnce
<1>3. CASE ~InHand
  <2>1. Line = pending /\ \A w \in Workers : ~Busy(w)
    BY <1>1, <1>3, LineIs, ConstantsAssumption DEF JobInv, InHand
  <2> QED
    BY <2>1 DEF LineInv, OnlyOnce
<1> QED
  BY <1>2, <1>3

\* Everybody in the line is still waited for ...
LineWaits == \A i \in DOMAIN Line : future[Line[i]] = "pending"

\* ... and stays so as long as no caller gives up (rerank_queue.py:56-66, :103-108).
LEMMA NextKeepsLineWaits ==
  ASSUME LineInv, LineWaits, [Abstract!Next]_Abstract!vars,
         \A j \in Jobs : future[j] = "pending" => future'[j] # "cancelled"
  PROVE  LineWaits'
<1> USE DEF LineInv, LineWaits
<1>0. DOMAIN Line = 1..Len(Line) /\ Len(Line) \in Nat /\ \A i \in DOMAIN Line : Line[i] \in Jobs
  BY LenProperties, ElementOfSeq
<1>1. ASSUME NEW j \in Jobs, Abstract!Submit(j) PROVE LineWaits'
  <2> USE <1>1 DEF Abstract!Submit
  <2>1. /\ DOMAIN Line' = 1..(Len(Line) + 1)
        /\ \A i \in 1..Len(Line) : Line'[i] = Line[i]
        /\ Line'[Len(Line) + 1] = j
    BY AppendProperties, LenProperties
  <2> QED
    BY <1>0, <2>1
<1>2. ASSUME NEW o \in {"result", "error"}, Abstract!Answer(o) PROVE LineWaits'
  <2> USE <1>2 DEF Abstract!Answer, Abstract!Settle
  <2>1. /\ DOMAIN Line' = 1..Len(Line') /\ Len(Line') = Len(Line) - 1
        /\ \A i \in 1..Len(Line') : Line'[i] = Line[i + 1]
    BY HeadTailProperties, LenProperties
  <2>2. \A i \in DOMAIN Line' : i + 1 \in DOMAIN Line /\ 1 \in DOMAIN Line /\ i + 1 # 1
    BY <1>0, <2>1
  <2>3. \A i \in DOMAIN Line' : Line'[i] = Line[i + 1] /\ Line[i + 1] # Head(Line)
    BY <2>1, <2>2 DEF OnlyOnce
  <2> QED
    BY <1>0, <2>2, <2>3
<1>3. CASE Abstract!Abandon
  <2> USE <1>3 DEF Abstract!Abandon
  <2>1. \A i \in DOMAIN Line' : \E k \in DOMAIN Line : Line'[i] = Line[k]
    BY HeadLeaves
  <2> QED
    BY <2>1
<1>4. CASE Abstract!Flush
  <2>1. DOMAIN Line' = {}
    BY <1>4, EmptySeq, LenProperties DEF Abstract!Flush
  <2> QED
    BY <2>1
<1>5. ASSUME NEW j \in Jobs, Abstract!Withdraw(j) PROVE FALSE
  BY <1>5 DEF Abstract!Withdraw
<1>6. CASE Abstract!Open \/ Abstract!Close \/ UNCHANGED Abstract!vars
  BY <1>6 DEF Abstract!Open, Abstract!Close, Abstract!vars
<1> QED
  BY <1>1, <1>2, <1>3, <1>4, <1>5, <1>6 DEF Abstract!Next

\* No call is worked on twice, or while it is also queued (rerank_queue.py:64, :90).
THEOREM NoJobTwice == Spec => []JobHasOnePlace
<1>1. LineInv => JobHasOnePlace
  BY DEF LineInv, OnlyOnce, JobHasOnePlace, IsInjective
<1> QED
  BY <1>1, LineInvariance, PTL

\* With graceful shutdowns whoever waits for an answer stands in the line
\* (rerank_queue.py:92-109).
THEOREM NobodyIsForgotten ==
  ASSUME Drained
  PROVE  Spec => []NoCallerForgotten
<1>1. LineInv => NoCallerForgotten
  BY DEF LineInv, InTheLine, NoCallerForgotten, Forgotten
<1> QED
  BY <1>1, LineInvariance, PTL
\* However stop() cuts in, and whatever calls arrive and restart the queue, a caller
\* is left without an answer only when a cancelled worker drops his job
\* (rerank_queue.py:40-43, :84-111).
THEOREM OnlyTheJobInHandIsForgotten == Spec => ForgetsOnlyTheJobInHand
<1> DEFINE Forgets == \A j \in Jobs : Forgotten(j)' /\ ~Forgotten(j)
                                     => \E w \in cancelled : job[w] = j /\ job'[w] = None
<1>1. ASSUME RInv, RInv', LineInv, LineInv', [Next]_vars PROVE Forgets
  <2>0. /\ Line \in Seq(Jobs)
        /\ \A j : Forgotten(j) <=> future[j] = "pending" /\ ~InTheLine(j)
        /\ \A j : Forgotten(j)' <=> future'[j] = "pending" /\ ~InTheLine(j)'
    BY <1>1 DEF LineInv, Forgotten, InTheLine
  <2>1. CASE Drops
    <3>1. \A j \in Jobs : j # Head(Line) /\ InTheLine(j) => InTheLine(j)'
      BY <1>1, <2>1, HeadLeaves DEF Drops, Abstract!Abandon
    <3>2. future' = future
      BY <2>1 DEF Drops, Abstract!Abandon
    <3> QED
      BY <2>0, <2>1, <3>1, <3>2 DEF Drops
  <2>2. ASSUME NEW o \in {"result", "error"}, Abstract!Answer(o) PROVE Forgets
    <3>1. \A j \in Jobs : j # Head(Line) /\ InTheLine(j) => InTheLine(j)'
      BY <1>1, <2>2, HeadLeaves DEF Abstract!Answer
    <3>2. \A j \in Jobs : future'[j] = "pending" => future[j] = "pending" /\ j # Head(Line)
      BY <1>1, <2>2, HeadLeaves DEF Abstract!Answer, Abstract!Settle, LineInv
    <3> QED
      BY <2>0, <3>1, <3>2
  <2>3. CASE Abstract!Flush
    <3>1. \A j \in Jobs : future'[j] = "pending" => future[j] = "pending" /\ ~InTheLine(j)
      BY <2>3 DEF Abstract!Flush, InTheLine
    <3> QED
      BY <2>0, <3>1
  <2>4. ASSUME NEW i \in Jobs, Abstract!Submit(i) PROVE Forgets
    <3>1. /\ DOMAIN Line = 1..Len(Line) /\ Len(Line) \in Nat
          /\ DOMAIN Line' = 1..(Len(Line) + 1)
          /\ \A k \in 1..Len(Line) : Line'[k] = Line[k]
          /\ Line'[Len(Line) + 1] = i
      BY <2>0, <2>4, AppendProperties, LenProperties DEF Abstract!Submit
    <3>2. \A j \in Jobs : j = i \/ InTheLine(j) => InTheLine(j)'
      BY <3>1 DEF InTheLine
    <3>3. \A j \in Jobs : future'[j] = "pending" => j = i \/ future[j] = "pending"
      BY <1>1, <2>4 DEF Abstract!Submit, LineInv
    <3> QED
      BY <2>0, <3>2, <3>3
  <2>5. ASSUME NEW i \in Jobs, Abstract!Withdraw(i) PROVE Forgets
    <3>1. /\ \A j \in Jobs : future'[j] = "pending" => future[j] = "pending"
          /\ Line' = Line
      BY <1>1, <2>5 DEF Abstract!Withdraw, LineInv
    <3> QED
      BY <2>0, <3>1 DEF InTheLine
  <2>6. CASE Abstract!Open \/ Abstract!Close \/ Unseen
    <3>1. future' = future /\ Line' = Line
      BY <2>6 DEF Abstract!Open, Abstract!Close, Unseen
    <3> QED
      BY <2>0, <3>1 DEF InTheLine
  <2> QED
    BY <1>1, <2>1, <2>2, <2>3, <2>4, <2>5, <2>6, StepServes DEF Serves
<1>2. RInv /\ RInv' /\ LineInv /\ LineInv' /\ [Next]_vars => [Forgets]_vars
  BY <1>1
<1> QED
  BY <1>2, ClosingInvariance, LineInvariance, PTL DEF Spec, ForgetsOnlyTheJobInHand
=============================================================================
