--------------------------- MODULE ChatQueueProofs ---------------------------
(***************************************************************************)
(* Proofs about ChatQueue, for any calls, streams and workers.             *)
(*                                                                         *)
(* Its worker is that of RerankQueue, so ChatQueue is shown to implement   *)
(* RerankQueue: a stream is a call whose caller gives it up as soon as the *)
(* model has something for it, or the client leaves.  What the streams do  *)
(* besides is in StreamInv.  Neither half is inductive without the other:  *)
(* that stop() never tells a stream that its thread feeds rests on the     *)
(* order of the line, and that the answer of a stream is never awaited, on *)
(* what its thread has done.                                               *)
(***************************************************************************)
EXTENDS ChatQueue, SequenceTheorems, FiniteSetTheorems, TLAPS

\* A stream for which there is nothing yet waits for the queue.
Unserved(s) == /\ reader[s] \in {"opened", "reading"}
               /\ generated[s] = 0 /\ posted[s] = "nothing" /\ stream_queue[s] = << >>

Awaited == [j \in Chats |-> IF j \in Completes THEN future[j]
                            ELSE IF reader[j] = "none" THEN "none"
                            ELSE IF Unserved(j) THEN "pending" ELSE "cancelled"]

RQ == INSTANCE RerankQueueProofs WITH
        Jobs <- Chats, future <- Awaited, cache <- "clean", ClearAfterInference <- TRUE

-----------------------------------------------------------------------------
(* The streams *)

\* The list of a stream holds an end, or an error.
Ended(s) == \E i \in DOMAIN stream_queue[s] : stream_queue[s][i].type = "done"
Failed(s) == \E i \in DOMAIN stream_queue[s] : stream_queue[s][i].type = "error"

\* A stream waits for its thread.
Queued(s) == \/ \E i \in DOMAIN pending : pending[i] = s
             \/ \E w \in Workers : pc[w] = "gate" /\ job[w] = s

Untouched(s) == stream_queue[s] = << >> /\ reader[s] # "none"

\* Nobody touches a stream before its thread does.
FreshInv(s) == /\ Queued(s) => thread[s] = "none" /\ Untouched(s)
               /\ thread[s] = "queued" => Untouched(s)

\* What the thread of a stream has done so far, and what nobody else has.
ThreadInv(s) ==
  LET q == stream_queue[s] IN
  /\ reader[s] = "none" => thread[s] = "none" /\ q = << >>
  /\ thread[s] \notin {"running", "result"} =>
       /\ generated[s] = 0 /\ posted[s] = "nothing"
       /\ q # << >> => q[Len(q)].type = "done"
  /\ thread[s] # "error"
  /\ thread[s] = "result" => posted[s] = "done"
  /\ thread[s] = "running" => ~Ended(s)
  /\ thread[s] = "running" /\ Failed(s) => posted[s] = "done"
  /\ posted[s] = "content" => generated[s] > 0
  /\ \A i \in DOMAIN q : /\ q[i].type = "content" => generated[s] > 0
                         /\ q[i].type = "done" => i = Len(q)

Numbers(n) == [i \in 1..n |-> i]

\* What the client has read and finds to read are the chunks of the model, in order.
ClientInv(s) ==
  LET q == stream_queue[s]
      n == Len(received[s])
  IN
  /\ reader[s] = "none" => received[s] = << >>
  /\ reader[s] \in {"none", "opened", "reading"} =>
       /\ received[s] = Numbers(n)
       /\ \A i \in DOMAIN q : q[i].type = "content" => q[i].n = n + i
       /\ ~Failed(s) /\ ~Ended(s) =>
            n + Len(q) = IF posted[s] = "content" THEN generated[s] - 1 ELSE generated[s]
       /\ ~Failed(s) /\ Ended(s) => thread[s] = "result" /\ n + Len(q) = generated[s] + 1
       /\ thread[s] = "result" => Failed(s) \/ Ended(s)
  /\ reader[s] = "ended" => /\ q = << >> /\ thread[s] = "result"
                            /\ received[s] = Numbers(generated[s])
  /\ abandoned[s] => reader[s] = "left"

StreamTypes ==
  /\ future \in [Chats -> {"none", "pending", "result", "error", "cancelled"}]
  /\ \A s \in Streams : future[s] = "none"
  /\ reader \in [Streams -> {"none", "opened", "reading", "ended", "failed", "left"}]
  /\ stream_queue \in [Streams -> Seq(Items)]
  /\ received \in [Streams -> Seq(1..MaxChunks)]
  /\ abandoned \in [Streams -> BOOLEAN]
  /\ generated \in [Streams -> 0..MaxChunks]
  /\ posted \in [Streams -> {"nothing", "content", "error", "done"}]

StreamInv == \A s \in Streams : FreshInv(s) /\ ThreadInv(s) /\ ClientInv(s)

LineInv == RQ!RInv /\ RQ!LineInv

Inv == StreamTypes /\ StreamInv /\ LineInv

-----------------------------------------------------------------------------
(* ChatQueue implements RerankQueue *)

\* The constants are what RerankQueue assumes.
LEMMA QueueAssumptions == RQ!ConstantsAssumption
BY ChatAssumption DEF RQ!ConstantsAssumption, Chats, IsFiniteSet, RQ!IsFiniteSet

\* What the queue waits for, call by call.
LEMMA AwaitedIs ==
  /\ \A c \in Completes : c \in Chats /\ Awaited[c] = future[c]
  /\ \A s \in Streams :
       /\ s \in Chats /\ s \notin Completes
       /\ Awaited[s] = IF reader[s] = "none" THEN "none"
                       ELSE IF Unserved(s) THEN "pending" ELSE "cancelled"
  /\ DOMAIN Awaited = Chats
BY ChatAssumption DEF Awaited, Chats

\* It changes with the future of a call, or with what there is for a stream.
LEMMA AwaitedStays ==
  ASSUME StreamTypes, StreamTypes',
         \A c \in Completes : future'[c] = future[c],
         \A s \in Streams : /\ (reader'[s] = "none") <=> (reader[s] = "none")
                            /\ Unserved(s)' <=> Unserved(s)
  PROVE  Awaited' = Awaited
BY DEF Awaited, Chats

\* A call changes alone.
LEMMA AwaitedBecomes ==
  ASSUME NEW j \in Chats, NEW x, Awaited'[j] = x,
         \A k \in Chats \ {j} : Awaited'[k] = Awaited[k]
  PROVE  Awaited' = [Awaited EXCEPT ![j] = x]
BY DEF Awaited

\* An item is put, or taken.
LEMMA PutLemma ==
  ASSUME NEW q \in Seq(Items), NEW x \in Items
  PROVE  /\ Append(q, x) \in Seq(Items) /\ Append(q, x) # << >>
         /\ Len(Append(q, x)) = Len(q) + 1 /\ Len(q) \in Nat
         /\ DOMAIN q = 1..Len(q) /\ DOMAIN Append(q, x) = 1..(Len(q) + 1)
         /\ \A i \in 1..Len(q) : Append(q, x)[i] = q[i]
         /\ Append(q, x)[Len(q) + 1] = x
BY AppendProperties, LenProperties

\* What Head and Tail do to a queue of items.
LEMMA TakeLemma ==
  ASSUME NEW q \in Seq(Items), q # << >>
  PROVE  /\ Head(q) \in Items /\ Head(q) = q[1] /\ Tail(q) \in Seq(Items)
         /\ Len(Tail(q)) = Len(q) - 1 /\ Len(q) \in Nat \ {0}
         /\ DOMAIN q = 1..Len(q) /\ DOMAIN Tail(q) = 1..(Len(q) - 1)
         /\ \A i \in 1..(Len(q) - 1) : Tail(q)[i] = q[i + 1]
<1>1. Len(q) \in Nat \ {0}
  BY EmptySeq
<1> QED
  BY <1>1, HeadTailProperties, LenProperties

\* The two last items of a stream that stop() tells.
LEMMA ToldLemma ==
  ASSUME NEW q \in Seq(Items)
  PROVE  q \o << Error, Done >> \in Seq(Items) /\ q \o << Error, Done >> # << >>
<1>1. << Error, Done >> \in Seq(Items) /\ Len(<< Error, Done >>) = 2
  BY DEF Items
<1>2. q \o << Error, Done >> \in Seq(Items) /\ Len(q \o << Error, Done >>) = Len(q) + 2
  BY <1>1, ConcatProperties
<1>3. Len(q) \in Nat
  BY LenProperties
<1> QED
  BY <1>2, <1>3, EmptySeq

\* Every step keeps the types of the streams.
LEMMA NextKeepsStreamTypes == Inv /\ [Next]_vars => StreamTypes'
<1> SUFFICES ASSUME Inv, [Next]_vars PROVE StreamTypes'
  OBVIOUS
<1> USE DEF Inv, StreamTypes
<1>0. MaxChunks \in Nat /\ Completes \cap Streams = {}
  BY ChatAssumption
<1>1. ASSUME NEW c \in Completes, Complete(c) PROVE StreamTypes'
  BY <1>0, <1>1 DEF Complete, streamVars, Chats
<1>2. ASSUME NEW s \in Streams, OpenStream(s) PROVE StreamTypes'
  BY <1>2 DEF OpenStream
<1>3. ASSUME NEW c \in Completes, CallerCancelled(c) PROVE StreamTypes'
  BY <1>0, <1>3 DEF CallerCancelled, Q!CallerCancelled, streamVars, Chats
<1>4. Told \in [Streams -> Seq(Items)]
  BY ToldLemma DEF Told
<1>5. ASSUME Q!CancelPendingFutures
      PROVE  /\ future' \in [Chats -> {"none", "pending", "result", "error", "cancelled"}]
             /\ \A s \in Streams : future'[s] = "none"
  BY <1>5 DEF Q!CancelPendingFutures, Chats
<1>6. CASE Stop
  BY <1>4, <1>5, <1>6 DEF Stop, Q!Stop
<1>7. CASE StopReturns
  BY <1>4, <1>5, <1>7 DEF StopReturns, Q!StopReturns
<1>8. ASSUME NEW s \in Streams, FirstNext(s) \/ Leave(s) PROVE StreamTypes'
  BY <1>8 DEF FirstNext, Leave, queueVars
<1>9. ASSUME NEW s \in Streams, Read(s) PROVE StreamTypes'
  <2>1. Head(stream_queue[s]) \in Items /\ Tail(stream_queue[s]) \in Seq(Items)
    BY <1>9, TakeLemma DEF Read
  <2>2. Head(stream_queue[s]).type = "content" => Head(stream_queue[s]).n \in 1..MaxChunks
    BY <2>1 DEF Items, Chunk, Error, Done
  <2>3. Head(stream_queue[s]).type = "content" =>
          Append(received[s], Head(stream_queue[s]).n) \in Seq(1..MaxChunks)
    BY <2>2, AppendProperties
  <2> QED
    BY <1>9, <2>1, <2>3 DEF Read, queueVars
<1>10. ASSUME NEW s \in Streams, Generate(s) PROVE StreamTypes'
  <2>1. generated' \in [Streams -> 0..MaxChunks]
    <3>1. generated[s] < MaxChunks => generated[s] + 1 \in 0..MaxChunks
      BY <1>0
    <3>2. \/ generated' = generated
          \/ generated[s] < MaxChunks /\ generated' = [generated EXCEPT ![s] = generated[s] + 1]
      BY <1>10 DEF Generate
    <3> QED
      BY <3>1, <3>2
  <2>2. posted' \in [Streams -> {"nothing", "content", "error", "done"}]
    BY <1>10 DEF Generate
  <2> QED
    BY <1>10, <2>1, <2>2 DEF Generate, queueVars
<1>11. ASSUME NEW s \in Streams, Put(s) PROVE StreamTypes'
  <2>1. posted[s] = "content" => generated[s] \in 1..MaxChunks
    BY <1>0 DEF StreamInv, ThreadInv
  <2>2. (IF posted[s] = "error" THEN Error ELSE Chunk(generated[s])) \in Items
    BY <1>11, <2>1 DEF Put, Items
  <2>3. stream_queue' \in [Streams -> Seq(Items)]
    BY <1>11, <2>2, PutLemma DEF Put
  <2>4. posted' \in [Streams -> {"nothing", "content", "error", "done"}]
    BY <1>11 DEF Put
  <2> QED
    BY <1>11, <2>3, <2>4 DEF Put, queueVars
<1>12. ASSUME NEW s \in Streams, PutDone(s) PROVE StreamTypes'
  <2>1. stream_queue' \in [Streams -> Seq(Items)]
    BY <1>12, PutLemma DEF PutDone, Items
  <2> QED
    BY <1>12, <2>1 DEF PutDone, Q!ThreadEnds
<1>13. ASSUME NEW w \in Workers, Q!FinishJob(w), UNCHANGED streamVars PROVE StreamTypes'
  <2>1. /\ future' = [future EXCEPT ![job[w]] = IF @ = "pending" THEN thread[job[w]] ELSE @]
        /\ thread[job[w]] \in {"result", "error"}
    BY <1>13 DEF Q!FinishJob, Q!Settled
  <2>2. /\ future' \in [Chats -> {"none", "pending", "result", "error", "cancelled"}]
        /\ \A s \in Streams : future'[s] = "none"
    BY <2>1 DEF Chats
  <2> QED
    BY <1>13, <2>2 DEF streamVars
<1>14. CASE UNCHANGED << future, streamVars >>
  BY <1>14 DEF streamVars
<1> QED
  BY <1>1, <1>2, <1>3, <1>6, <1>7, <1>8, <1>9, <1>10, <1>11, <1>12, <1>13, <1>14
     DEF Next, Start, Q!Start, WorkerStep, Q!WorkerStep, Q!Run, Q!EnterGate,
         Q!CancelIdleWorker, Q!CancelBusyWorker, ThreadStarts, Q!ThreadStarts, CompleteEnds,
         Q!ThreadEnds, StreamThreadStep, OtherAcquires, Q!OtherAcquires, OtherLeaves,
         Q!OtherLeaves, vars, queueVars

\* The gate's and the worker's operators mean the same in both.
LEMMA SameOperators ==
  /\ \A g, u : Q!Acquire(g, u) = RQ!Acquire(g, u)
  /\ \A g, u : Q!Leave(g, u) = RQ!Leave(g, u)
  /\ \A g : Q!Free(g) <=> RQ!Free(g)
  /\ \A g, u : Q!InLine(g, u) <=> RQ!InLine(g, u)
  /\ \A w : Q!StartWorker(w) <=> RQ!StartWorker(w)
  /\ Q!Notified = RQ!Notified
  /\ \A w, atGate, n : Q!TakeNextJob(w, atGate, n) <=> RQ!TakeNextJob(w, atGate, n)
<1>1. \A g, u : Q!Acquire(g, u) = RQ!Acquire(g, u)
  BY DEF Q!Acquire, RQ!Acquire
<1>2. \A g, u : Q!Leave(g, u) = RQ!Leave(g, u)
  BY DEF Q!Leave, RQ!Leave, Q!RemoveAt, RQ!RemoveAt
<1>3. \A g : Q!Free(g) <=> RQ!Free(g)
  BY DEF Q!Free, RQ!Free
<1>4. \A g, u : Q!InLine(g, u) <=> RQ!InLine(g, u)
  BY DEF Q!InLine, RQ!InLine
<1>5. \A w : Q!StartWorker(w) <=> RQ!StartWorker(w)
  BY DEF Q!StartWorker, RQ!StartWorker
<1>6. Q!Notified = RQ!Notified
  BY DEF Q!Notified, RQ!Notified
<1>7. \A w, atGate, n : Q!TakeNextJob(w, atGate, n) <=> RQ!TakeNextJob(w, atGate, n)
  BY <1>1, <1>3 DEF Q!TakeNextJob, RQ!TakeNextJob, Q!Popped, RQ!Popped
<1> QED
  BY <1>1, <1>2, <1>3, <1>4, <1>5, <1>6, <1>7

\* A stream that has a result, or has something put, is not waited for.
LEMMA ServedIsNotAwaited ==
  ASSUME Inv, NEW s \in Streams
  PROVE  /\ thread[s] = "result" \/ posted[s] # "nothing" => ~Unserved(s)
         /\ thread[s] \in {"running", "result"} => reader[s] # "none"
BY DEF Inv, StreamInv, ThreadInv, Unserved

\* The queue accepts a call, or a stream, as RerankQueue does.
LEMMA EnqueueIsRerank ==
  ASSUME NEW j \in Chats, Enqueue(j), Awaited[j] = "none",
         Awaited' = [Awaited EXCEPT ![j] = "pending"]
  PROVE  RQ!Rerank(j)
BY SameOperators DEF Enqueue, RQ!Rerank, Q!Appended, RQ!Appended

\* What stop() does to those that wait.
LEMMA TellingIsCancelling ==
  ASSUME Inv, StreamTypes', Q!CancelPendingFutures, stream_queue' = Told,
         UNCHANGED << reader, generated, posted >>
  PROVE  RQ!CancelPendingFutures
<1> USE DEF Inv, StreamTypes
<1>1. \A c \in Completes :
        Awaited'[c] = IF Awaited[c] = "pending" /\ \E i \in DOMAIN pending : pending[i] = c
                      THEN "cancelled" ELSE Awaited[c]
  BY AwaitedIs DEF Q!CancelPendingFutures, Awaited, Chats
<1>2. ASSUME NEW s \in Streams
      PROVE  Awaited'[s] = IF Awaited[s] = "pending" /\ \E i \in DOMAIN pending : pending[i] = s
                           THEN "cancelled" ELSE Awaited[s]
  <2>1. stream_queue'[s] = IF \E i \in DOMAIN pending : pending[i] = s
                           THEN stream_queue[s] \o << Error, Done >> ELSE stream_queue[s]
    BY DEF Told
  <2>2. /\ stream_queue[s] \o << Error, Done >> # << >>
        /\ (\E i \in DOMAIN pending : pending[i] = s) => reader[s] # "none"
    BY ToldLemma DEF StreamInv, FreshInv, Queued, Untouched
  <2>3. Unserved(s)' <=> Unserved(s) /\ ~(\E i \in DOMAIN pending : pending[i] = s)
    BY <2>1, <2>2 DEF Unserved
  <2>4. Awaited'[s] = IF reader'[s] = "none" THEN "none"
                      ELSE IF Unserved(s)' THEN "pending" ELSE "cancelled"
    BY ChatAssumption DEF Awaited, Chats
  <2> QED
    BY <2>2, <2>3, <2>4, AwaitedIs
<1>3. Awaited' = [j \in Chats |->
                    IF Awaited[j] = "pending" /\ \E i \in DOMAIN pending : pending[i] = j
                    THEN "cancelled" ELSE Awaited[j]]
  <2>1. Awaited' = [j \in Chats |-> Awaited'[j]]
    BY DEF Awaited
  <2> QED
    BY <1>1, <1>2, <2>1 DEF Chats
<1> QED
  BY <1>3 DEF Q!CancelPendingFutures, RQ!CancelPendingFutures

\* Each step of a stream is one of its caller's, or none, and each other step is the same
\* step of RerankQueue (chat_queue.py:129-221).
LEMMA StepsAreQueueSteps ==
  ASSUME Inv, StreamTypes', [Next]_vars
  PROVE  [RQ!Next]_RQ!vars
<1> USE DEF Inv
<1> DEFINE Rest == << pending, worker, active, stopping, stopCall, pc, cancelled, job, thread, gate >>
<1>0. (Awaited' = Awaited /\ UNCHANGED Rest) => UNCHANGED RQ!vars
  BY DEF RQ!vars
<1>1. ASSUME NEW c \in Completes, Complete(c) PROVE RQ!Next
  <2>1. future' = [future EXCEPT ![c] = "pending"] /\ future[c] = "none"
    BY <1>1 DEF Complete
  <2>2. \A s \in Streams : Unserved(s)' <=> Unserved(s)
    BY <1>1 DEF Complete, streamVars, Unserved
  <2>3. Awaited' = [Awaited EXCEPT ![c] = "pending"]
    <3>1. Awaited'[c] = "pending" /\ \A k \in Chats \ {c} : Awaited'[k] = Awaited[k]
      BY <1>1, <2>1, <2>2 DEF Complete, streamVars, Awaited, Chats, StreamTypes
    <3> QED
      BY <3>1, AwaitedBecomes, AwaitedIs
  <2>4. RQ!Rerank(c) /\ c \in Chats
    BY <1>1, <2>1, <2>3, AwaitedIs, EnqueueIsRerank DEF Complete
  <2> QED
    BY <2>4 DEF RQ!Next, RQ!QueueStep
<1>2. ASSUME NEW s \in Streams, OpenStream(s) PROVE RQ!Next
  <2>1. generated[s] = 0 /\ posted[s] = "nothing" /\ stream_queue[s] = << >>
    BY <1>2 DEF OpenStream, StreamInv, ThreadInv
  <2>2. Awaited' = [Awaited EXCEPT ![s] = "pending"]
    <3>1. Unserved(s)' /\ reader'[s] = "opened"
      BY <1>2, <2>1 DEF OpenStream, Unserved, StreamTypes
    <3>2. \A k \in Streams \ {s} : (Unserved(k)' <=> Unserved(k)) /\ reader'[k] = reader[k]
      BY <1>2 DEF OpenStream, Unserved, StreamTypes
    <3>3. Awaited'[s] = "pending" /\ \A k \in Chats \ {s} : Awaited'[k] = Awaited[k]
      BY <1>2, <3>1, <3>2, AwaitedIs DEF OpenStream, Awaited, Chats
    <3> QED
      BY <3>3, AwaitedBecomes, AwaitedIs
  <2>3. RQ!Rerank(s) /\ s \in Chats
    BY <1>2, <2>2, AwaitedIs, EnqueueIsRerank DEF OpenStream
  <2> QED
    BY <2>3 DEF RQ!Next, RQ!QueueStep
<1>3. ASSUME NEW c \in Completes, CallerCancelled(c) PROVE RQ!Next
  <2>1. future' = [future EXCEPT ![c] = "cancelled"] /\ future[c] = "pending"
    BY <1>3 DEF CallerCancelled, Q!CallerCancelled
  <2>2. \A s \in Streams : Unserved(s)' <=> Unserved(s)
    BY <1>3 DEF CallerCancelled, streamVars, Unserved
  <2>3. Awaited' = [Awaited EXCEPT ![c] = "cancelled"]
    <3>1. Awaited'[c] = "cancelled" /\ \A k \in Chats \ {c} : Awaited'[k] = Awaited[k]
      BY <1>3, <2>1, <2>2 DEF CallerCancelled, streamVars, Awaited, Chats, StreamTypes
    <3> QED
      BY <3>1, AwaitedBecomes, AwaitedIs
  <2>4. RQ!CallerCancelled(c) /\ c \in Chats
    BY <1>3, <2>1, <2>3, AwaitedIs DEF CallerCancelled, Q!CallerCancelled, RQ!CallerCancelled
  <2> QED
    BY <2>4 DEF RQ!Next, RQ!QueueStep
<1>4. CASE Stop
  <2>1. Drained => \A j \in Chats : Awaited[j] # "pending"
    BY <1>4 DEF Stop, Q!Stop, Awaited, Unserved, Chats
  <2>2. CASE worker = None
    <3>1. RQ!CancelPendingFutures
      BY <1>4, <2>2, TellingIsCancelling DEF Stop, Q!Stop
    <3> QED
      BY <1>4, <2>1, <2>2, <3>1, SameOperators
         DEF Stop, Q!Stop, RQ!Stop, RQ!Next, RQ!QueueStep
  <2>3. CASE worker # None
    <3>1. Awaited' = Awaited
      BY <1>4, <2>3, AwaitedStays DEF Stop, Q!Stop, Unserved
    <3> QED
      BY <1>4, <2>1, <2>3, <3>1, SameOperators
         DEF Stop, Q!Stop, RQ!Stop, RQ!Next, RQ!QueueStep
  <2> QED
    BY <2>2, <2>3
<1>5. CASE StopReturns
  <2>1. RQ!CancelPendingFutures
    BY <1>5, TellingIsCancelling DEF StopReturns, Q!StopReturns
  <2> QED
    BY <1>5, <2>1 DEF StopReturns, Q!StopReturns, RQ!StopReturns, RQ!Next, RQ!QueueStep
<1>6. ASSUME NEW s \in Streams, FirstNext(s) PROVE UNCHANGED RQ!vars
  <2>1. Awaited' = Awaited
    BY <1>6, AwaitedStays DEF FirstNext, queueVars, Unserved, StreamTypes
  <2> QED
    BY <1>0, <1>6, <2>1 DEF FirstNext, queueVars
<1>7. ASSUME NEW s \in Streams, Read(s) PROVE UNCHANGED RQ!vars
  <2>1. reader[s] = "reading" /\ reader'[s] # "none" /\ ~Unserved(s)
    BY <1>7 DEF Read, Unserved, StreamTypes
  <2>2. ~Unserved(s)'
    <3>1. /\ Head(stream_queue[s]) = stream_queue[s][1] /\ 1 \in DOMAIN stream_queue[s]
      BY <1>7, TakeLemma DEF Read, StreamTypes
    <3>2. Head(stream_queue[s]).type = "content" => generated'[s] # 0
      BY <1>7, <3>1 DEF Read, StreamInv, ThreadInv, StreamTypes
    <3>3. Head(stream_queue[s]).type # "content" => reader'[s] \in {"ended", "failed"}
      BY <1>7 DEF Read, StreamTypes
    <3> QED
      BY <3>2, <3>3 DEF Unserved
  <2>3. \A k \in Streams \ {s} : (Unserved(k)' <=> Unserved(k)) /\ reader'[k] = reader[k]
    BY <1>7 DEF Read, Unserved, StreamTypes
  <2>4. Awaited' = Awaited
    BY <1>7, <2>1, <2>2, <2>3, AwaitedStays DEF Read, queueVars
  <2> QED
    BY <1>0, <1>7, <2>4 DEF Read, queueVars
<1>8. ASSUME NEW s \in Streams, UNCHANGED Rest, future' = future,
             reader[s] # "none", reader'[s] # "none", ~Unserved(s)',
             \A k \in Streams \ {s} : (Unserved(k)' <=> Unserved(k)) /\ reader'[k] = reader[k]
      PROVE  RQ!CallerCancelled(s) \/ UNCHANGED RQ!vars
  <2>1. CASE Unserved(s)
    <3>1. Awaited[s] = "pending" /\ s \in Chats
      BY <1>8, <2>1, AwaitedIs
    <3>2. Awaited'[s] = "cancelled" /\ \A k \in Chats \ {s} : Awaited'[k] = Awaited[k]
      BY <1>8, AwaitedIs DEF Awaited, Chats
    <3>3. Awaited' = [Awaited EXCEPT ![s] = "cancelled"]
      BY <3>1, <3>2, AwaitedBecomes
    <3> QED
      BY <1>8, <3>1, <3>3 DEF RQ!CallerCancelled
  <2>2. CASE ~Unserved(s)
    BY <1>0, <1>8, <2>2, AwaitedStays
  <2> QED
    BY <2>1, <2>2
<1>9. ASSUME NEW s \in Streams, Leave(s) PROVE RQ!CallerCancelled(s) \/ UNCHANGED RQ!vars
  <2>1. reader[s] # "none" /\ reader'[s] # "none" /\ ~Unserved(s)'
    BY <1>9 DEF Leave, Unserved, StreamTypes
  <2>2. \A k \in Streams \ {s} : (Unserved(k)' <=> Unserved(k)) /\ reader'[k] = reader[k]
    BY <1>9 DEF Leave, Unserved, StreamTypes
  <2> QED
    BY <1>8, <1>9, <2>1, <2>2 DEF Leave, queueVars
<1>10. ASSUME NEW s \in Streams, Generate(s) PROVE RQ!CallerCancelled(s) \/ UNCHANGED RQ!vars
  <2>1. reader[s] # "none" /\ reader'[s] # "none" /\ ~Unserved(s)'
    BY <1>10, ServedIsNotAwaited DEF Generate, Unserved, StreamTypes
  <2>2. \A k \in Streams \ {s} : (Unserved(k)' <=> Unserved(k)) /\ reader'[k] = reader[k]
    BY <1>10 DEF Generate, Unserved, StreamTypes
  <2> QED
    BY <1>8, <1>10, <2>1, <2>2 DEF Generate, queueVars
<1>11. ASSUME NEW s \in Streams, Put(s) PROVE RQ!CallerCancelled(s) \/ UNCHANGED RQ!vars
  <2>1. stream_queue'[s] # << >>
    BY <1>11, PutLemma, ToldLemma DEF Put, StreamTypes
  <2>2. reader[s] # "none" /\ reader'[s] # "none" /\ ~Unserved(s)'
    BY <1>11, <2>1, ServedIsNotAwaited DEF Put, Unserved
  <2>3. \A k \in Streams \ {s} : (Unserved(k)' <=> Unserved(k)) /\ reader'[k] = reader[k]
    BY <1>11 DEF Put, Unserved, StreamTypes
  <2> QED
    BY <1>8, <1>11, <2>2, <2>3 DEF Put, queueVars
<1>12. ASSUME NEW s \in Streams, PutDone(s) PROVE RQ!Next
  <2>1. ~Unserved(s) /\ ~Unserved(s)'
    BY <1>12 DEF PutDone, Unserved
  <2>2. \A k \in Streams : k # s => (Unserved(k)' <=> Unserved(k))
    BY <1>12 DEF PutDone, Unserved, StreamTypes
  <2>3. Awaited' = Awaited
    BY <1>12, <2>1, <2>2, AwaitedStays DEF PutDone, Q!ThreadEnds
  <2>4. RQ!ThreadEnds(s, "result") /\ s \in Chats
    BY <1>12, <2>3, AwaitedIs DEF PutDone, Q!ThreadEnds, RQ!ThreadEnds
  <2> QED
    BY <2>4 DEF RQ!Next, RQ!QueueStep, RQ!Work
<1>13. ASSUME NEW w \in Workers, Q!FinishJob(w), UNCHANGED streamVars PROVE RQ!Next
  <2>1. /\ future' = [future EXCEPT ![job[w]] = IF @ = "pending" THEN thread[job[w]] ELSE @]
        /\ thread[job[w]] \in {"result", "error"}
    BY <1>13 DEF Q!FinishJob, Q!Settled
  <2>2. job[w] \in Chats
    BY <1>13 DEF Q!FinishJob, RQ!RInv, RQ!IInv, RQ!JobInv, RQ!Busy, RQ!TypeOK, LineInv
  <2>3. \A s \in Streams : Unserved(s)' <=> Unserved(s)
    BY <1>13 DEF streamVars, Unserved
  <2>4. job[w] \in Streams => Awaited[job[w]] # "pending"
    <3>1. job[w] \in Streams => thread[job[w]] = "result"
      BY <2>1 DEF StreamInv, ThreadInv
    <3> QED
      BY <3>1, ServedIsNotAwaited, AwaitedIs
  <2>5. \A k \in Chats : Awaited'[k] = IF k = job[w] /\ Awaited[k] = "pending"
                                       THEN thread[k] ELSE Awaited[k]
    <3>1. ASSUME NEW k \in Completes
          PROVE  Awaited'[k] = IF k = job[w] /\ Awaited[k] = "pending" THEN thread[k] ELSE Awaited[k]
      <4>1. Awaited'[k] = future'[k]
        BY ChatAssumption DEF Awaited, Chats
      <4> QED
        BY <2>1, <4>1, AwaitedIs DEF StreamTypes
    <3>2. ASSUME NEW k \in Streams PROVE Awaited'[k] = Awaited[k]
      BY <1>13, <2>3, AwaitedIs DEF Awaited, streamVars, Chats
    <3> QED
      BY <2>4, <3>1, <3>2 DEF Chats
  <2>6. Awaited' = RQ!Settled(job[w], thread[job[w]])
    <3>1. Awaited' = [Awaited EXCEPT ![job[w]] = Awaited'[job[w]]]
      BY <2>2, <2>5, AwaitedBecomes
    <3>2. Awaited'[job[w]] = IF Awaited[job[w]] = "pending" THEN thread[job[w]] ELSE Awaited[job[w]]
      BY <2>2, <2>5
    <3> QED
      BY <3>1, <3>2 DEF RQ!Settled
  <2>7. RQ!FinishJob(w)
    BY <1>13, <2>6, SameOperators DEF Q!FinishJob, RQ!FinishJob, RQ!TrimCacheIfIdle
  <2> QED
    BY <2>7 DEF RQ!Next, RQ!QueueStep, RQ!Work, RQ!WorkerStep
<1>14. ASSUME UNCHANGED streamVars, future' = future PROVE Awaited' = Awaited
  BY <1>14, AwaitedStays DEF streamVars, Unserved
<1>15. ASSUME NEW w \in Workers, Start(w) PROVE RQ!Next
  <2>1. Awaited' = Awaited
    BY <1>14, <1>15 DEF Start, Q!Start
  <2> QED
    BY <1>15, <2>1, SameOperators DEF Start, Q!Start, RQ!Start, RQ!Next, RQ!QueueStep
<1>16. ASSUME NEW w \in Workers, UNCHANGED streamVars,
              Q!Run(w) \/ Q!EnterGate(w) \/ Q!CancelIdleWorker(w) \/ Q!CancelBusyWorker(w)
       PROVE  RQ!Next
  <2>1. Awaited' = Awaited
    BY <1>14, <1>16 DEF Q!Run, Q!EnterGate, Q!CancelIdleWorker, Q!CancelBusyWorker
  <2>2. Q!Run(w) => RQ!Run(w)
    BY <2>1, SameOperators DEF Q!Run, RQ!Run
  <2>3. Q!EnterGate(w) => RQ!EnterGate(w)
    BY <2>1 DEF Q!EnterGate, RQ!EnterGate, Q!Holds, RQ!Holds
  <2>4. Q!CancelIdleWorker(w) => RQ!CancelIdleWorker(w)
    BY <2>1 DEF Q!CancelIdleWorker, RQ!CancelIdleWorker
  <2>5. Q!CancelBusyWorker(w) => RQ!CancelBusyWorker(w)
    BY <2>1, SameOperators DEF Q!CancelBusyWorker, RQ!CancelBusyWorker, RQ!TrimCacheIfIdle
  <2> QED
    BY <1>16, <2>2, <2>3, <2>4, <2>5 DEF RQ!Next, RQ!QueueStep, RQ!Work, RQ!WorkerStep
<1>17. ASSUME NEW j \in Chats, ThreadStarts(j) PROVE RQ!Next
  <2>1. Awaited' = Awaited
    BY <1>14, <1>17 DEF ThreadStarts, Q!ThreadStarts
  <2> QED
    BY <1>17, <2>1 DEF ThreadStarts, Q!ThreadStarts, RQ!ThreadStarts, RQ!Next, RQ!QueueStep, RQ!Work
<1>18. ASSUME NEW c \in Completes, CompleteEnds(c) PROVE RQ!Next
  <2>1. Awaited' = Awaited /\ c \in Chats
    BY <1>14, <1>18 DEF CompleteEnds, Q!ThreadEnds, Chats
  <2> QED
    BY <1>18, <2>1 DEF CompleteEnds, Q!ThreadEnds, RQ!ThreadEnds, RQ!Next, RQ!QueueStep, RQ!Work
<1>19. ASSUME NEW u \in Others, OtherAcquires(u) \/ OtherLeaves(u) PROVE RQ!Next
  <2>1. Awaited' = Awaited
    BY <1>14, <1>19 DEF OtherAcquires, Q!OtherAcquires, OtherLeaves, Q!OtherLeaves
  <2> QED
    BY <1>19, <2>1, SameOperators
       DEF OtherAcquires, Q!OtherAcquires, OtherLeaves, Q!OtherLeaves, RQ!OtherAcquires,
           RQ!OtherLeaves, RQ!Next
<1>20. CASE UNCHANGED vars
  <2>1. Awaited' = Awaited
    BY <1>14, <1>20 DEF vars, queueVars
  <2> QED
    BY <1>0, <1>20, <2>1 DEF vars, queueVars
<1>21. ASSUME NEW s \in Streams, RQ!CallerCancelled(s) PROVE RQ!Next
  BY <1>21, AwaitedIs DEF RQ!Next, RQ!QueueStep
<1> QED
  BY <1>1, <1>2, <1>3, <1>4, <1>5, <1>6, <1>7, <1>9, <1>10, <1>11, <1>12, <1>13, <1>15,
     <1>16, <1>17, <1>18, <1>19, <1>20, <1>21
     DEF Next, WorkerStep, Q!WorkerStep, StreamThreadStep

-----------------------------------------------------------------------------
(* The streams keep to StreamInv *)

Unmoved(s) == UNCHANGED << reader[s], stream_queue[s], received[s], abandoned[s],
                           generated[s], posted[s] >>

\* A step that is not about a stream.
LEMMA StreamStays ==
  ASSUME NEW s \in Streams, FreshInv(s), ThreadInv(s), ClientInv(s),
         Unmoved(s), Queued(s)' => Queued(s), thread'[s] = thread[s]
  PROVE  FreshInv(s)' /\ ThreadInv(s)' /\ ClientInv(s)'
<1>1. FreshInv(s)'
  BY DEF FreshInv, Unmoved, Untouched
<1>2. ThreadInv(s)'
  BY DEF ThreadInv, Unmoved, Ended, Failed
<1>3. ClientInv(s)'
  BY DEF ClientInv, Unmoved, Ended, Failed
<1> QED
  BY <1>1, <1>2, <1>3

\* A thread is asked for, taken up, or withdrawn, for a stream that nobody has touched.
LEMMA ThreadMoves ==
  ASSUME NEW s \in Streams, FreshInv(s), ThreadInv(s), ClientInv(s), StreamTypes,
         Unmoved(s), ~Queued(s)', Untouched(s),
         thread[s] \in {"none", "queued"}, thread'[s] \in {"queued", "running", "dropped"}
  PROVE  FreshInv(s)' /\ ThreadInv(s)' /\ ClientInv(s)'
<1>0. stream_queue[s] = << >> /\ stream_queue'[s] = << >> /\ DOMAIN << >> = {}
  BY EmptySeq, LenProperties DEF Unmoved, Untouched
<1>1. FreshInv(s)'
  BY DEF FreshInv, Unmoved, Untouched
<1>2. ThreadInv(s)'
  BY <1>0 DEF ThreadInv, Unmoved, Untouched, Ended, Failed
<1>3. ClientInv(s)'
  BY <1>0 DEF ClientInv, Unmoved, Ended, Failed
<1> QED
  BY <1>1, <1>2, <1>3

\* What is known of the queue.
LEMMA QueueFacts ==
  ASSUME Inv
  PROVE  /\ pending \in Seq(Chats) /\ pc \in [Workers ->
              {"unborn", "ready", "waiting", "notified", "gate", "call", "done"}]
         /\ job \in [Workers -> Chats \cup {None}]
         /\ thread \in [Chats -> {"none", "queued", "running", "result", "error", "dropped"}]
         /\ \A i, k \in DOMAIN pending : pending[i] = pending[k] => i = k
         /\ \A w \in Workers, i \in DOMAIN pending : pc[w] = "gate" => pending[i] # job[w]
         /\ \A w, v \in Workers : pc[w] = "gate" /\ pc[v] = "gate" => w = v
         /\ \A w \in Workers : pc[w] \in {"gate", "call"} => worker = w /\ job[w] \in Chats
         /\ None \notin Workers /\ None \notin Chats
         /\ DOMAIN pending = 1..Len(pending) /\ Len(pending) \in Nat
<1> USE DEF Inv, LineInv, RQ!RInv
<1>1. /\ pending \in Seq(Chats) /\ pc \in [Workers ->
              {"unborn", "ready", "waiting", "notified", "gate", "call", "done"}]
      /\ job \in [Workers -> Chats \cup {None}]
      /\ thread \in [Chats -> {"none", "queued", "running", "result", "error", "dropped"}]
  BY DEF RQ!IInv, RQ!TypeOK
<1>2. /\ \A i, k \in DOMAIN pending : pending[i] = pending[k] => i = k
      /\ \A w \in Workers, i \in DOMAIN pending : pc[w] = "gate" => pending[i] # job[w]
      /\ \A w, v \in Workers : pc[w] = "gate" /\ pc[v] = "gate" => w = v
  BY QueueAssumptions, RQ!OnePlace DEF RQ!Busy
<1>3. None \notin Workers /\ None \notin Chats
  BY ChatAssumption DEF Chats
<1>4. \A w \in Workers : pc[w] \in {"gate", "call"} => worker = w /\ job[w] \in Chats
  BY <1>1 DEF RQ!IInv, RQ!WorkerInv, RQ!OneWorker, RQ!Live, RQ!JobInv, RQ!Busy
<1> QED
  BY <1>1, <1>2, <1>3, <1>4, LenProperties

\* A worker goes round its loop.
LEMMA TakeNextJobKeepsStreams ==
  ASSUME Inv, NEW w \in Workers, NEW atGate, NEW n, Q!TakeNextJob(w, atGate, n),
         UNCHANGED streamVars
  PROVE  StreamInv'
<1> USE QueueFacts
<1>0. \A s \in Streams : Unmoved(s)
  BY DEF Unmoved, streamVars
<1>1. CASE pending = << >> /\ pc' = [pc EXCEPT ![w] = "waiting"]
           /\ job' = [job EXCEPT ![w] = None] /\ UNCHANGED << pending, thread >>
  <2>1. \A s \in Streams : Queued(s)' => Queued(s)
    BY <1>1 DEF Queued
  <2> QED
    BY <1>0, <1>1, <2>1, StreamStays DEF Inv, StreamInv
<1>2. CASE /\ pending # << >> /\ pending' = Tail(pending)
           /\ job' = [job EXCEPT ![w] = Head(pending)]
           /\ \/ /\ pc' = [pc EXCEPT ![w] = "call"]
                 /\ thread' = [thread EXCEPT ![Head(pending)] = "queued"]
              \/ /\ pc' = [pc EXCEPT ![w] = "gate"]
                 /\ UNCHANGED thread
  <2>1. /\ Head(pending) \in Chats /\ Head(pending) = pending[1] /\ 1 \in DOMAIN pending
        /\ DOMAIN pending' = 1..(Len(pending) - 1)
        /\ \A i \in 1..(Len(pending) - 1) : pending'[i] = pending[i + 1]
    <3>1. Len(pending) \in Nat \ {0}
      BY <1>2, EmptySeq
    <3> QED
      BY <1>2, <3>1, HeadTailProperties, LenProperties
  <2>2. \A i \in DOMAIN pending' : i + 1 \in DOMAIN pending /\ i + 1 # 1 /\ pending'[i] = pending[i + 1]
    BY <2>1
  <2>3. ASSUME NEW s \in Streams PROVE Queued(s)' => Queued(s)
    <3>1. ASSUME NEW i \in DOMAIN pending', pending'[i] = s PROVE Queued(s)
      BY <2>2, <3>1 DEF Queued
    <3>2. ASSUME NEW v \in Workers, pc'[v] = "gate", job'[v] = s PROVE Queued(s)
      BY <1>2, <2>1, <3>2 DEF Queued
    <3> QED
      BY <3>1, <3>2 DEF Queued
  <2>4. CASE UNCHANGED thread
    BY <1>0, <2>3, <2>4, StreamStays DEF Inv, StreamInv
  <2>5. CASE /\ pc' = [pc EXCEPT ![w] = "call"]
             /\ thread' = [thread EXCEPT ![Head(pending)] = "queued"]
    <3>1. ASSUME NEW s \in Streams, s # Head(pending)
          PROVE  FreshInv(s)' /\ ThreadInv(s)' /\ ClientInv(s)'
      <4>1. thread'[s] = thread[s]
        BY <2>5, <3>1 DEF Chats
      <4> QED
        BY <1>0, <2>3, <4>1, StreamStays DEF Inv, StreamInv
    <3>2. ASSUME NEW s \in Streams, s = Head(pending)
          PROVE  FreshInv(s)' /\ ThreadInv(s)' /\ ClientInv(s)'
      <4>1. Queued(s)
        BY <2>1, <3>2 DEF Queued
      <4>2. ~Queued(s)'
        <5>1. \A i \in DOMAIN pending' : pending'[i] # s
          BY <2>1, <2>2, <3>2
        <5>2. \A v \in Workers : ~(pc'[v] = "gate" /\ job'[v] = s)
          BY <1>2, <2>1, <2>5, <3>2
        <5> QED
          BY <5>1, <5>2 DEF Queued
      <4>3. thread[s] = "none" /\ Untouched(s) /\ thread'[s] = "queued"
        BY <2>1, <2>5, <3>2, <4>1 DEF Inv, StreamInv, FreshInv
      <4> QED
        BY <1>0, <4>2, <4>3, ThreadMoves DEF Inv, StreamInv
    <3> QED
      BY <3>1, <3>2 DEF StreamInv
  <2> QED
    BY <1>2, <2>4, <2>5
<1> QED
  BY <1>1, <1>2 DEF Q!TakeNextJob, Q!Popped

\* The thread of one job moves.
LEMMA JobMoves ==
  ASSUME Inv, UNCHANGED streamVars, NEW j \in Chats,
         \A s \in Streams : Queued(s)' => Queued(s),
         NEW t \in {"queued", "running", "dropped"},
         thread' = [thread EXCEPT ![j] = t],
         \/ thread[j] = "queued"
         \/ j \in Streams => Queued(j) /\ ~Queued(j)'
  PROVE  StreamInv'
<1>0. \A s \in Streams : Unmoved(s)
  BY DEF Unmoved, streamVars
<1>1. ASSUME NEW s \in Streams, s # j
      PROVE  FreshInv(s)' /\ ThreadInv(s)' /\ ClientInv(s)'
  <2>1. thread'[s] = thread[s]
    BY <1>1, QueueFacts DEF Chats
  <2> QED
    BY <1>0, <2>1, StreamStays DEF Inv, StreamInv
<1>2. ASSUME NEW s \in Streams, s = j
      PROVE  FreshInv(s)' /\ ThreadInv(s)' /\ ClientInv(s)'
  <2>1. thread[s] \in {"none", "queued"} /\ Untouched(s) /\ ~Queued(s)'
    BY <1>2 DEF Inv, StreamInv, FreshInv
  <2>2. thread'[s] \in {"queued", "running", "dropped"}
    BY <1>2, QueueFacts
  <2> QED
    BY <1>0, <2>1, <2>2, ThreadMoves DEF Inv, StreamInv
<1> QED
  BY <1>1, <1>2 DEF StreamInv

\* Nothing moves but the calls, the lifespan and the gate.
LEMMA OnlyOthersMove ==
  ASSUME Inv, UNCHANGED << streamVars, thread, job >>,
         \A s \in Streams, i \in DOMAIN pending' :
            pending'[i] = s => \E k \in DOMAIN pending : pending[k] = s,
         \A w \in Workers : pc'[w] = "gate" => pc[w] = "gate"
  PROVE  StreamInv'
<1>1. \A s \in Streams : Queued(s)' => Queued(s)
  BY DEF Queued
<1>2. \A s \in Streams : Unmoved(s)
  BY DEF Unmoved, streamVars
<1> QED
  BY <1>1, <1>2, StreamStays DEF Inv, StreamInv

\* The steps of the worker, of its thread, and of the calls of complete().
LEMMA WorkKeepsStreams ==
  ASSUME Inv, [Next]_vars,
         \/ \E w \in Workers : Start(w) \/ WorkerStep(w)
         \/ \E j \in Chats : ThreadStarts(j)
         \/ \E c \in Completes : Complete(c) \/ CallerCancelled(c) \/ CompleteEnds(c)
         \/ \E u \in Others : OtherAcquires(u) \/ OtherLeaves(u)
         \/ UNCHANGED vars
  PROVE  StreamInv'
<1> USE QueueFacts
<1>1. ASSUME NEW w \in Workers, Start(w) PROVE StreamInv'
  BY <1>1, OnlyOthersMove DEF Start, Q!Start, Q!StartWorker, streamVars
<1>2. ASSUME NEW w \in Workers, Q!Run(w) \/ Q!FinishJob(w), UNCHANGED streamVars PROVE StreamInv'
  BY <1>2, TakeNextJobKeepsStreams DEF Q!Run, Q!FinishJob
<1>3. ASSUME NEW w \in Workers, Q!EnterGate(w), UNCHANGED streamVars PROVE StreamInv'
  <2> USE <1>3 DEF Q!EnterGate
  <2>1. job[w] \in Chats /\ Queued(job[w])
    BY DEF Queued
  <2>2. \A s \in Streams : Queued(s)' => Queued(s)
    BY DEF Queued
  <2>3. ~Queued(job[w])'
    BY DEF Queued
  <2> QED
    BY <2>1, <2>2, <2>3, JobMoves
<1>4. ASSUME NEW w \in Workers, Q!CancelIdleWorker(w), UNCHANGED streamVars PROVE StreamInv'
  BY <1>4, OnlyOthersMove DEF Q!CancelIdleWorker, streamVars
<1>5. ASSUME NEW w \in Workers, Q!CancelBusyWorker(w), UNCHANGED streamVars PROVE StreamInv'
  <2> USE <1>5 DEF Q!CancelBusyWorker
  <2>1. \A s \in Streams : Queued(s)' => Queued(s)
    BY DEF Queued, Chats
  <2>2. job[w] \in Chats
    OBVIOUS
  <2>3. CASE thread[job[w]] = "queued"
    <3>1. thread' = [thread EXCEPT ![job[w]] = "dropped"]
      BY <2>3
    <3> QED
      BY <2>1, <2>2, <2>3, <3>1, JobMoves
  <2>4. CASE thread[job[w]] # "queued"
    <3>1. thread' = thread
      BY <2>4
    <3>2. \A s \in Streams : Unmoved(s)
      BY DEF Unmoved, streamVars
    <3> QED
      BY <2>1, <3>1, <3>2, StreamStays DEF Inv, StreamInv
  <2> QED
    BY <2>3, <2>4
<1>6. ASSUME NEW j \in Chats, ThreadStarts(j) PROVE StreamInv'
  <2>1. \A s \in Streams : Queued(s)' => Queued(s)
    BY <1>6 DEF ThreadStarts, Q!ThreadStarts, Queued
  <2> QED
    BY <1>6, <2>1, JobMoves DEF ThreadStarts, Q!ThreadStarts
<1>7. ASSUME NEW c \in Completes, Complete(c) PROVE StreamInv'
  <2>1. /\ pending' = Append(pending, c) /\ c \in Chats
        /\ \A s \in Streams : s # c
    BY <1>7, ChatAssumption DEF Complete, Enqueue, Q!Appended, Chats
  <2>2. /\ DOMAIN pending' = 1..(Len(pending) + 1)
        /\ \A i \in DOMAIN pending : pending'[i] = pending[i]
        /\ pending'[Len(pending) + 1] = c
    BY <2>1, AppendProperties, LenProperties
  <2>3. \A s \in Streams, i \in DOMAIN pending' :
           pending'[i] = s => \E k \in DOMAIN pending : pending[k] = s
    BY <2>1, <2>2
  <2>4. \A w \in Workers : pc'[w] = "gate" => pc[w] = "gate"
    BY <1>7 DEF Complete, Enqueue, Q!Notified, Q!StartWorker
  <2> QED
    BY <1>7, <2>3, <2>4, OnlyOthersMove DEF Complete, Enqueue, streamVars
<1>8. ASSUME NEW c \in Completes, CallerCancelled(c) PROVE StreamInv'
  BY <1>8, OnlyOthersMove DEF CallerCancelled, Q!CallerCancelled, streamVars
<1>9. ASSUME NEW c \in Completes, CompleteEnds(c) PROVE StreamInv'
  <2>1. \A s \in Streams : thread'[s] = thread[s] /\ (Queued(s)' => Queued(s))
    BY <1>9, ChatAssumption DEF CompleteEnds, Q!ThreadEnds, Queued, Chats
  <2>2. \A s \in Streams : Unmoved(s)
    BY <1>9 DEF CompleteEnds, Unmoved, streamVars
  <2> QED
    BY <2>1, <2>2, StreamStays DEF Inv, StreamInv
<1>10. ASSUME NEW u \in Others, OtherAcquires(u) \/ OtherLeaves(u) PROVE StreamInv'
  BY <1>10, OnlyOthersMove
     DEF OtherAcquires, Q!OtherAcquires, OtherLeaves, Q!OtherLeaves, streamVars
<1>11. CASE UNCHANGED vars
  BY <1>11, OnlyOthersMove DEF vars, queueVars, streamVars
<1> QED
  BY <1>1, <1>2, <1>3, <1>4, <1>5, <1>6, <1>7, <1>8, <1>9, <1>10, <1>11
     DEF WorkerStep, Q!WorkerStep

\* stop() tells the streams that wait, which nobody has touched.
LEMMA TellingKeepsStreams ==
  ASSUME Inv, StreamTypes', stream_queue' = Told, pending' = << >>,
         \A w \in Workers : pc'[w] # "gate",
         UNCHANGED << thread, reader, received, abandoned, generated, posted >>
  PROVE  StreamInv'
<1>0. \A s \in Streams : ~Queued(s)'
  BY EmptySeq, LenProperties DEF Queued
<1>1. ASSUME NEW s \in Streams, ~\E i \in DOMAIN pending : pending[i] = s
      PROVE  FreshInv(s)' /\ ThreadInv(s)' /\ ClientInv(s)'
  <2>1. Unmoved(s) /\ thread'[s] = thread[s]
    BY <1>1 DEF Unmoved, Told, Inv, StreamTypes
  <2> QED
    BY <1>0, <2>1, StreamStays DEF Inv, StreamInv
<1>2. ASSUME NEW s \in Streams, \E i \in DOMAIN pending : pending[i] = s
      PROVE  FreshInv(s)' /\ ThreadInv(s)' /\ ClientInv(s)'
  <2>1. thread'[s] = "none" /\ reader'[s] # "none" /\ stream_queue[s] = << >>
    BY <1>2 DEF Inv, StreamInv, FreshInv, Queued, Untouched
  <2>2. stream_queue'[s] = << Error, Done >>
    <3>1. << Error, Done >> \in Seq(Items)
      BY DEF Items
    <3> QED
      BY <1>2, <2>1, <3>1, ConcatEmptySeq DEF Told
  <2>3. /\ DOMAIN << Error, Done >> = 1..2 /\ Len(<< Error, Done >>) = 2
        /\ << Error, Done >>[1].type = "error" /\ << Error, Done >>[2].type = "done"
        /\ << Error, Done >> # << >>
    BY DEF Error, Done
  <2>4. Failed(s)' /\ Ended(s)'
    BY <2>2, <2>3 DEF Failed, Ended
  <2>5. FreshInv(s)'
    BY <1>0, <2>1 DEF FreshInv
  <2>6. ThreadInv(s)'
    BY <2>1, <2>2, <2>3 DEF ThreadInv, Inv, StreamInv
  <2>7. ClientInv(s)'
    <3>1. ClientInv(s) /\ reader'[s] = reader[s] /\ thread[s] = "none"
      BY <2>1 DEF Inv, StreamInv
    <3>2. reader'[s] # "ended" /\ (abandoned'[s] => reader'[s] = "left")
      BY <3>1 DEF ClientInv
    <3>3. received'[s] = received[s]
      OBVIOUS
    <3>4. reader[s] \in {"none", "opened", "reading"} => received'[s] = Numbers(Len(received'[s]))
      BY <3>1, <3>3 DEF ClientInv
    <3>5. \A i \in DOMAIN stream_queue'[s] : stream_queue'[s][i].type # "content"
      BY <2>2, <2>3
    <3> QED
      BY <2>1, <2>4, <3>1, <3>2, <3>4, <3>5 DEF ClientInv
  <2> QED
    BY <2>5, <2>6, <2>7
<1> QED
  BY <1>1, <1>2 DEF StreamInv

\* stop() waits for its worker first, so no worker is busy when it tells them.
LEMMA StopKeepsStreams == Inv /\ StreamTypes' /\ (Stop \/ StopReturns) => StreamInv'
<1> SUFFICES ASSUME Inv, StreamTypes', Stop \/ StopReturns PROVE StreamInv'
  OBVIOUS
<1> USE QueueFacts
<1>1. CASE Stop /\ worker # None
  BY <1>1, OnlyOthersMove DEF Stop, Q!Stop, Q!Notified, streamVars
<1>2. CASE Stop /\ worker = None
  <2>1. \A w \in Workers : pc'[w] # "gate"
    BY <1>2 DEF Stop, Q!Stop, Q!Notified
  <2> QED
    BY <1>2, <2>1, TellingKeepsStreams DEF Stop, Q!Stop, Q!CancelPendingFutures
<1>3. CASE StopReturns
  <2>1. \A w \in Workers : pc'[w] # "gate"
    BY <1>3 DEF StopReturns, Q!StopReturns
  <2> QED
    BY <1>3, <2>1, TellingKeepsStreams DEF StopReturns, Q!StopReturns, Q!CancelPendingFutures
<1> QED
  BY <1>1, <1>2, <1>3

\* The chunks of the model, in order.
LEMMA NumbersGrow ==
  ASSUME NEW n \in Nat
  PROVE  Len(Numbers(n)) = n /\ Append(Numbers(n), n + 1) = Numbers(n + 1)
<1>1. Numbers(n) \in Seq(Nat) /\ Len(Numbers(n)) = n
  BY DEF Numbers
<1>2. Numbers(n + 1) \in Seq(Nat) /\ Len(Numbers(n + 1)) = n + 1
  BY DEF Numbers
<1>3. /\ Append(Numbers(n), n + 1) \in Seq(Nat) /\ Len(Append(Numbers(n), n + 1)) = n + 1
      /\ \A i \in 1..n : Append(Numbers(n), n + 1)[i] = Numbers(n)[i]
      /\ Append(Numbers(n), n + 1)[n + 1] = n + 1
  BY <1>1, AppendProperties
<1>4. \A i \in 1..n + 1 : Append(Numbers(n), n + 1)[i] = Numbers(n + 1)[i]
  BY <1>3 DEF Numbers
<1> QED
  BY <1>1, <1>2, <1>3, <1>4, SeqEqual

\* A step about one stream leaves the others alone.
LEMMA OneStreamMoves ==
  ASSUME Inv, NEW s \in Streams,
         \A k \in Streams \ {s} : Unmoved(k) /\ thread'[k] = thread[k] /\ (Queued(k)' => Queued(k)),
         FreshInv(s)', ThreadInv(s)', ClientInv(s)'
  PROVE  StreamInv'
BY StreamStays DEF Inv, StreamInv

\* A stream is opened.
LEMMA OpenStreamKeepsStreams ==
  ASSUME Inv, NEW s \in Streams, OpenStream(s) PROVE StreamInv'
<1> USE QueueFacts DEF OpenStream, Inv, StreamTypes
<1>1. /\ thread[s] = "none" /\ thread' = thread /\ stream_queue'[s] = << >>
      /\ reader'[s] = "opened" /\ generated'[s] = 0 /\ posted'[s] = "nothing"
      /\ received'[s] = << >> /\ ~abandoned'[s]
  <2>1. /\ thread[s] = "none" /\ stream_queue[s] = << >> /\ received[s] = << >> /\ ~abandoned[s]
        /\ generated[s] = 0 /\ posted[s] = "nothing"
    BY DEF StreamInv, ThreadInv, ClientInv
  <2> QED
    BY <2>1 DEF Enqueue
<1>2. DOMAIN << >> = {} /\ Len(<< >>) = 0
  BY EmptySeq, LenProperties
<1>3. ~Failed(s)' /\ ~Ended(s)'
  BY <1>1, <1>2 DEF Failed, Ended
<1>4. \A k \in Streams \ {s} : Unmoved(k) /\ thread'[k] = thread[k] /\ (Queued(k)' => Queued(k))
  <2>1. /\ pending' = Append(pending, s) /\ s \in Chats /\ job' = job
        /\ \A w \in Workers : pc'[w] = "gate" => pc[w] = "gate"
    BY DEF Enqueue, Q!Appended, Chats, Q!Notified, Q!StartWorker
  <2>2. /\ DOMAIN pending' = 1..(Len(pending) + 1)
        /\ \A i \in DOMAIN pending : pending'[i] = pending[i]
        /\ pending'[Len(pending) + 1] = s
    BY <2>1, AppendProperties, LenProperties
  <2>3. \A k \in Streams \ {s} : Queued(k)' => Queued(k)
    BY <2>1, <2>2 DEF Queued
  <2>4. \A k \in Streams \ {s} : Unmoved(k)
    BY DEF Unmoved
  <2> QED
    BY <1>1, <2>3, <2>4
<1>5. FreshInv(s)'
  BY <1>1 DEF FreshInv, Untouched
<1>6. ThreadInv(s)'
  BY <1>1, <1>2, <1>3 DEF ThreadInv
<1>7. Numbers(0) = << >>
  BY DEF Numbers
<1>8. ClientInv(s)'
  BY <1>1, <1>2, <1>3, <1>7 DEF ClientInv
<1> QED
  BY <1>4, <1>5, <1>6, <1>8, OneStreamMoves

\* The client begins to read, or leaves.
LEMMA ComingAndGoingKeepsStreams ==
  ASSUME Inv, NEW s \in Streams, FirstNext(s) \/ Leave(s) PROVE StreamInv'
<1> USE DEF FirstNext, Leave, queueVars, Inv, StreamTypes
<1>1. \A k \in Streams : Queued(k)' => Queued(k)
  BY DEF Queued
<1>2. \A k \in Streams \ {s} : Unmoved(k) /\ thread'[k] = thread[k] /\ (Queued(k)' => Queued(k))
  BY <1>1 DEF Unmoved
<1>3. /\ reader[s] \in {"opened", "reading"}
      /\ UNCHANGED << thread[s], stream_queue[s], received[s], generated[s], posted[s] >>
      /\ (reader'[s] = "reading" /\ abandoned'[s] = abandoned[s]) \/ reader'[s] = "left"
  OBVIOUS
<1>4. FreshInv(s)'
  BY <1>1, <1>3 DEF FreshInv, Untouched, StreamInv
<1>5. ThreadInv(s)'
  BY <1>3 DEF ThreadInv, StreamInv, Ended, Failed
<1>6. ClientInv(s)'
  BY <1>3 DEF ClientInv, StreamInv, Ended, Failed
<1> QED
  BY <1>2, <1>4, <1>5, <1>6, OneStreamMoves

\* The thread generates.
LEMMA GenerateKeepsStreams ==
  ASSUME Inv, NEW s \in Streams, Generate(s) PROVE StreamInv'
<1> USE DEF queueVars, Inv, StreamTypes
<1>1. \A k \in Streams : Queued(k)' => Queued(k)
  BY DEF Queued, Generate
<1>2. \A k \in Streams \ {s} : Unmoved(k) /\ thread'[k] = thread[k] /\ (Queued(k)' => Queued(k))
  BY <1>1 DEF Unmoved, Generate
<1>3. /\ thread[s] = "running" /\ posted[s] = "nothing"
      /\ UNCHANGED << thread[s], stream_queue[s], received[s], reader[s], abandoned[s] >>
      /\ generated[s] \in Nat
      /\ \/ generated'[s] = generated[s] + 1 /\ posted'[s] = IF abandoned[s] THEN "done" ELSE "content"
         \/ generated'[s] = generated[s] /\ posted'[s] \in {"done", "error"}
  BY ChatAssumption DEF Generate
<1>4. FreshInv(s)'
  BY <1>1, <1>3 DEF FreshInv, Untouched, StreamInv
<1>5. ~Failed(s) /\ ~Ended(s) /\ ~Failed(s)' /\ ~Ended(s)'
  <2>1. ThreadInv(s)
    BY DEF StreamInv
  <2>2. ~Failed(s) /\ ~Ended(s)
    BY <1>3, <2>1 DEF ThreadInv
  <2>3. (Failed(s)' <=> Failed(s)) /\ (Ended(s)' <=> Ended(s))
    BY <1>3 DEF Ended, Failed
  <2> QED
    BY <2>2, <2>3
<1>6. ThreadInv(s)'
  BY <1>3, <1>5 DEF ThreadInv, StreamInv
<1>7. ClientInv(s)'
  <2>1. stream_queue[s] \in Seq(Items) /\ Len(stream_queue[s]) \in Nat /\ Len(received[s]) \in Nat
    BY LenProperties
  <2>2. ClientInv(s)
    BY DEF StreamInv
  <2>3. reader[s] \in {"none", "opened", "reading"} =>
          /\ Len(received[s]) + Len(stream_queue[s]) = generated[s]
          /\ ~abandoned[s]
    BY <1>3, <1>5, <2>2 DEF ClientInv
  <2>4. reader[s] # "ended"
    BY <1>3, <2>2 DEF ClientInv
  <2>5. reader[s] \in {"none", "opened", "reading"} =>
          Len(received[s]) + Len(stream_queue[s])
            = IF posted'[s] = "content" THEN generated'[s] - 1 ELSE generated'[s]
    BY <1>3, <2>1, <2>3
  <2> QED
    BY <1>3, <1>5, <2>2, <2>4, <2>5 DEF ClientInv
<1> QED
  BY <1>2, <1>4, <1>6, <1>7, OneStreamMoves

\* An item is put at the end of a stream.
LEMMA ItemPut ==
  ASSUME NEW s \in Streams, NEW x \in Items, stream_queue[s] \in Seq(Items),
         stream_queue'[s] = Append(stream_queue[s], x)
  PROVE  /\ stream_queue'[s] # << >> /\ Len(stream_queue[s]) \in Nat
         /\ Len(stream_queue'[s]) = Len(stream_queue[s]) + 1
         /\ DOMAIN stream_queue[s] = 1..Len(stream_queue[s])
         /\ DOMAIN stream_queue'[s] = 1..(Len(stream_queue[s]) + 1)
         /\ \A i \in 1..Len(stream_queue[s]) : stream_queue'[s][i] = stream_queue[s][i]
         /\ stream_queue'[s][Len(stream_queue[s]) + 1] = x
         /\ Ended(s)' <=> Ended(s) \/ x.type = "done"
         /\ Failed(s)' <=> Failed(s) \/ x.type = "error"
<1> DEFINE q == stream_queue[s]
           r == Append(q, x)
<1>1. /\ r # << >> /\ Len(q) \in Nat /\ Len(r) = Len(q) + 1
      /\ DOMAIN q = 1..Len(q) /\ DOMAIN r = 1..(Len(q) + 1)
      /\ \A i \in 1..Len(q) : r[i] = q[i]
      /\ r[Len(q) + 1] = x
  BY PutLemma
<1>2. ASSUME NEW t
      PROVE  (\E i \in DOMAIN r : r[i].type = t) <=> (\E i \in DOMAIN q : q[i].type = t) \/ x.type = t
  <2>1. \A i \in DOMAIN r : i \in DOMAIN q \/ i = Len(q) + 1
    BY <1>1
  <2>2. \A i \in DOMAIN q : i \in DOMAIN r /\ r[i] = q[i]
    BY <1>1
  <2>3. Len(q) + 1 \in DOMAIN r
    BY <1>1
  <2> QED
    BY <1>1, <2>1, <2>2, <2>3, Zenon
<1>3. Ended(s)' <=> Ended(s) \/ x.type = "done"
  BY <1>2 DEF Ended
<1>4. Failed(s)' <=> Failed(s) \/ x.type = "error"
  BY <1>2 DEF Failed
<1> QED
  BY <1>1, <1>3, <1>4

\* The event loop puts a chunk, or the error.
LEMMA PutKeepsStreams ==
  ASSUME Inv, NEW s \in Streams, Put(s) PROVE StreamInv'
<1> USE DEF queueVars, Inv, StreamTypes
<1> DEFINE x == IF posted[s] = "error" THEN Error ELSE Chunk(generated[s])
           q == stream_queue[s]
<1>1. \A k \in Streams : Queued(k)' => Queued(k)
  BY DEF Queued, Put
<1>2. \A k \in Streams \ {s} : Unmoved(k) /\ thread'[k] = thread[k] /\ (Queued(k)' => Queued(k))
  BY <1>1 DEF Unmoved, Put
<1>3. /\ thread[s] = "running" /\ posted[s] \in {"content", "error"}
      /\ UNCHANGED << thread[s], received[s], reader[s], abandoned[s], generated[s] >>
      /\ posted'[s] = IF posted[s] = "error" THEN "done" ELSE "nothing"
      /\ stream_queue'[s] = Append(q, x) /\ q \in Seq(Items)
  BY DEF Put
<1>4. FreshInv(s) /\ ThreadInv(s) /\ ClientInv(s)
  BY DEF StreamInv
<1>5. posted[s] = "content" => generated[s] \in 1..MaxChunks
  BY <1>4, ChatAssumption DEF ThreadInv
<1>6. /\ x \in Items
      /\ posted[s] = "error" => x.type = "error"
      /\ posted[s] = "content" => x.type = "content" /\ x.n = generated[s]
  BY <1>3, <1>5 DEF Items, Chunk, Error
<1> HIDE DEF x, Inv, StreamTypes, queueVars
<1>7. /\ stream_queue'[s] # << >> /\ Len(stream_queue'[s]) = Len(q) + 1 /\ Len(q) \in Nat
      /\ DOMAIN q = 1..Len(q) /\ DOMAIN stream_queue'[s] = 1..(Len(q) + 1)
      /\ \A i \in 1..Len(q) : stream_queue'[s][i] = q[i]
      /\ stream_queue'[s][Len(q) + 1] = x
  BY <1>3, <1>6, ItemPut
<1>8. ~Failed(s) /\ ~Ended(s) /\ ~Ended(s)' /\ (Failed(s)' <=> posted[s] = "error")
  <2>1. posted[s] # "done"
    BY <1>3
  <2>2. ~Failed(s) /\ ~Ended(s)
    BY <1>3, <1>4, <2>1 DEF ThreadInv
  <2>3. /\ Ended(s)' <=> Ended(s) \/ x.type = "done"
        /\ Failed(s)' <=> Failed(s) \/ x.type = "error"
    BY <1>3, <1>6, ItemPut
  <2> QED
    BY <1>3, <1>6, <2>2, <2>3
<1>9. FreshInv(s)'
  BY <1>1, <1>3, <1>4 DEF FreshInv
<1>10. ThreadInv(s)'
  <2>1. reader[s] # "none"
    BY <1>3, <1>4 DEF ThreadInv
  <2>2. \A i \in DOMAIN stream_queue'[s] :
           /\ stream_queue'[s][i].type = "content" => generated'[s] > 0
           /\ stream_queue'[s][i].type # "done"
    <3>1. \A i \in DOMAIN q : (q[i].type = "content" => generated[s] > 0) /\ q[i].type # "done"
      BY <1>4, <1>8 DEF ThreadInv, Ended
    <3>2. (x.type = "content" => generated[s] > 0) /\ x.type # "done"
      BY <1>3, <1>5, <1>6
    <3> QED
      BY <1>3, <1>7, <3>1, <3>2
  <2> QED
    BY <1>3, <1>8, <2>1, <2>2 DEF ThreadInv
<1>11. ClientInv(s)'
  <2>1. reader[s] # "ended"
    BY <1>3, <1>4 DEF ClientInv
  <2>2. Len(received[s]) \in Nat
    BY LenProperties DEF Inv, StreamTypes
  <2>3. ASSUME reader[s] \in {"none", "opened", "reading"}
        PROVE  /\ \A i \in DOMAIN stream_queue'[s] :
                     stream_queue'[s][i].type = "content" => stream_queue'[s][i].n = Len(received[s]) + i
               /\ posted[s] = "content" => Len(received[s]) + Len(stream_queue'[s]) = generated[s]
    <3>1. /\ \A i \in DOMAIN q : q[i].type = "content" => q[i].n = Len(received[s]) + i
          /\ posted[s] = "content" => Len(received[s]) + Len(q) = generated[s] - 1
      BY <1>4, <1>8, <2>3 DEF ClientInv
    <3>2. x.type = "content" => posted[s] = "content"
      BY <1>3, <1>6
    <3>3. posted[s] = "content" => /\ x.n = Len(received[s]) + (Len(q) + 1)
                                   /\ Len(received[s]) + (Len(q) + 1) = generated[s]
      <4>1. Len(q) \in Nat /\ (posted[s] = "content" => generated[s] \in Nat)
        BY <1>5, <1>7
      <4>2. posted[s] = "content" => Len(received[s]) + (Len(q) + 1) = generated[s]
        <5> DEFINE n == Len(received[s])
                   m == Len(q)
                   g == generated[s]
        <5>1. posted[s] = "content" => n \in Nat /\ m \in Nat /\ g \in Nat /\ n + m = g - 1
          BY <2>2, <3>1, <4>1
        <5> HIDE DEF n, m, g
        <5>2. posted[s] = "content" => n + (m + 1) = g
          BY <5>1
        <5> QED
          BY <5>2 DEF n, m, g
      <4> QED
        BY <1>6, <4>2
    <3>4. ASSUME NEW i \in DOMAIN stream_queue'[s], stream_queue'[s][i].type = "content"
          PROVE  stream_queue'[s][i].n = Len(received[s]) + i
      <4>1. CASE i \in DOMAIN q
        BY <1>7, <3>1, <3>4, <4>1
      <4>2. CASE i = Len(q) + 1
        BY <1>7, <3>2, <3>3, <3>4, <4>2
      <4> QED
        BY <1>7, <4>1, <4>2
    <3> QED
      BY <1>7, <3>3, <3>4
  <2> QED
    BY <1>3, <1>4, <1>8, <2>1, <2>3 DEF ClientInv
<1> QED
  BY <1>2, <1>9, <1>10, <1>11, OneStreamMoves

\* The put of the `finally` ends the stream.
LEMMA PutDoneKeepsStreams ==
  ASSUME Inv, NEW s \in Streams, PutDone(s) PROVE StreamInv'
<1> USE DEF Inv, StreamTypes
<1> DEFINE q == stream_queue[s]
<1>1. \A k \in Streams : Queued(k)' => Queued(k)
  BY DEF Queued, PutDone, Q!ThreadEnds
<1>2. \A k \in Streams \ {s} : Unmoved(k) /\ thread'[k] = thread[k] /\ (Queued(k)' => Queued(k))
  BY <1>1, QueueFacts DEF Unmoved, PutDone, Q!ThreadEnds, Chats
<1>3. /\ thread[s] = "running" /\ posted[s] = "done" /\ thread'[s] = "result"
      /\ UNCHANGED << received[s], reader[s], abandoned[s], generated[s], posted[s] >>
      /\ stream_queue'[s] = Append(q, Done) /\ q \in Seq(Items)
  BY QueueFacts DEF PutDone, Q!ThreadEnds, Chats
<1>4. FreshInv(s) /\ ThreadInv(s) /\ ClientInv(s)
  BY DEF StreamInv
<1>5. Done \in Items /\ Done.type = "done"
  BY DEF Items, Done
<1>6. /\ stream_queue'[s] # << >> /\ Len(stream_queue'[s]) = Len(q) + 1 /\ Len(q) \in Nat
      /\ DOMAIN q = 1..Len(q) /\ DOMAIN stream_queue'[s] = 1..(Len(q) + 1)
      /\ \A i \in 1..Len(q) : stream_queue'[s][i] = q[i]
      /\ stream_queue'[s][Len(q) + 1] = Done
  <2> HIDE DEF Inv, StreamTypes
  <2> QED
    BY <1>3, <1>5, ItemPut
<1>7. ~Ended(s) /\ Ended(s)' /\ (Failed(s)' <=> Failed(s))
  <2>1. ~Ended(s)
    BY <1>3, <1>4 DEF ThreadInv
  <2>2. Ended(s)' /\ (Failed(s)' <=> Failed(s))
    <3>1. Done.type # "error"
      BY <1>5
    <3> QED
      BY <1>3, <1>5, <3>1, ItemPut
  <2> QED
    BY <2>1, <2>2
<1>8. FreshInv(s)'
  BY <1>1, <1>3, <1>4 DEF FreshInv
<1>9. ThreadInv(s)'
  <2>1. reader[s] # "none"
    BY <1>3, <1>4 DEF ThreadInv
  <2>2. \A i \in DOMAIN stream_queue'[s] :
           /\ stream_queue'[s][i].type = "content" => generated'[s] > 0
           /\ stream_queue'[s][i].type = "done" => i = Len(stream_queue'[s])
    <3>1. \A i \in DOMAIN q : (q[i].type = "content" => generated[s] > 0) /\ q[i].type # "done"
      BY <1>4, <1>7 DEF ThreadInv, Ended
    <3> QED
      BY <1>3, <1>5, <1>6, <3>1
  <2> QED
    BY <1>3, <2>1, <2>2 DEF ThreadInv
<1>10. ClientInv(s)'
  <2>1. reader[s] # "ended"
    BY <1>3, <1>4 DEF ClientInv
  <2>2. Len(received[s]) \in Nat
    BY LenProperties DEF Inv, StreamTypes
  <2>3. ASSUME reader[s] \in {"none", "opened", "reading"}
        PROVE  /\ \A i \in DOMAIN stream_queue'[s] :
                     stream_queue'[s][i].type = "content" => stream_queue'[s][i].n = Len(received[s]) + i
               /\ ~Failed(s) => Len(received[s]) + Len(stream_queue'[s]) = generated[s] + 1
    <3>1. /\ \A i \in DOMAIN q : q[i].type = "content" => q[i].n = Len(received[s]) + i
          /\ ~Failed(s) => Len(received[s]) + Len(q) = generated[s]
      BY <1>3, <1>4, <1>7, <2>3 DEF ClientInv
    <3>2. ASSUME NEW i \in DOMAIN stream_queue'[s], stream_queue'[s][i].type = "content"
          PROVE  stream_queue'[s][i].n = Len(received[s]) + i
      <4>1. i \in DOMAIN q
        BY <1>5, <1>6, <3>2
      <4> QED
        BY <1>6, <3>1, <3>2, <4>1
    <3>3. ~Failed(s) => Len(received[s]) + Len(stream_queue'[s]) = generated[s] + 1
      BY <1>6, <2>2, <3>1
    <3> QED
      BY <3>2, <3>3
  <2> QED
    BY <1>3, <1>4, <1>7, <2>1, <2>3 DEF ClientInv
<1> QED
  BY <1>2, <1>8, <1>9, <1>10, OneStreamMoves

\* An item is taken from the head of a stream.
LEMMA ItemTaken ==
  ASSUME NEW s \in Streams, stream_queue[s] \in Seq(Items), stream_queue[s] # << >>,
         stream_queue'[s] = Tail(stream_queue[s])
  PROVE  /\ Head(stream_queue[s]) = stream_queue[s][1] /\ Head(stream_queue[s]) \in Items
         /\ Len(stream_queue[s]) \in Nat \ {0} /\ DOMAIN stream_queue[s] = 1..Len(stream_queue[s])
         /\ Len(stream_queue'[s]) = Len(stream_queue[s]) - 1
         /\ DOMAIN stream_queue'[s] = 1..(Len(stream_queue[s]) - 1)
         /\ \A i \in DOMAIN stream_queue'[s] : /\ i + 1 \in DOMAIN stream_queue[s]
                                              /\ stream_queue'[s][i] = stream_queue[s][i + 1]
         /\ stream_queue'[s] # << >> =>
              stream_queue'[s][Len(stream_queue'[s])] = stream_queue[s][Len(stream_queue[s])]
         /\ Len(stream_queue[s]) = 1 => stream_queue'[s] = << >>
         /\ Ended(s) <=> Head(stream_queue[s]).type = "done" \/ Ended(s)'
         /\ Failed(s) <=> Head(stream_queue[s]).type = "error" \/ Failed(s)'
<1> DEFINE q == stream_queue[s]
           r == Tail(q)
<1>1. /\ Head(q) \in Items /\ Head(q) = q[1] /\ r \in Seq(Items)
      /\ Len(r) = Len(q) - 1 /\ Len(q) \in Nat \ {0}
      /\ DOMAIN q = 1..Len(q) /\ DOMAIN r = 1..(Len(q) - 1)
      /\ \A i \in 1..(Len(q) - 1) : r[i] = q[i + 1]
  BY TakeLemma
<1>2. \A i \in DOMAIN r : i + 1 \in DOMAIN q /\ r[i] = q[i + 1]
  BY <1>1
<1>3. \A i \in DOMAIN q : i = 1 \/ (i - 1 \in DOMAIN r /\ r[i - 1] = q[i])
  BY <1>1
<1>4. 1 \in DOMAIN q
  BY <1>1
<1>5. ASSUME NEW t
      PROVE  (\E i \in DOMAIN q : q[i].type = t) <=> Head(q).type = t \/ \E i \in DOMAIN r : r[i].type = t
  BY <1>1, <1>2, <1>3, <1>4, Zenon
<1>6. Ended(s) <=> Head(q).type = "done" \/ Ended(s)'
  BY <1>5 DEF Ended
<1>7. Failed(s) <=> Head(q).type = "error" \/ Failed(s)'
  BY <1>5 DEF Failed
<1>8. r # << >> => r[Len(r)] = q[Len(q)]
  <2>1. r # << >> => Len(r) \in DOMAIN r /\ Len(r) + 1 = Len(q)
    BY <1>1, EmptySeq
  <2> QED
    BY <1>2, <2>1
<1>9. Len(q) = 1 => r = << >>
  BY <1>1, EmptySeq
<1> QED
  BY <1>1, <1>2, <1>6, <1>7, <1>8, <1>9

\* The client reads.
LEMMA ReadKeepsStreams ==
  ASSUME Inv, NEW s \in Streams, Read(s) PROVE StreamInv'
<1> DEFINE q == stream_queue[s]
           r == stream_queue'[s]
           n == Len(received[s])
           m == Len(q)
<1>1. \A k \in Streams : Queued(k)' => Queued(k)
  BY DEF Queued, Read, queueVars
<1>2. \A k \in Streams \ {s} : Unmoved(k) /\ thread'[k] = thread[k] /\ (Queued(k)' => Queued(k))
  BY <1>1 DEF Unmoved, Read, queueVars, Inv, StreamTypes
<1>3. /\ reader[s] = "reading" /\ q # << >> /\ q \in Seq(Items) /\ r = Tail(q)
      /\ UNCHANGED << thread[s], abandoned[s], generated[s], posted[s] >>
      /\ \/ /\ Head(q).type = "content" /\ reader'[s] = "reading"
            /\ received'[s] = Append(received[s], Head(q).n)
         \/ Head(q).type = "done" /\ reader'[s] = "ended" /\ received'[s] = received[s]
         \/ Head(q).type = "error" /\ reader'[s] = "failed" /\ received'[s] = received[s]
  BY DEF Read, queueVars, Inv, StreamTypes
<1>4. FreshInv(s) /\ ThreadInv(s) /\ ClientInv(s)
  BY DEF Inv, StreamInv
<1>5. n \in Nat /\ generated[s] \in Nat
  BY LenProperties, ChatAssumption DEF Inv, StreamTypes
<1>6. /\ Head(q) = q[1] /\ m \in Nat \ {0} /\ DOMAIN q = 1..m
      /\ Len(r) = m - 1 /\ DOMAIN r = 1..(m - 1)
      /\ \A i \in DOMAIN r : i + 1 \in DOMAIN q /\ r[i] = q[i + 1]
      /\ r # << >> => r[Len(r)] = q[m]
      /\ m = 1 => r = << >>
      /\ Ended(s) <=> Head(q).type = "done" \/ Ended(s)'
      /\ Failed(s) <=> Head(q).type = "error" \/ Failed(s)'
  BY <1>3, ItemTaken
<1>7. FreshInv(s)'
  BY <1>1, <1>3, <1>4 DEF FreshInv, Untouched
<1>8. ThreadInv(s)'
  <2>1. \A i \in DOMAIN r : /\ r[i].type = "content" => generated[s] > 0
                            /\ r[i].type = "done" => i = Len(r)
    <3>1. \A i \in DOMAIN q : /\ q[i].type = "content" => generated[s] > 0
                              /\ q[i].type = "done" => i = m
      BY <1>4 DEF ThreadInv
    <3> HIDE DEF m
    <3> QED
      BY <1>6, <3>1
  <2>2. /\ thread[s] \notin {"running", "result"} =>
             /\ generated[s] = 0 /\ posted[s] = "nothing"
             /\ r # << >> => r[Len(r)].type = "done"
        /\ thread[s] # "error"
        /\ thread[s] = "result" => posted[s] = "done"
        /\ thread[s] = "running" => ~Ended(s)'
        /\ thread[s] = "running" /\ Failed(s)' => posted[s] = "done"
        /\ posted[s] = "content" => generated[s] > 0
    BY <1>3, <1>4, <1>6 DEF ThreadInv
  <2>3. reader'[s] # "none"
    BY <1>3
  <2> QED
    BY <1>3, <2>1, <2>2, <2>3 DEF ThreadInv
<1>9. /\ received[s] = Numbers(n) /\ ~abandoned'[s]
      /\ \A i \in DOMAIN q : q[i].type = "content" => q[i].n = n + i
      /\ ~Failed(s) /\ ~Ended(s) =>
           n + m = IF posted[s] = "content" THEN generated[s] - 1 ELSE generated[s]
      /\ ~Failed(s) /\ Ended(s) => thread[s] = "result" /\ n + m = generated[s] + 1
      /\ thread[s] = "result" => Failed(s) \/ Ended(s)
  BY <1>3, <1>4 DEF ClientInv
<1>10. CASE Head(q).type = "content"
  <2>1. reader'[s] = "reading" /\ received'[s] = Append(received[s], Head(q).n)
    BY <1>3, <1>10
  <2>2. Head(q).n = n + 1
    BY <1>6, <1>9, <1>10
  <2>3. received'[s] = Numbers(n + 1) /\ Len(received'[s]) = n + 1
    <3> HIDE DEF n
    <3>1. received'[s] = Append(Numbers(n), n + 1)
      BY <1>9, <2>1, <2>2
    <3>2. n \in Nat /\ n + 1 \in Nat
      BY <1>5
    <3>3. Append(Numbers(n), n + 1) = Numbers(n + 1)
      BY <3>2, NumbersGrow, Zenon
    <3>4. Len(Numbers(n + 1)) = n + 1
      BY <3>2, NumbersGrow, Zenon
    <3> QED
      BY <3>1, <3>3, <3>4, Zenon
  <2>4. ASSUME NEW i \in DOMAIN r, r[i].type = "content" PROVE r[i].n = (n + 1) + i
    <3> HIDE DEF n, m
    <3>1. i + 1 \in DOMAIN q /\ r[i] = q[i + 1] /\ i \in Nat
      BY <1>6, <2>4
    <3>2. r[i].n = n + (i + 1)
      BY <1>9, <2>4, <3>1
    <3> QED
      BY <1>5, <3>1, <3>2
  <2>5. (Failed(s)' <=> Failed(s)) /\ (Ended(s)' <=> Ended(s))
    BY <1>6, <1>10
  <2>6. (n + 1) + Len(r) = n + m
    <3> HIDE DEF n, m
    <3> QED
      BY <1>5, <1>6
  <2>7. ClientInv(s)'
    BY <1>3, <1>9, <2>1, <2>3, <2>4, <2>5, <2>6 DEF ClientInv
  <2> QED
    BY <1>2, <1>7, <1>8, <2>7, OneStreamMoves
<1>11. CASE Head(q).type = "done"
  <2>1. reader'[s] = "ended" /\ received'[s] = received[s]
    BY <1>3, <1>11
  <2>2. m = 1
    <3>1. 1 \in DOMAIN q /\ q[1].type = "done"
      BY <1>6, <1>11
    <3> QED
      BY <1>4, <3>1 DEF ThreadInv
  <2>3. ~Failed(s) /\ Ended(s) /\ r = << >>
    BY <1>6, <1>11, <2>2 DEF Failed
  <2>4. thread[s] = "result" /\ n = generated[s]
    BY <1>5, <1>9, <2>2, <2>3
  <2>5. ClientInv(s)'
    BY <1>3, <1>9, <2>1, <2>3, <2>4 DEF ClientInv
  <2> QED
    BY <1>2, <1>7, <1>8, <2>5, OneStreamMoves
<1>12. CASE Head(q).type = "error"
  <2>1. reader'[s] = "failed"
    BY <1>3, <1>12
  <2>2. ClientInv(s)'
    BY <1>9, <2>1 DEF ClientInv
  <2> QED
    BY <1>2, <1>7, <1>8, <2>2, OneStreamMoves
<1> QED
  BY <1>3, <1>10, <1>11, <1>12

-----------------------------------------------------------------------------
(* The invariant *)

\* No stream is open at first.
LEMMA InitInv == Init => RQ!Init /\ Inv
<1> SUFFICES ASSUME Init PROVE RQ!Init /\ Inv
  OBVIOUS
<1>0. MaxChunks \in Nat /\ DOMAIN << >> = {} /\ Len(<< >>) = 0
  BY ChatAssumption, EmptySeq, LenProperties
<1>1. \A s \in Streams : s \in Chats /\ reader[s] = "none"
  BY DEF Init, Chats
<1>2. RQ!Init
  <2>1. Awaited = [j \in Chats |-> "none"]
    BY <1>1 DEF Init, Q!Init, Awaited, Chats
  <2> QED
    BY <2>1 DEF Init, Q!Init, RQ!Init
<1>3. StreamTypes
  <2>1. << >> \in Seq(Items) /\ << >> \in Seq(1..MaxChunks)
    BY EmptySeq
  <2> QED
    BY <1>0, <1>1, <2>1 DEF Init, Q!Init, StreamTypes
<1>4. StreamInv
  <2>1. \A s \in Streams : ~Queued(s) /\ thread[s] = "none"
    BY <1>0, <1>1 DEF Init, Q!Init, Queued
  <2>2. \A s \in Streams : ~Failed(s) /\ ~Ended(s)
    BY <1>0 DEF Init, Failed, Ended
  <2>3. Numbers(0) = << >>
    BY DEF Numbers
  <2>4. \A s \in Streams : FreshInv(s)
    BY <2>1 DEF FreshInv
  <2>5. \A s \in Streams : ThreadInv(s)
    BY <1>0, <2>1, <2>2 DEF Init, ThreadInv
  <2>6. \A s \in Streams : ClientInv(s)
    BY <1>0, <2>1, <2>2, <2>3 DEF Init, ClientInv
  <2> QED
    BY <2>4, <2>5, <2>6 DEF StreamInv
<1>5. RQ!RInv
  BY <1>2, QueueAssumptions, RQ!InitIInv, RQ!InitCloseInv DEF RQ!RInv
<1>6. RQ!LineInv
  <2>1. RQ!Abstract!Init
    BY <1>2, QueueAssumptions DEF RQ!Init, RQ!Abstract!Init, RQ!Line
  <2> QED
    BY <2>1, QueueAssumptions, RQ!InitLineInv
<1> QED
  BY <1>2, <1>3, <1>4, <1>5, <1>6 DEF Inv, LineInv

\* Every step keeps the two halves.
LEMMA NextKeepsInv == Inv /\ [Next]_vars => [RQ!Next]_RQ!vars /\ Inv'
<1> SUFFICES ASSUME Inv, [Next]_vars PROVE [RQ!Next]_RQ!vars /\ Inv'
  OBVIOUS
<1>1. StreamTypes'
  BY NextKeepsStreamTypes
<1>2. [RQ!Next]_RQ!vars
  BY <1>1, StepsAreQueueSteps
<1>3. RQ!RInv'
  BY <1>2, QueueAssumptions, RQ!NextKeepsIInv, RQ!NextKeepsCloseInv
     DEF Inv, LineInv, RQ!RInv
<1>4. RQ!LineInv'
  BY <1>2, <1>3, QueueAssumptions, RQ!NextIsAbstract, RQ!NextKeepsLineInv DEF Inv, LineInv
<1>5. StreamInv'
  BY <1>1, WorkKeepsStreams, StopKeepsStreams, OpenStreamKeepsStreams,
     ComingAndGoingKeepsStreams, ReadKeepsStreams, GenerateKeepsStreams, PutKeepsStreams,
     PutDoneKeepsStreams
     DEF Next, StreamThreadStep
<1> QED
  BY <1>1, <1>2, <1>3, <1>4, <1>5 DEF Inv, LineInv

\* Inv is an invariant: what the queue, the threads of its streams and their clients
\* rely on of each other (chat_queue.py:99-221).
THEOREM Invariance == Spec => []Inv
<1> QED
  BY InitInv, NextKeepsInv, PTL DEF Spec

\* The bounded queue with its streams implements the worker and the line of RerankQueue:
\* the two files keep the same discipline (chat_queue.py:99-192, rerank_queue.py:27-116).
THEOREM ChatQueueIsRerankQueue == Spec => RQ!Spec
<1> QED
  BY InitInv, NextKeepsInv, PTL DEF Spec, RQ!Spec

\* So it serves its calls and streams in the order of their arrival, and drops one only
\* while it is being stopped (chat_queue.py:129-149, :151-192).
THEOREM ChatsServedInOrder == Spec => RQ!ImplementsOrderedService
<1> QED
  BY ChatQueueIsRerankQueue, QueueAssumptions, RQ!QueueIsOrderedService

\* Every variable keeps its type.
THEOREM TypeCorrect == Spec => []TypeOK
<1>1. Inv => TypeOK
  BY DEF Inv, LineInv, RQ!RInv, RQ!IInv, RQ!TypeOK, RQ!Users, StreamTypes, TypeOK, Q!TypeOK, Q!Users
<1> QED
  BY <1>1, Invariance, PTL

Bounded == Len(pending) <= MaxQueueSize

\* Accepted and unfinished jobs are bounded, across stops and restarts: the list by the
\* check in _enqueue, the worker's hands by there being one worker (chat_queue.py:136,
\* :142-149).
THEOREM JobsAreBounded == Spec => []UnfinishedIsBounded
<1>1. Init => Bounded
  BY ChatAssumption, EmptySeq DEF Init, Q!Init, Bounded
<1>2. ASSUME Inv, Bounded, [Next]_vars PROVE Bounded'
  <2>0. MaxQueueSize \in Nat \ {0} /\ pending \in Seq(Chats) /\ Len(pending) \in Nat
    BY <1>2, QueueFacts, ChatAssumption
  <2>1. ASSUME NEW j \in Chats, Enqueue(j) PROVE Bounded'
    <3>1. Len(pending') = Len(pending) + 1
      BY <2>0, <2>1, AppendProperties DEF Enqueue, Q!Appended
    <3> QED
      BY <2>0, <2>1, <3>1 DEF Enqueue, RoomLeft, Bounded
  <2>2. ASSUME NEW w \in Workers, NEW atGate, NEW n, Q!TakeNextJob(w, atGate, n) PROVE Bounded'
    <3>1. CASE pending # << >> /\ pending' = Tail(pending)
      <4>1. Len(pending') = Len(pending) - 1
        BY <2>0, <3>1, HeadTailProperties
      <4> QED
        BY <1>2, <2>0, <4>1 DEF Bounded
    <3> QED
      BY <1>2, <2>2, <3>1 DEF Q!TakeNextJob, Q!Popped, Bounded
  <2>3. CASE pending' = pending
    BY <1>2, <2>3 DEF Bounded
  <2>4. CASE pending' = << >>
    BY <2>0, <2>4, EmptySeq DEF Bounded
  <2>5. ASSUME NEW c \in Completes, Complete(c) \/ CallerCancelled(c) \/ CompleteEnds(c)
        PROVE  Bounded'
    BY <2>1, <2>3, <2>5
       DEF Complete, CallerCancelled, Q!CallerCancelled, CompleteEnds, Q!ThreadEnds, Chats
  <2>6. ASSUME NEW s \in Streams, \/ OpenStream(s) \/ FirstNext(s) \/ Read(s) \/ Leave(s)
                                  \/ StreamThreadStep(s)
        PROVE  Bounded'
    <3>1. OpenStream(s) => Bounded'
      BY <2>1 DEF OpenStream, Chats
    <3>2. FirstNext(s) \/ Read(s) \/ Leave(s) \/ StreamThreadStep(s) => pending' = pending
      BY DEF FirstNext, Read, Leave, StreamThreadStep, Generate, Put, PutDone, Q!ThreadEnds, queueVars
    <3> QED
      BY <2>3, <2>6, <3>1, <3>2
  <2>7. ASSUME NEW w \in Workers, Start(w) \/ WorkerStep(w) PROVE Bounded'
    BY <2>2, <2>3, <2>7
       DEF Start, Q!Start, WorkerStep, Q!WorkerStep, Q!Run, Q!EnterGate, Q!FinishJob,
           Q!CancelIdleWorker, Q!CancelBusyWorker
  <2>8. CASE Stop \/ StopReturns
    BY <2>3, <2>4, <2>8
       DEF Stop, Q!Stop, StopReturns, Q!StopReturns, Q!CancelPendingFutures
  <2>9. ASSUME NEW j \in Chats, ThreadStarts(j) PROVE Bounded'
    BY <2>3, <2>9 DEF ThreadStarts, Q!ThreadStarts
  <2>10. ASSUME NEW u \in Others, OtherAcquires(u) \/ OtherLeaves(u) PROVE Bounded'
    BY <2>3, <2>10 DEF OtherAcquires, Q!OtherAcquires, OtherLeaves, Q!OtherLeaves
  <2>11. CASE UNCHANGED vars
    BY <2>3, <2>11 DEF vars, queueVars
  <2> QED
    BY <1>2, <2>5, <2>6, <2>7, <2>8, <2>9, <2>10, <2>11 DEF Next
<1>3. ASSUME Inv, Bounded PROVE UnfinishedIsBounded
  <2>1. active = 0 \/ active = 1
    BY <1>3 DEF Inv, LineInv, RQ!RInv, RQ!IInv, RQ!ActiveInv
  <2>2. MaxQueueSize \in Nat /\ Len(pending) \in Nat
    BY <1>3, QueueFacts, ChatAssumption
  <2> QED
    BY <1>3, <2>1, <2>2 DEF Bounded, UnfinishedIsBounded
<1> QED
  BY <1>1, <1>2, <1>3, Invariance, PTL DEF Spec

\* A stream that ends without an error brought every chunk of the model, once and in
\* order, however the worker fared meanwhile (chat_queue.py:123, :200-221).
THEOREM EndedStreamsAreWhole == Spec => []EndedStreamIsWhole
<1>1. Inv => EndedStreamIsWhole
  BY DEF Inv, StreamInv, ClientInv, Numbers, EndedStreamIsWhole
<1> QED
  BY <1>1, Invariance, PTL

\* The thread and stop() never both end a stream: nothing follows a "done"
\* (chat_queue.py:49-51, :217-221).
THEOREM StreamsEndOnce == Spec => []OneEndPerStream
<1>1. Inv => OneEndPerStream
  BY DEF Inv, StreamInv, ClientInv, ThreadInv, OneEndPerStream
<1> QED
  BY <1>1, Invariance, PTL

-----------------------------------------------------------------------------
(* Nobody is forgotten, but by a cancelled worker *)

\* A stream of which nobody will bring the end has not been touched: it is a call that
\* the queue still waits for.
LEMMA UnfedIsAwaited ==
  ASSUME Inv, NEW s \in Streams, Unfed(s)
  PROVE  Awaited[s] = "pending" /\ Unserved(s)
<1>1. ThreadInv(s) /\ ClientInv(s) /\ FreshInv(s) /\ stream_queue[s] \in Seq(Items)
  BY DEF Inv, StreamInv, StreamTypes
<1>2. thread[s] # "result"
  BY <1>1 DEF ClientInv, Failed, Ended, HasEnd, Unfed
<1>3. thread[s] # "running"
  BY DEF Unfed
<1>4. stream_queue[s] = << >>
  <2>1. SUFFICES ASSUME stream_queue[s] # << >> PROVE FALSE
    OBVIOUS
  <2>2. stream_queue[s][Len(stream_queue[s])].type = "done"
    BY <1>1, <1>2, <1>3, <2>1 DEF ThreadInv
  <2>3. Len(stream_queue[s]) \in DOMAIN stream_queue[s]
    BY <1>1, <2>1, TakeLemma
  <2> QED
    BY <2>2, <2>3 DEF HasEnd, Unfed
<1>5. Unserved(s)
  BY <1>1, <1>2, <1>3, <1>4 DEF ThreadInv, Unserved, Unfed
<1> QED
  BY <1>5, AwaitedIs DEF Unserved

\* So whoever is forgotten is so by the queue's own account.
LEMMA ForgottenByTheQueue ==
  ASSUME Inv, NEW j \in Chats
  PROVE  /\ Forgotten(j) => RQ!Forgotten(j)
         /\ RQ!Forgotten(j) /\ ~Forgotten(j)
              => j \in Streams /\ thread[j] = "running" /\ Unserved(j)
<1>1. RQ!Line = Q!Line
  BY DEF RQ!Line, Q!Line
<1>2. CASE j \in Completes
  BY <1>1, <1>2, AwaitedIs DEF Forgotten, RQ!Forgotten
<1>3. CASE j \notin Completes
  <2>1. j \in Streams
    BY <1>3 DEF Chats
  <2>2. Forgotten(j) => Awaited[j] = "pending"
    BY <1>3, <2>1, UnfedIsAwaited DEF Forgotten
  <2>3. Awaited[j] = "pending" => Unserved(j)
    BY <2>1, AwaitedIs
  <2>4. Unserved(j) => Unfed(j) \/ thread[j] = "running"
    <3>1. DOMAIN << >> = {}
      BY EmptySeq, LenProperties
    <3> QED
      BY <3>1 DEF Unserved, Unfed, HasEnd
  <2> QED
    BY <1>1, <1>3, <2>1, <2>2, <2>3, <2>4 DEF Forgotten, RQ!Forgotten
<1> QED
  BY <1>2, <1>3

ByTheQueue == \A j \in Chats : Forgotten(j) => RQ!Forgotten(j)

\* As said of whole states.
LEMMA ForgottenOnlyByTheQueue == Inv => ByTheQueue
BY ForgottenByTheQueue DEF ByTheQueue

\* A thread that runs is left alone until it has put its last item.
LEMMA RunningStays ==
  ASSUME Inv, [Next]_vars, NEW s \in Streams, thread[s] = "running"
  PROVE  thread'[s] = "running" \/ PutDone(s)
<1> USE QueueFacts
<1>0. s \in Chats /\ ~Queued(s) /\ \A c \in Completes : c # s
  BY ChatAssumption DEF Inv, StreamInv, FreshInv, Chats
<1>1. ASSUME NEW w \in Workers, NEW atGate, NEW n, Q!TakeNextJob(w, atGate, n)
      PROVE  thread'[s] = "running"
  <2>1. CASE thread' = thread
    BY <2>1
  <2>2. CASE pending # << >> /\ thread' = [thread EXCEPT ![Head(pending)] = "queued"]
    <3>1. 1 \in DOMAIN pending /\ Head(pending) = pending[1]
      BY <2>2, EmptySeq
    <3>2. Head(pending) # s
      BY <1>0, <3>1 DEF Queued
    <3> QED
      BY <1>0, <2>2, <3>2
  <2> QED
    BY <1>1, <2>1, <2>2 DEF Q!TakeNextJob
<1>2. ASSUME NEW w \in Workers, Start(w) \/ WorkerStep(w) PROVE thread'[s] = "running"
  <2>1. Q!EnterGate(w) => thread'[s] = "running"
    BY <1>0 DEF Q!EnterGate, Queued
  <2>2. Q!CancelBusyWorker(w) => thread'[s] = "running"
    BY <1>0 DEF Q!CancelBusyWorker
  <2> QED
    BY <1>1, <1>2, <2>1, <2>2
       DEF Start, Q!Start, WorkerStep, Q!WorkerStep, Q!Run, Q!FinishJob, Q!CancelIdleWorker
<1>3. ASSUME NEW j \in Chats, ThreadStarts(j) PROVE thread'[s] = "running"
  BY <1>0, <1>3 DEF ThreadStarts, Q!ThreadStarts
<1>4. ASSUME NEW c \in Completes, Complete(c) \/ CallerCancelled(c) \/ CompleteEnds(c)
      PROVE  thread'[s] = "running"
  BY <1>0, <1>4
     DEF Complete, Enqueue, CallerCancelled, Q!CallerCancelled, CompleteEnds, Q!ThreadEnds
<1>5. ASSUME NEW k \in Streams, k # s, PutDone(k) PROVE thread'[s] = "running"
  BY <1>0, <1>5 DEF PutDone, Q!ThreadEnds
<1>6. ASSUME NEW k \in Streams,
             OpenStream(k) \/ FirstNext(k) \/ Read(k) \/ Leave(k) \/ Generate(k) \/ Put(k)
      PROVE  thread'[s] = "running"
  BY <1>6 DEF OpenStream, Enqueue, FirstNext, Read, Leave, Generate, Put, queueVars
<1>7. CASE Stop \/ StopReturns
  BY <1>7 DEF Stop, Q!Stop, StopReturns, Q!StopReturns
<1>8. ASSUME NEW u \in Others, OtherAcquires(u) \/ OtherLeaves(u) PROVE thread'[s] = "running"
  BY <1>8 DEF OtherAcquires, Q!OtherAcquires, OtherLeaves, Q!OtherLeaves
<1>9. CASE UNCHANGED vars
  BY <1>9 DEF vars, queueVars
<1> QED
  BY <1>2, <1>3, <1>4, <1>5, <1>6, <1>7, <1>8, <1>9 DEF Next, StreamThreadStep

\* With graceful shutdowns whoever waits for a completion or reads a stream has his job
\* in the queue, in the worker's hands or in a thread, or his answer or the end of the
\* stream before him (chat_queue.py:121-127, :172-192).
THEOREM NobodyIsForgotten ==
  ASSUME Drained
  PROVE  Spec => []NobodyForgotten
<1>1. ASSUME Inv, NEW j \in Chats PROVE ~Forgotten(j)
  <2>1. RQ!Forgotten(j) => FALSE
    BY <1>1 DEF Inv, LineInv, RQ!LineInv, RQ!InTheLine, RQ!Forgotten
  <2> QED
    BY <1>1, <2>1, ForgottenByTheQueue
<1>2. Inv => NobodyForgotten
  BY <1>1 DEF NobodyForgotten
<1> QED
  BY <1>2, Invariance, PTL

\* However stop() and restarts cut in, somebody is forgotten only when a cancelled
\* worker drops his job before a thread has taken it up, or a completion that nobody
\* else can answer (chat_queue.py:46-52, :184, :217-221).
THEOREM OnlyTheJobInHandIsForgotten == Spec => ForgetsOnlyTheJobInHand
<1> DEFINE Forgets == \A j \in Chats : Forgotten(j)' /\ ~Forgotten(j)
                                      => \E w \in cancelled : job[w] = j /\ job'[w] = None
           QueueForgets == \A j \in Chats : RQ!Forgotten(j)' /\ ~RQ!Forgotten(j)
                                      => \E w \in cancelled : job[w] = j /\ job'[w] = None
<1>0. Inv' => ByTheQueue'
  BY ForgottenOnlyByTheQueue, PTL
<1>1. ASSUME Inv, Inv', [Next]_vars, [QueueForgets]_RQ!vars PROVE Forgets
  <2> SUFFICES ASSUME NEW j \in Chats, Forgotten(j)', ~Forgotten(j)
               PROVE  \E w \in cancelled : job[w] = j /\ job'[w] = None
    OBVIOUS
  <2>1. RQ!Forgotten(j)'
    BY <1>0, <1>1 DEF ByTheQueue
  <2>2. ~RQ!Forgotten(j)
    <3>1. SUFFICES ASSUME RQ!Forgotten(j) PROVE FALSE
      OBVIOUS
    <3>2. j \in Streams /\ thread[j] = "running" /\ Unserved(j)
      BY <1>1, <3>1, ForgottenByTheQueue
    <3>3. thread'[j] = "running"
      BY <1>1, <3>2, RunningStays DEF PutDone, Unserved
    <3> QED
      BY <3>2, <3>3, ChatAssumption DEF Forgotten, Unfed
  <2>3. RQ!vars' # RQ!vars
    BY <2>1, <2>2 DEF RQ!Forgotten, RQ!Line, RQ!vars
  <2> QED
    BY <1>1, <2>1, <2>2, <2>3
<1>2. Inv /\ Inv' /\ [Next]_vars /\ [QueueForgets]_RQ!vars => [Forgets]_vars
  BY <1>1
<1>3. Spec => [][QueueForgets]_RQ!vars
  BY ChatQueueIsRerankQueue, QueueAssumptions, RQ!OnlyTheJobInHandIsForgotten
     DEF RQ!ForgetsOnlyTheJobInHand
<1> QED
  BY <1>2, <1>3, Invariance, PTL DEF Spec, ForgetsOnlyTheJobInHand
=============================================================================
