----------------------------- MODULE ChatQueue -----------------------------
(***************************************************************************)
(* chat_queue.py: the queue of the in-process chat model.  Its worker is   *)
(* that of RerankQueue, line by line but for the cache trim; what differs  *)
(* is modelled here: the queue is bounded, and a job is either a call of   *)
(* complete(), answered through a future, or a stream, whose items go from *)
(* the generating thread through the event loop into a queue of the job's  *)
(* own, which the client reads.                                            *)
(*                                                                         *)
(* A stream's thread hands an item over (run_coroutine_threadsafe) and     *)
(* blocks (.result()) until the event loop has put it: `posted` is the     *)
(* item on its way.                                                        *)
(***************************************************************************)
EXTENDS Naturals, Sequences, FiniteSets

CONSTANTS
  Completes, Streams,  \* the calls of complete() and of open_stream()
  Workers, Others, None, Drained,  \* as in RerankQueue
  MaxQueueSize,        \* max_queue_size
  MaxChunks            \* bound: the chunks a model generates (max_tokens)

ASSUME ChatAssumption ==
  /\ Completes \cap Streams = {}
  /\ None \notin Completes \cup Streams \cup Workers
  /\ Workers \cap Others = {}
  /\ IsFiniteSet(Workers)
  /\ Drained \in BOOLEAN
  /\ MaxQueueSize \in Nat \ {0} /\ MaxChunks \in Nat

Chats == Completes \cup Streams

VARIABLES
  future,        \* ChatJob.future of the calls of complete(); "none" for streams
  pending, worker, active, stopping, stopCall, pc, cancelled, job, thread, gate,
  reader,        \* where the client's iteration of _stream_items is
  stream_queue,  \* ChatJob.stream_queue
  received,      \* the chunks the client has read
  abandoned,     \* ChatJob.cancelled
  generated,     \* how many chunks the model has generated for the stream
  posted         \* the item that the stream's thread hands to the event loop

queueVars == << future, pending, worker, active, stopping, stopCall, pc, cancelled,
                job, thread, gate >>
streamVars == << reader, stream_queue, received, abandoned, generated, posted >>
vars == << queueVars, streamVars >>

\* ChatQueue has no cache trim: the cache is always clean.
Q == INSTANCE RerankQueue WITH Jobs <- Chats, cache <- "clean", ClearAfterInference <- TRUE

Chunk(n) == [type |-> "content", n |-> n]
Error == [type |-> "error"]
Done == [type |-> "done"]
Items == {Chunk(n) : n \in 1..MaxChunks} \cup {Error, Done}

TypeOK ==
  /\ Q!TypeOK
  /\ \A s \in Streams : future[s] = "none"
  /\ reader \in [Streams -> {"none", "opened", "reading", "ended", "failed", "left"}]
  /\ stream_queue \in [Streams -> Seq(Items)]
  /\ received \in [Streams -> Seq(1..MaxChunks)]
  /\ abandoned \in [Streams -> BOOLEAN]
  /\ generated \in [Streams -> 0..MaxChunks]
  /\ posted \in [Streams -> {"nothing", "content", "error", "done"}]

Init ==
  /\ Q!Init
  /\ reader = [s \in Streams |-> "none"]
  /\ stream_queue = [s \in Streams |-> << >>]
  /\ received = [s \in Streams |-> << >>]
  /\ abandoned = [s \in Streams |-> FALSE]
  /\ generated = [s \in Streams |-> 0]
  /\ posted = [s \in Streams |-> "nothing"]

-----------------------------------------------------------------------------
(* The lifespan and the callers *)

\* Mutant: one job too many.
RoomForOneMore == Len(pending) <= MaxQueueSize

RoomLeft == Len(pending) < MaxQueueSize

\* start() and _enqueue.  A call that finds the queue full changes nothing: it
\* finds a worker too.
Enqueue(j) ==
  /\ Drained => ~stopping
  /\ RoomLeft
  /\ \/ /\ worker # None
        /\ pc' = Q!Notified
        /\ UNCHANGED << worker, stopping >>
     \/ \E w \in Workers : Q!StartWorker(w)
  /\ pending' = Q!Appended(j)
  /\ UNCHANGED << active, stopCall, cancelled, job, thread, gate >>

Complete(c) ==
  /\ future[c] = "none"
  /\ Enqueue(c)
  /\ future' = [future EXCEPT ![c] = "pending"]
  /\ UNCHANGED streamVars

OpenStream(s) ==
  /\ reader[s] = "none"
  /\ Enqueue(s)
  /\ reader' = [reader EXCEPT ![s] = "opened"]
  /\ UNCHANGED << future, stream_queue, received, abandoned, generated, posted >>

Start(w) == Q!Start(w) /\ UNCHANGED streamVars

CallerCancelled(c) == Q!CallerCancelled(c) /\ UNCHANGED streamVars

\* The end of stop(): the streams that still wait are told.
\* Mutant: the stream of the job in progress is told too.
ToldWithTheActiveOne ==
  [s \in Streams |-> IF \/ \E i \in DOMAIN pending : pending[i] = s
                        \/ thread[s] = "running"
                     THEN stream_queue[s] \o << Error, Done >> ELSE stream_queue[s]]

Told ==
  [s \in Streams |-> IF \E i \in DOMAIN pending : pending[i] = s
                     THEN stream_queue[s] \o << Error, Done >> ELSE stream_queue[s]]

Stop ==
  /\ Drained => \A s \in Streams : reader[s] \notin {"opened", "reading"}
  /\ Q!Stop
  /\ stream_queue' = IF worker = None THEN Told ELSE stream_queue
  /\ UNCHANGED << reader, received, abandoned, generated, posted >>

StopReturns ==
  /\ Q!StopReturns
  /\ stream_queue' = Told
  /\ UNCHANGED << reader, received, abandoned, generated, posted >>

-----------------------------------------------------------------------------
(* The client of a stream: the route's generator over _stream_items *)

\* The generator has sent its first event, which takes nothing from the queue, and
\* begins the iteration.
FirstNext(s) ==
  /\ reader[s] = "opened"
  /\ reader' = [reader EXCEPT ![s] = "reading"]
  /\ UNCHANGED << queueVars, stream_queue, received, abandoned, generated, posted >>

Read(s) ==
  /\ reader[s] = "reading"
  /\ stream_queue[s] # << >>
  /\ stream_queue' = [stream_queue EXCEPT ![s] = Tail(@)]
  /\ LET item == Head(stream_queue[s]) IN
     \/ /\ item.type = "content"
        /\ received' = [received EXCEPT ![s] = Append(@, item.n)]
        /\ UNCHANGED reader
     \/ /\ item.type = "done"
        /\ reader' = [reader EXCEPT ![s] = "ended"]
        /\ UNCHANGED received
     \/ /\ item.type = "error"
        /\ reader' = [reader EXCEPT ![s] = "failed"]
        /\ UNCHANGED received
  /\ UNCHANGED << queueVars, abandoned, generated, posted >>

\* The client leaves: GeneratorExit or CancelledError in _stream_items, unless
\* the iteration has not begun: then the generator never runs, and nothing is
\* noticed.
Leave(s) ==
  /\ reader[s] \in {"opened", "reading"}
  /\ reader' = [reader EXCEPT ![s] = "left"]
  /\ abandoned' = [abandoned EXCEPT ![s] = (reader[s] = "reading")]
  /\ UNCHANGED << queueVars, stream_queue, received, generated, posted >>

-----------------------------------------------------------------------------
(* The thread of a stream: _run_stream_in_thread *)

\* Mutant: a chunk is generated while the one before it is on its way.
GenerateAhead(s) ==
  /\ thread[s] = "running"
  /\ posted[s] \in {"nothing", "content"}
  /\ \/ /\ generated[s] < MaxChunks
        /\ generated' = [generated EXCEPT ![s] = @ + 1]
        /\ posted' = [posted EXCEPT ![s] = IF abandoned[s] THEN "done" ELSE "content"]
     \/ /\ \E end \in {"done", "error"} : posted' = [posted EXCEPT ![s] = end]
        /\ UNCHANGED generated
  /\ UNCHANGED << queueVars, reader, stream_queue, received, abandoned >>

\* stream_complete yields a chunk, is exhausted or raises.  A chunk for a client
\* that has left ends the loop.  (One step from the check of job.cancelled to the
\* posting: a client who leaves in between leaves as behind the posting.  What the
\* lifespan does in between matters to close() alone, and is in ChatLifecycle.)
Generate(s) ==
  /\ thread[s] = "running"
  /\ posted[s] = "nothing"
  /\ \/ /\ generated[s] < MaxChunks
        /\ generated' = [generated EXCEPT ![s] = @ + 1]
        /\ posted' = [posted EXCEPT ![s] = IF abandoned[s] THEN "done" ELSE "content"]
     \/ /\ \E end \in {"done", "error"} : posted' = [posted EXCEPT ![s] = end]
        /\ UNCHANGED generated
  /\ UNCHANGED << queueVars, reader, stream_queue, received, abandoned >>

\* Mutant: stream queues are bounded, so that the thread waits for its client.
PutIfRead(s) ==
  /\ thread[s] = "running"
  /\ posted[s] \in {"content", "error"}
  /\ stream_queue[s] = << >>
  /\ stream_queue' = [stream_queue EXCEPT ![s] =
                        Append(@, IF posted[s] = "error" THEN Error ELSE Chunk(generated[s]))]
  /\ posted' = [posted EXCEPT ![s] = IF @ = "error" THEN "done" ELSE "nothing"]
  /\ UNCHANGED << queueVars, reader, received, abandoned, generated >>

\* The event loop runs the put that the thread waits for; after an error comes
\* the `finally`.
Put(s) ==
  /\ thread[s] = "running"
  /\ posted[s] \in {"content", "error"}
  /\ stream_queue' = [stream_queue EXCEPT ![s] =
                        Append(@, IF posted[s] = "error" THEN Error ELSE Chunk(generated[s]))]
  /\ posted' = [posted EXCEPT ![s] = IF @ = "error" THEN "done" ELSE "nothing"]
  /\ UNCHANGED << queueVars, reader, received, abandoned, generated >>

\* Mutant: the `finally` is missing.
EndWithoutDone(s) ==
  /\ posted[s] = "done"
  /\ Q!ThreadEnds(s, "result")
  /\ UNCHANGED streamVars

\* The put of the `finally`, which ends the thread.
PutDone(s) ==
  /\ posted[s] = "done"
  /\ Q!ThreadEnds(s, "result")
  /\ stream_queue' = [stream_queue EXCEPT ![s] = Append(@, Done)]
  /\ UNCHANGED << reader, received, abandoned, generated, posted >>

-----------------------------------------------------------------------------
WorkerStep(w) == Q!WorkerStep(w) /\ UNCHANGED streamVars

ThreadStarts(j) == Q!ThreadStarts(j) /\ UNCHANGED streamVars

\* MLXChatService.complete returns or raises.
CompleteEnds(c) ==
  /\ \E o \in {"result", "error"} : Q!ThreadEnds(c, o)
  /\ UNCHANGED streamVars

StreamThreadStep(s) == Generate(s) \/ Put(s) \/ PutDone(s)

OtherAcquires(u) == Q!OtherAcquires(u) /\ UNCHANGED streamVars

OtherLeaves(u) == Q!OtherLeaves(u) /\ UNCHANGED streamVars

Next ==
  \/ Stop \/ StopReturns
  \/ \E w \in Workers : Start(w) \/ WorkerStep(w)
  \/ \E j \in Chats : ThreadStarts(j)
  \/ \E c \in Completes : Complete(c) \/ CallerCancelled(c) \/ CompleteEnds(c)
  \/ \E s \in Streams : \/ OpenStream(s) \/ FirstNext(s) \/ Read(s) \/ Leave(s)
                        \/ StreamThreadStep(s)
  \/ \E u \in Others : OtherAcquires(u) \/ OtherLeaves(u)

Spec == Init /\ [][Next]_vars

\* As in RerankQueue; the event loop runs what a thread hands over, and a
\* generation makes progress.  Clients need not read: nothing may depend on it.
Fairness ==
  /\ WF_vars(StopReturns)
  /\ \A w \in Workers : WF_vars(WorkerStep(w))
  /\ \A j \in Chats : WF_vars(ThreadStarts(j))
  /\ \A c \in Completes : WF_vars(CompleteEnds(c))
  /\ \A s \in Streams : WF_vars(StreamThreadStep(s))
  /\ \A u \in Others : WF_vars(Q!Holds(gate, u) /\ OtherLeaves(u))

FairSpec == Spec /\ Fairness

-----------------------------------------------------------------------------
(* Properties *)

HasEnd(items) == \E i \in DOMAIN items : items[i].type \in {"done", "error"}

\* What is accepted and not yet finished, stops and restarts included, is bounded:
\* by max_queue_size in the list, and by there being one worker
\* (chat_queue.py:136, :142-149).
UnfinishedIsBounded == Len(pending) <= MaxQueueSize /\ active <= 1

\* A stream that ends without an error brought every chunk of the model, once
\* and in order, however the worker fared meanwhile (chat_queue.py:123, :200-221).
EndedStreamIsWhole ==
  \A s \in Streams : reader[s] = "ended" =>
    /\ thread[s] = "result"
    /\ received[s] = [i \in 1..generated[s] |-> i]

\* The thread and stop() never both end a stream: nothing follows a "done"
\* (chat_queue.py:49-51, :217-221).
OneEndPerStream ==
  \A s \in Streams :
    /\ \A i \in DOMAIN stream_queue[s] :
         stream_queue[s][i].type = "done" => i = Len(stream_queue[s])
    /\ reader[s] = "ended" => stream_queue[s] = << >>

\* A client of a stream looks for an end that no thread is about to bring.
Unfed(s) == /\ reader[s] \in {"opened", "reading"}
            /\ ~HasEnd(stream_queue[s])
            /\ thread[s] # "running"

\* Somebody waits for the queue, and his job is neither queued nor in work.
Forgotten(j) ==
  /\ IF j \in Completes THEN future[j] = "pending" ELSE Unfed(j)
  /\ \A i \in DOMAIN Q!Line : Q!Line[i] # j

\* Nobody is, with graceful shutdowns (proved in ChatQueueProofs).
NobodyForgotten == \A j \in Chats : ~Forgotten(j)

\* However stop() and restarts cut in, somebody is forgotten only when a cancelled
\* worker drops his job at the gate or before a thread has taken it up
\* (chat_queue.py:184): all others are told, by stop() or by the thread that goes on
\* (:46-52, :217-221).
ForgetsOnlyTheJobInHand ==
  [][\A j \in Chats : Forgotten(j)' /\ ~Forgotten(j)
                        => \E w \in cancelled : job[w] = j /\ job'[w] = None]_vars

\* Every call of complete() is answered, if no stop() drops it, although clients of
\* streams before it may read slowly, not at all, or leave
\* (chat_queue.py:172-183, :205-211).
EveryCallAnswered ==
  \A c \in Completes : future[c] = "pending" ~> future[c] # "pending" \/ Forgotten(c)

\* Every stream is fed to its end, if no stop() drops it before it has begun
\* (chat_queue.py:194-221).
EveryStreamFed ==
  \A s \in Streams :
    reader[s] = "reading"
      ~> reader[s] # "reading" \/ HasEnd(stream_queue[s]) \/ Forgotten(s)
=============================================================================
