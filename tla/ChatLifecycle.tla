--------------------------- MODULE ChatLifecycle ---------------------------
(***************************************************************************)
(* MLXChatService and its IdleEvictor (chat.py, idle_evictor.py) up to the *)
(* end of the process: threads that load the model and generate, evictor   *)
(* threads that drop it, and the event loop, which drops it too, in        *)
(* close(), when the lifespan ends.                                        *)
(*                                                                         *)
(* Dropping takes _load_lock and then _generate_lock.  A stream's thread   *)
(* holds _generate_lock while it waits for the event loop to take a chunk  *)
(* (chat_queue.py:211), and close() waits for _generate_lock on the event  *)
(* loop.                                                                   *)
(*                                                                         *)
(* _model and _tokenizer are one variable: the model is there when both    *)
(* are.  What a thread does under a lock and no other can see is one step. *)
(***************************************************************************)
EXTENDS Naturals

CONSTANTS
  Calls,     \* the threads that run the service's generator
  Streams,   \* those among them that a stream of the chat queue started
  Evictors,  \* the evictor's threads; bound: how often one is started
  Loop,      \* the event loop's thread
  None

ASSUME ChatLifecycleAssumption ==
  /\ Streams \subseteq Calls
  /\ Calls \cap Evictors = {}
  /\ Loop \notin Calls \cup Evictors
  /\ None \notin Calls \cup Evictors \cup {Loop}

VARIABLES
  model,          \* _model and _tokenizer, named after the thread that loaded them
  load_lock,      \* who holds _load_lock
  generate_lock,  \* who holds _generate_lock
  pc,             \* where each generating thread is
  local,          \* the model it found
  client,         \* the client of each stream: ChatJob.cancelled is client = "left"
  loop,           \* where the lifespan is
  idle,           \* idle_seconds have passed since _last_used
  evictor,        \* where each evictor thread is
  thread,         \* IdleEvictor._thread
  evictorStopping \* IdleEvictor._stopping

callVars == << pc, local, client >>
evictorVars == << idle, evictor, thread, evictorStopping >>
vars == << model, load_lock, generate_lock, loop, callVars, evictorVars >>

TypeOK ==
  /\ model \in Calls \cup {None}
  /\ load_lock \in Calls \cup Evictors \cup {Loop, None}
  /\ generate_lock \in Calls \cup {None}
  /\ pc \in [Calls -> {"new", "look", "seen", "load", "loading", "generate", "generating",
                       "checked", "handing", "late", "ending", "done"}]
  /\ local \in [Calls -> Calls \cup {None}]
  /\ client \in [Calls -> {"reading", "left", "unnoticed"}]
  /\ loop \in {"serving", "stopping", "joining", "evict", "dropping", "closed"}
  /\ idle \in BOOLEAN
  /\ evictor \in [Evictors -> {"unborn", "sleeping", "evict", "dropping", "ended"}]
  /\ thread \in Evictors \cup {None}
  /\ evictorStopping \in BOOLEAN
  /\ \A c \in Calls : /\ load_lock = c <=> pc[c] = "loading"
                      /\ generate_lock = c <=> pc[c] \in {"generating", "checked", "handing", "late"}
  /\ \A e \in Evictors : load_lock = e <=> evictor[e] = "dropping"
  /\ load_lock = Loop <=> loop = "dropping"

Init ==
  /\ model = None
  /\ load_lock = None /\ generate_lock = None
  /\ pc = [c \in Calls |-> "new"]
  /\ local = [c \in Calls |-> None]
  /\ client = [c \in Calls |-> "reading"]
  /\ loop = "serving"
  /\ idle = TRUE
  /\ evictor = [e \in Evictors |-> "unborn"]
  /\ thread = None
  /\ evictorStopping = FALSE

InProgress(c) == pc[c] \notin {"new", "done"}

\* The loop is inside close() and runs nothing else.
LoopBusy == loop \in {"joining", "evict", "dropping"}

-----------------------------------------------------------------------------
(* _load and touch() *)

Goto(c, from, to) == pc[c] = from /\ pc' = [pc EXCEPT ![c] = to]

\* The generator is gone; what is left for a stream's thread is to hand over the
\* last items, which hold no lock: the final chunk or an error, and "done".
End(c) == pc' = [pc EXCEPT ![c] = IF c \in Streams THEN "ending" ELSE "done"]

\* The queue's one worker waits for a thread that it has started, and holds the
\* inference gate for it; stop() cancels the worker, and no call starts another.
Begin(c) ==
  /\ loop = "serving"
  /\ \A d \in Calls : ~InProgress(d)
  /\ Goto(c, "new", "look")
  /\ UNCHANGED << model, load_lock, generate_lock, loop, local, client, evictorVars >>

Look(c) ==
  /\ \/ model # None /\ Goto(c, "look", "seen")
     \/ model = None /\ Goto(c, "look", "load")
  /\ UNCHANGED << model, load_lock, generate_lock, loop, local, client, evictorVars >>

Found(c) == /\ local' = [local EXCEPT ![c] = model]
            /\ idle' = FALSE

\* `return self._model, self._tokenizer` reads them again.
ReturnSeen(c) ==
  /\ Goto(c, "seen", "generate")
  /\ Found(c)
  /\ UNCHANGED << model, load_lock, generate_lock, loop, client, evictor, thread, evictorStopping >>

\* Under the lock the model is looked for again.
LockLoad(c) ==
  /\ load_lock = None
  /\ \/ /\ model # None /\ Goto(c, "load", "generate")
        /\ Found(c)
        /\ UNCHANGED << load_lock, evictor, thread, evictorStopping >>
     \/ /\ model = None /\ Goto(c, "load", "loading")
        /\ load_lock' = c
        /\ UNCHANGED << local, evictorVars >>
  /\ UNCHANGED << model, generate_lock, loop, client >>

\* Mutant: a start() that leaves _stopping as stop() set it.
StartStillStopping ==
  \/ /\ thread = None
     /\ \E e \in Evictors : /\ evictor[e] = "unborn"
                            /\ evictor' = [evictor EXCEPT ![e] = "sleeping"]
                            /\ thread' = e
     /\ UNCHANGED evictorStopping
  \/ thread # None /\ UNCHANGED << evictor, thread, evictorStopping >>

\* IdleEvictor.start(): nothing when there is a thread.
StartEvictor ==
  \/ /\ thread = None
     /\ \E e \in Evictors : /\ evictor[e] = "unborn"
                            /\ evictor' = [evictor EXCEPT ![e] = "sleeping"]
                            /\ thread' = e
     /\ evictorStopping' = FALSE
  \/ thread # None /\ UNCHANGED << evictor, thread, evictorStopping >>

\* load() returns a model, start() and touch() follow; or something is missing.
Load(c) ==
  /\ pc[c] = "loading"
  /\ load_lock' = None
  /\ \/ /\ model' = c
        /\ local' = [local EXCEPT ![c] = c]
        /\ idle' = FALSE
        /\ StartEvictor
        /\ pc' = [pc EXCEPT ![c] = "generate"]
     \/ End(c) /\ UNCHANGED << model, local, evictorVars >>
  /\ UNCHANGED << generate_lock, loop, client >>

-----------------------------------------------------------------------------
(* stream_complete, and the thread of a stream around it *)

\* Without a tokenizer the prompt cannot be counted, and the lock is not reached.
LockGenerate(c) ==
  /\ \/ /\ local[c] # None /\ generate_lock = None
        /\ Goto(c, "generate", "generating")
        /\ generate_lock' = c
     \/ /\ local[c] = None /\ pc[c] = "generate" /\ End(c)
        /\ UNCHANGED generate_lock
  /\ UNCHANGED << model, load_lock, loop, local, client, evictorVars >>

\* Mutant: the thread does not ask whether the client is still there.
CheckNobody(c) ==
  /\ pc[c] = "generating" /\ c \in Streams
  /\ pc' = [pc EXCEPT ![c] = "checked"]
  /\ UNCHANGED << model, load_lock, generate_lock, loop, local, client, evictorVars >>

\* A chunk for a stream: if the client is known to have left, the loop over the
\* generator is over, which closes it.
Check(c) ==
  /\ pc[c] = "generating" /\ c \in Streams
  /\ IF client[c] = "left" THEN generate_lock' = None /\ End(c)
                           ELSE pc' = [pc EXCEPT ![c] = "checked"] /\ UNCHANGED generate_lock
  /\ UNCHANGED << model, load_lock, loop, local, client, evictorVars >>

\* Else the chunk goes to the event loop, and the thread waits for it to be put.
\* The client may have left, and the lifespan have begun to end, since the check.
HandOver(c) ==
  /\ pc[c] = "checked"
  /\ pc' = [pc EXCEPT ![c] = IF loop = "serving" THEN "handing" ELSE "late"]
  /\ UNCHANGED << model, load_lock, generate_lock, loop, local, client, evictorVars >>

\* The generator is exhausted or raises, and leaves its `with`.
Exhaust(c) ==
  /\ pc[c] = "generating"
  /\ generate_lock' = None
  /\ End(c)
  /\ UNCHANGED << model, load_lock, loop, local, client, evictorVars >>

\* The event loop takes what the thread hands over.
Put(c) ==
  /\ ~LoopBusy
  /\ \/ Goto(c, "handing", "generating") \/ Goto(c, "late", "generating")
     \/ Goto(c, "ending", "done")
  /\ UNCHANGED << model, load_lock, generate_lock, loop, local, client, evictorVars >>

\* A client leaves.  When it has not begun to read, nobody notices (see
\* ChatQueue!Leave).
Leave(s) ==
  /\ InProgress(s) /\ client[s] = "reading" /\ loop = "serving"
  /\ client' \in {[client EXCEPT ![s] = c] : c \in {"left", "unnoticed"}}
  /\ UNCHANGED << model, load_lock, generate_lock, loop, pc, local, evictorVars >>

-----------------------------------------------------------------------------
(* IdleEvictor *)

TimePasses ==
  /\ ~idle
  /\ idle' = TRUE
  /\ UNCHANGED << model, load_lock, generate_lock, loop, callVars, evictor, thread, evictorStopping >>

\* The thread wakes: it ends, or finds the service idle and calls _evict_model.
Wake(e) ==
  /\ evictor[e] = "sleeping"
  /\ \/ evictorStopping /\ evictor' = [evictor EXCEPT ![e] = "ended"]
     \/ ~evictorStopping /\ idle /\ evictor' = [evictor EXCEPT ![e] = "evict"]
  /\ UNCHANGED << model, load_lock, generate_lock, loop, callVars, idle, thread, evictorStopping >>

EvictLock(e) ==
  /\ evictor[e] = "evict" /\ load_lock = None
  /\ load_lock' = e
  /\ evictor' = [evictor EXCEPT ![e] = "dropping"]
  /\ UNCHANGED << model, generate_lock, loop, callVars, idle, thread, evictorStopping >>

\* Both locks are free again when the model is dropped.
DropModel ==
  /\ generate_lock = None
  /\ model' = None
  /\ load_lock' = None
  /\ UNCHANGED generate_lock

Evict(e) ==
  /\ evictor[e] = "dropping"
  /\ DropModel
  /\ evictor' = [evictor EXCEPT ![e] = "sleeping"]
  /\ UNCHANGED << loop, callVars, idle, thread, evictorStopping >>

-----------------------------------------------------------------------------
(* The lifespan and close() *)

\* Requests are over, or their clients have been made to leave; a call of
\* complete() may run on, its thread cannot be stopped.
Stop ==
  /\ loop = "serving" /\ loop' = "stopping"
  /\ \A s \in Streams : InProgress(s) => client[s] # "reading"
  /\ UNCHANGED << model, load_lock, generate_lock, callVars, evictorVars >>

\* The queues have been awaited, in several turns of the loop, which takes its work
\* in order: what was handed over before has been put, and what came late may not
\* have been.  Then close() runs: stop() asks the evictor ...
Close ==
  /\ loop = "stopping" /\ loop' = "joining"
  /\ \A s \in Streams : pc[s] # "handing"
  /\ evictorStopping' = TRUE
  /\ UNCHANGED << model, load_lock, generate_lock, callVars, idle, evictor, thread >>

\* ... to end, waits for it 5 seconds, or not at all, and forgets it ...
Joined ==
  /\ loop = "joining" /\ loop' = "evict"
  /\ thread' = None
  /\ UNCHANGED << model, load_lock, generate_lock, callVars, idle, evictor, evictorStopping >>

\* ... and _evict_model follows.
CloseLock ==
  /\ loop = "evict" /\ load_lock = None
  /\ loop' = "dropping"
  /\ load_lock' = Loop
  /\ UNCHANGED << model, generate_lock, callVars, evictorVars >>

Closed ==
  /\ loop = "dropping" /\ loop' = "closed"
  /\ DropModel
  /\ UNCHANGED << callVars, evictorVars >>

-----------------------------------------------------------------------------
LifespanStep == Close \/ Joined \/ CloseLock \/ Closed

EvictorStep(e) == Wake(e) \/ EvictLock(e) \/ Evict(e)

CallStep(c) == \/ Look(c) \/ ReturnSeen(c) \/ LockLoad(c) \/ Load(c)
               \/ LockGenerate(c) \/ Check(c) \/ HandOver(c) \/ Exhaust(c) \/ Put(c)

Next ==
  \/ TimePasses \/ Stop \/ LifespanStep
  \/ \E e \in Evictors : EvictorStep(e)
  \/ \E c \in Calls : Begin(c) \/ CallStep(c)
  \/ \E s \in Streams : Leave(s)

Spec == Init /\ [][Next]_vars

\* Threads run, time passes and a generation ends, though between its chunks it
\* waits.  close() gets the lock in the end: an evictor sleeps before it takes it
\* again.
Fairness ==
  /\ WF_vars(TimePasses) /\ WF_vars(LifespanStep) /\ SF_vars(CloseLock)
  /\ \A e \in Evictors : WF_vars(EvictorStep(e))
  /\ \A c \in Calls : WF_vars(CallStep(c)) /\ SF_vars(Exhaust(c))

FairSpec == Spec /\ Fairness

-----------------------------------------------------------------------------
(* Properties *)

\* A thread that may still hand a chunk over behind the beginning of the shutdown:
\* its client left between its check and its hand-over, or unnoticed.
HandsOverLate(s) == \/ pc[s] \in {"checked", "late"}
                    \/ client[s] = "unnoticed" /\ InProgress(s) /\ pc[s] # "ending"

\* close() comes back, so that the lifespan ends, although the event loop waits in
\* it for locks that streams hold while they wait for the event loop, and evictors
\* hold while they wait for streams -- unless a stream hands a chunk over late: then
\* its thread and the event loop may wait for each other for ever (chat.py:187-189,
\* :211-219; chat_queue.py:209-211).
CloseReturns ==
  (loop = "stopping" /\ \A s \in Streams : ~HandsOverLate(s)) ~> loop = "closed"

\* What a late thread loads behind close() is unloaded again, and in the end
\* nothing stays in memory (idle_evictor.py:27-40, :46-51; chat.py:187-189).
NothingStaysLoaded == loop = "closed" ~> [](model = None)
=============================================================================
