# TLA+ models of the Jina v5 MLX server

This directory models the gateway process of the repository -- the queues that
bring HTTP requests to the MLX models one call at a time -- as TLA+
specifications, checks them with TLC on small instances, and proves their main
invariants with TLAPS for every instance.

## 1. The system

One asyncio process (`server.py`) serves embeddings, reranking and chat. Its
parts, their state and what they do:

| Part | State | Operations | What is hard | What makes it correct |
|---|---|---|---|---|
| Inference gate (`server.py:50`, one `asyncio.Lock`) | owner, line of waiters | acquire, release, cancellation of a waiter | users of two (three, with local chat) queues, cancelled waiters | one holder, no leak, first come first served |
| `RerankQueue` (`rerank_queue.py`) | `_pending`, `_worker_task`, `_active_jobs`, `_stopping`, futures | `start`, `stop`, `rerank`, worker loop | cancellation at each `await`, late calls, restart by `rerank()` | one worker, FIFO, every caller answered, exact counts |
| `DynamicBatcher` (`batching.py`) | the same, per text | `start`, `stop`, `embed`, batch selection, wait for a full queue | batches mix callers; timeout, notification and cancellation race | limits of a batch, own vectors, no starvation |
| `ChatQueue` (`chat_queue.py`) | the same, bounded; one async queue per stream | `complete`, `open_stream`, worker, generation thread | a client leaves, a full queue, thread to loop hand-over | bound, a stream ends once and whole, nobody forgotten but by a forced `stop()` |
| Lifespan (`server.py:134-153`) | which parts run | start both queues, stop in opposite order, close services | requests that arrive while it ends; calls in threads | nothing runs afterwards, and it ends |
| `MLXMemoryManager` (`mlx_memory.py`) | MLX's cache | `trim_if_idle`, `configure` | called by each queue with its own counts | an idle process has a trimmed cache |
| Services (`modeling.py`, `reranking.py`, `chat.py`) and `IdleEvictor` | model, tokenizer, locks, last use | `_load`, `embed`/`rerank`/`stream_complete`, `_evict*`, `close` | eviction thread against inference threads | a call never sees a dropped model; unloading happens |
| `ChatProxy` (`chat_proxy.py`) | `_active`, the httpx client | `complete`, `open_stream`, `_iter_stream`, `close` | a stream may be abandoned before, in and between its reads | no request in progress is missing from the count |
| `RequestMetrics` (`metrics.py`) | event times per workload | `record`, `snapshot` | the windows, and pruning by others' requests | counts of the last hour and day |
| Schema (`schema.py`) | none | validation, task of an embedding | four fields that say the same, empty values | what is passed on is what was asked for |
| Reranker (`reranking.py`) | none of its own | prompt, hidden states, scores, ranking | positions in a prompt against documents | every document its own score |
| Routes (`routes.py`, `server.py`, `main.py`) | which chat client there is | one handler per route | when a request is counted, which errors get which status | every request is answered, and recorded once |

The arithmetic of the models, `scripts/`, `launchd/`, and the parts of `main.py`
that read arguments and start uvicorn are not modelled.

The queues interact through the gate and through MLX's cache only. A request
task calls `rerank()` or `embed()`, which appends jobs and awaits their futures; a
worker task takes jobs, enters the gate, hands the model call to a thread
(`asyncio.to_thread`) and settles the futures.

`PROJECT.json` lists the hazards of this code, at their lines, with the
properties that watch them.

## 2. Modules

| Module | Models | Role |
|---|---|---|
| `InferenceGate` | `asyncio.Lock`, from its use here | operators on the line of a gate |
| `OrderedService` | -- | what a one-worker queue promises: one line, answers in order |
| `RerankQueue` | `rerank_queue.py`, `trim_if_idle` | the queue with its worker, threads and restarts |
| `DynamicBatcher` | `batching.py` | the batcher with batch selection |
| `ChatQueue` | `chat_queue.py` | the bounded queue and its streams; the worker is an instance of `RerankQueue`'s |
| `StopStream` | `chat.py`, `stream_complete` | text to chunks, with stop sequences held back |
| `ModelLifecycle` | `modeling.py` and `reranking.py` (services), `idle_evictor.py` | loading, use and eviction of a model by threads, for both services |
| `ChatLifecycle` | `chat.py` (service), `idle_evictor.py`, end of the lifespan | loading, generation, eviction and `close()` under two locks |
| `Gateway` | `server.py` lifespan | both queues as each other's environment, under one gate and cache |
| `ChatProxy` | `chat_proxy.py` | a forwarded request from the call to the end of its generator, and the active count |
| `RequestMetrics` | `metrics.py` | events, pruning, windows |
| `RequestSchema` | `schema.py` | validation and the task of an embedding request, as operators |
| `ListwiseReranker` | `reranking.py` (reranker), answer of the rerank route | prompt, gathering, ranking, as operators |
| `Routes` | `routes.py`, the app | handlers, which join the four modules above; the queues are their environment |
| `MC*` | -- | instances for TLC; `MCChatService` runs `ChatLifecycle` and `StopStream` in one |
| `InferenceGateProofs`, `RerankQueueProofs`, `DynamicBatcherProofs`, `GatewayProofs`, `ChatQueueProofs`, `ModelLifecycleProofs`, `ChatServiceProofs`, `RoutesProofs` | -- | TLAPS proofs |

### How asyncio is modelled

An action is what one task does from one suspension to the next: tasks of one
event loop interleave only at an `await` that really suspends. In particular

- the lock of `self._condition` is never held across a suspension, so `async with
  self._condition` never suspends; `rerank()` up to `await future`, and `embed()` up
  to `gather`, are single actions, the hidden `start()` included;
- after a call returns, the worker settles the future, releases the gate, trims,
  takes the next job and enters the gate if it is free, all in one action
  (`FinishJob`, `FinishBatch`);
- `Task.cancel()` makes the next resumption raise `CancelledError`, even if what
  the task awaited is done: a worker in `cancelled` can only take its `Cancel...`
  action;
- `Condition.notify_all` moves the sleeping worker from `waiting` (or `filling`) to
  `notified` (or `refilled`); it looks at the queue again when it runs;
- the gate is the line of the tasks inside `async with gate`; its head holds the
  lock. `asyncio.Lock` wakes waiters in order and does not let a newcomer pass a
  waiter that was woken, so a release is a hand-over;
- cancelling a task that awaits `asyncio.to_thread` withdraws a call that no
  thread has taken up (`dropped`), and leaves one that runs to its thread.

`stop()` sets `_stopping` and cancels the worker in one step, so no worker ever
reads `_stopping = TRUE`: `TakeNextJob` and `NextBatch` have `~stopping` as a guard,
and the branch of the loop that ends it is not reached.

`Drained = TRUE` stands for uvicorn's graceful shutdown: the lifespan ends once
every request is answered, and no request follows. `Drained = FALSE` lets `stop()`
come at any time, as other servers, tests, or users of the classes may have it.
`CallerCancelled` is the cancellation of the task that awaits the answer.

### State and code

`pending`, `worker`, `active`, `stopping` are `_pending`, `_worker_task`, `_active_jobs`
and `_stopping`; `future` holds the state of each job's future ("none" before the
call); `pc` says where a worker task is suspended; `job` or `batch` is the local
variable of `_process_job` or `_process_batch`; `thread` is the state of the
`to_thread` call; `stopCall` says that `stop()` awaits its worker; `cache` says whether
the last model call left buffers in MLX's cache.

`ChatQueue` instantiates `RerankQueue` for what the two classes share -- `start()`,
`stop()` up to its treatment of streams, the worker loop, the gate -- with a cache
that is always clean, since `chat_queue.py` trims none. A stream has no future: its
`future` stays "none". `reader` is where the client's iteration is: "opened" until the
first `__anext__`, because a generator that has not begun notices nothing when it
is dropped. `posted` is the item that the generating thread has handed to the event
loop and waits for. `Forgotten(j)` is a client that waits although its job is in nobody's
hands. `MaxChunks` stands for `max_tokens`. `max_queue_size = 0`, which a
test uses to have every call refused, is left out.

`ModelLifecycle` has one action per access of a thread to the shared attributes, as
Python's threads may switch between any two: `Begin` is the check in the first line
of `_load`, `ReadModel` and `ReadTokenizer` are its `return`. `service` says which of the
two services it is: what the tokenizer is to the embedding service, the token
counter is to the rerank service, except that `_load` looks for the tokenizer too
and reads it, and that the counter is looked up after the inference. Time is one bit:
whether `idle_seconds` have passed since the last `touch()`. A model, and the tokens
that go with it, are named after the call that loaded them. `Ordinary = TRUE`
restricts it to what the gate normally admits.

`ChatLifecycle` is coarser: what a thread does under a lock, where no other looks, is
one step. It has the event loop's thread as one more user of the locks, because
`close()` runs on it, and while it does (`LoopBusy`) nothing that a stream hands over is
taken. `Check` is the look at `job.cancelled` (`chat_queue.py:209`) and `HandOver` the
call behind it (`:211`); between the two the client may leave, the worker be cancelled and
the shutdown begin. A thread in `.result()` holds `_generate_lock`: it is `handing` if it
handed its chunk over while the app was serving, `late` if the lifespan had begun to end;
`ending` is the same with the generator closed. `Close` comes several turns of the event
loop after `Stop`, and the loop takes its callbacks in order, so that what was handed over
before has been put; what came late may not have been. `client` is `reading`, `left`
(`job.cancelled` is set) or `unnoticed` (left before its first `__anext__`).

`DynamicBatcher` abstracts a text to its token count, and a vector to the text and
the key it was computed for. `batch_timeout_ms` is positive, and the timeout may
come at any time. `length_tolerance` is an exact percentage: the rounding of
Python's floats at the borders of the tolerance is not modelled.

`ChatProxy` gives every client one request, whose place is `upstream`. `_iter_stream`
is a generator with a `finally`, and where it stands when it is dropped decides what
becomes of it: before its first line it just goes (`leaked`), at a `yield` the event
loop's hook for asynchronous generators closes it (`orphaned`, `Finalize`), and at an
`await` it is the task that is cancelled (`StreamEnds`). What raises in front of
`_decrement_active()` leaves the request counted: an `__aenter__()` that fails with no
`httpx.RequestError` (`ConnectFails`), an `__aexit__()` that raises or is cancelled
(`RefusalLeaks`, `CloseFails`).

`Routes` gives each client one request, a record of its fields or `None`; `request` and
`backend` (the proxy, the local queue, or no chat at all) never change. `waiting` are
the requests in the hands of a queue, which answers in its own time: the modules of
the queues say that it does. `Embeddings` has two outcomes, for what `embed()` does up to
its first suspension: the texts are queued, and `result` is what the batcher has been
asked, or one of them is too long, and the answer is an error in the same step. Of a
rerank request `result` is the ranking. `at` is history: when the handler recorded the
request, or answered the chat. In `ListwiseReranker` a text is a number and the hidden
state at a marker is the text before it, so that a score tells whose it is. Marker
tokens inside a text are left out; `time.time()` is never set back.

Definitions under a comment that says *Mutant* are not the code: each is a
plausible bug of the definition that follows it, by which the properties are shown
to be sensitive to the code.

## 3. Runs

| Run | Instance | Shows |
|---|---|---|
| `rerank_forced` | 3 calls, 2 workers (one restart), 1 other user of the gate, `stop()` at any time | one worker, exact count, gate never leaked, one place per job, `stop()` ends, only the caller of the job in hand can be forgotten, calls answered in order (refinement of `OrderedService`) |
| `batch_selection` | 3 calls of 1 or 3 texts, batches of 3 and 24 tokens, 2 workers, `stop()` at any time | types, exact count of active texts, limits, own vectors, oldest job in every batch, an oversize text leaves nothing, a full queue is noticed |
| `chat_queue` | 1 `complete()`, 1 stream of up to 2 chunks, a queue of 1, 2 workers, 1 other user, `stop()` at any time | types, bound, one end per stream, ended streams are whole, only the client of the job in hand can be forgotten, all others are answered or fed |
| `chat_service` | 1 stream and 2 `complete()`, one at a time, 2 evictor threads, `close()`; all texts of up to 6 letters over 2, in pieces of 0 to 2, 7 values of `stop` | `close()` returns unless a chunk is handed over late, nothing stays loaded; nothing of a stop sequence is yielded while generating, the cut is exactly at the first |
| `stop_stream_rest` | the texts of `chat_service` | *violation*: see findings |
| `model_lifecycle` | 3 concurrent calls of either service, evictions at any time | tokens and model agree, no double load, unloading happens, calls end |
| `model_lifecycle_usage` | 2 calls, one after the other, shorter than `idle_seconds` | *violation*: see findings |
| `gateway_drained` | 2 rerank and 2 embedding calls of up to 2 texts, batches of 2 | model calls exclude each other, nobody forgotten by either queue, shutdown complete, idle cache trimmed, every call answered, the lifespan ends |
| `gateway_overlap` | 1 + 1 calls | *violation*: see findings |
| `routes` | 3 clients; each kind of request alone and three crowds; every way to configure chat; `HOUR = 1`, `DAY = 2`, a clock up to 3 | every record counted once, no proxied request in progress uncounted, batcher asked for what was asked for, rankings complete and in order, every request ends |
| `stats_accepted`, `active_leak` | the same | *violations*: see findings |

The bounds: three jobs are the fewest with one in the worker's hands, one waiting
and one arriving, two workers the fewest with a restart, and the hand-over of the
gate needs one other user. `chat_service` needs one evictor thread, and a second
that a late load starts behind `close()`; one stream is enough, since the worker runs one
thread at a time and none is started behind it. Its two halves share no variable, and in
each behaviour one of them moves (`moving`). In `chat_queue` the one call and the one
stream stand before or behind each other, in a queue that has room for one of them. In `batch_selection` the inputs are chosen so that a job
within the tolerance does not fit while a later one does, a text is truncated to
its max_length, keys differ, and a call is rejected for its second text. The
numbers of workers and of evictor threads bound restarts, and `MaxTime` the clock: the
guards contain no other bound. In `routes` one client alone sends each request that
the rules of `schema.py` tell apart, and every list of up to three documents of three
scores; counts, pruning and streams need several clients but only one kind of request
each, which the crowds have. A clock up to 3 is the least in which an event leaves the
hour, the day, and `events`.

Fairness: the event loop resumes every task that can run (weak fairness of each
worker's steps and of `stop()`), its timers fire (`Timeout`), a model call that runs
ends, with a result or an error, and so does every other use of the gate. Calls,
cancellations and shutdowns are not fair: they need not happen. Nor is the client of
a stream, who may stop reading: `EveryCallAnswered` of `ChatQueue` says that this
holds up nobody else. Weak fairness is
enough for the gate because its line is first come, first served. Python's locks
promise no order: `ChatLifecycle` and `ModelLifecycle` assume, with strong fairness,
that whoever asks for `_load_lock` gets it though an evictor takes it now and again,
since that sleeps in between. A generation ends, though it pauses between its chunks
(strong fairness of `Exhaust`: `max_tokens` is finite). In `Routes` the server's steps
for each client are weakly fair: the queues return, httpx answers or times out, and
the event loop closes what was dropped. What clients do, and time, are not fair, so a
stream whose client neither reads nor goes may stay open.

### Findings

- `gateway_overlap`: a worker that `stop()` cancels in the middle of a call releases
  the gate although the thread goes on (`rerank_queue.py:95`), so the batcher, which is
  stopped later, starts a second model call: against `README.md:465` and the assertion of `tests/test_rerank_queue.py:183`. With
  a graceful shutdown, and callers that do not give up, it does not happen
  (`gateway_drained`).
- `model_lifecycle_usage`: `IdleEvictor` decides under its lock and evicts after it
  (`idle_evictor.py:48-51`). A call that begins in between loses the token counter
  while it runs and reports words for tokens, against `README.md:253`. The same
  race lets `_load` return `None` (`reranking.py:319`): that call fails.
- `stop_stream_rest`: when a stop sequence ends the generation, the code behind the
  loop (`chat.py:166`) yields the rest of the text, which begins with the stop
  sequence; `README.md:265` promises OpenAI's contract. Up to the `break` the output
  is right (`chat_service`).
- `stats_accepted`: `README.md:441` says that `requests_1h` counts accepted requests,
  and `:458-459` that an oversize input is rejected before it enters the queue. The
  handler records first (`routes.py:30`) and `embed()` looks then (`batching.py:91-97`), so
  that the rejected request counts. What the stats do count is `RecordsAreCountedOnce`.
- `active_leak`: `README.md:444` says that `active` counts the items being processed.
  `open_stream` uncounts a request for `httpx.RequestError` only (`chat_proxy.py:74-77`), a
  stream that nobody begins to read never reaches its `finally` (`:106-121`), and an
  `__aexit__()` that raises, or is cancelled, goes past the uncounting behind it
  (`:82-83`, `:120-121`). Such a request stays counted for ever. The count is never too low
  (`ActiveCoversProgress`), and a count of 0 is exact (`ZeroMeansIdle`).
- While stating `ForgetsOnlyTheJobInHand`: a worker cancelled in the middle of a job
  leaves the job's future pending for ever, or its stream without an end, because
  `except Exception` does not catch `CancelledError` (`rerank_queue.py:106`,
  `batching.py:184`, `chat_queue.py:184`), while "unfinished" counts nothing any more.
  The properties say that nobody else is forgotten with forced shutdowns, and nobody
  with graceful ones (`NobodyForgotten`).
- While stating `CloseReturns`: `close()` blocks the event loop on `_generate_lock`
  (`chat.py:213`), and a stream's thread holds that while it waits for the event loop
  (`chat_queue.py:211`), so that the two can wait for each other for ever. Mostly
  `ChatJob.cancelled` ends the generation of a client that has left. But the client may
  leave, the worker be cancelled and `close()` begin between the thread's look at that
  flag (`:209`) and its hand-over; and a client that leaves before its first `__anext__`
  sets no flag (`:119-133`). `CloseReturns` is about the shutdowns in which no stream is in
  either state (`HandsOverLate`); without that condition TLC finds both deadlocks. No
  document promises that the lifespan ends, so that there is no run for it.
- While stating `ShutdownIsComplete`: an embedding call that has failed for one text
  is answered at once, and its other texts stay in work; a graceful shutdown may
  cancel that work and leave its thread running. The property says so.
- While stating `EmbeddingIsAsAsked`: an empty `task_type` hides `input_type` and `model`,
  and the task is `retrieval.passage` (`schema.py:154-165`). `FirstHint` follows the code.
- While stating `IdleModelIsUnloaded`: an embedding model whose tokenizer fails to load
  stays in memory, and if it was the first no evictor runs to drop it
  (`modeling.py:146-149`). The property is about complete models.

## 4. Proofs

Every safety property that a passing run checks is stated by a theorem, so that it
holds for every value of the constants and not only in the runs' instances. The
proofs start from the named assumptions of the modules: any sets of jobs, users,
calls and clients, finite where something is counted, any lengths, limits and bounds
that the code accepts. `PROJECT.json` lists the theorems, and the property that each
of them states.

*The gate.* `InferenceGateProofs`: what joining and leaving the line do to it.

*The rerank queue.* `RerankQueueProofs`, for graceful and forced shutdowns:
`TypeCorrect`, `AtMostOneWorker`, `GateIsNeverLeaked`, `ActiveCountsBusyWorkers`. The
inductive invariant `IInv`
joins `TypeOK` and `GateHeldWhileBusy` with

- `WorkerInv`: `_worker_task` names the only live worker, a cancelled current worker
  implies `stopping`, and `stop()` awaits only when there is a worker. Without it a
  second worker could be in a job and the count would not be 0 or 1;
- `JobInv`: a worker has a job exactly while it is busy, and is at the head of the
  gate while it calls the model: needed for the step that releases the gate;
- `ActiveInv`: the count is 1 if the current worker is busy and 0 otherwise: the
  inductive form of `ActiveIsExact`, whose cardinality follows at the end.

Both ways into the loop of `_run` share one lemma, `TakeNextJobKeepsIInv`.

`QueueIsOrderedService` (`Spec => ImplementsOrderedService`) maps the line of the
abstract service to the job in the worker's hands followed by `_pending`. The steps
that close the queue need `CloseInv` beside `IInv`: without a worker there is no queue,
so that a `stop()` that finds none has nobody to cancel; `stop()` awaits only while
`_stopping` is set; and after a graceful `stop()` nobody is pending. Lemmas compute the
line before and after a step (`JobAndPending`, `HeadAndRest`, `LineIs`), and
`NextIsAbstract` maps each action to a step of the service or to a stutter. `LineIsExact`
proves of the service that a call stands in the line once, and that whoever waits
stands in it unless shutdowns are forced; through the refinement these are
`NoJobTwice` (`JobHasOnePlace`) and `NobodyIsForgotten` (`NoCallerForgotten`, assuming
`Drained`). The action property `ForgetsOnlyTheJobInHand` needs no `Drained`
(`OnlyTheJobInHandIsForgotten`): `StepServes` says of each step which job it takes off the
line, and that job is settled unless a cancelled worker drops it (`Serves`, `Drops`).

*The batcher.* `DynamicBatcherProofs`, with five invariants. `IInv` carries the worker
and gate parts of the rerank queue's over to batches and joins `FullQueueIsNoticed`,
which needs them: only the current worker may sleep, so that waking it is enough
(`NoFullQueueIsMissed`, `OneBatchAtATime`). `FutureInv` says that a call that was not
made, or was rejected, has no futures (`RejectedCallLeavesNothing`).
`TextInv` says what every text in the queue and in a batch is, and what a batch may
hold: it rests on lemmas about the loop of `_select_batch_locked`, which is a recursive
function. What each round keeps holds behind the loop (`Recursion`, `Induction`, from
the least round that breaks it), and so a batch has texts of one key only, keeps
`max_batch_size` and `max_batch_tokens`, leaves the others in their order, and begins
with the oldest: `BatchesKeepTheirLimits`, `OldestJobIsServed`, `EverybodyGetsHisOwn`,
`TypeCorrect`. `CountInv` is to `ActiveCountsTexts` what `ActiveInv` is above, with the size
of the batch for 1. `DrainInv`, for graceful shutdowns, says where the texts are that
somebody waits for (`NoTextIsForgotten`).

*The lifespan.* `GatewayProofs`: to one queue, the steps of the other are those of
"others" at the gate (`QueueUsesGate`), which gives `QueuesCompose` -- every behaviour of
the gateway is one of each queue -- and so the theorems of both: `GatewayServesInOrder`
(the rerank queue still refines `OrderedService`) and `NobodyIsForgotten`. What no queue
can know by itself, with graceful shutdowns, is in four invariants over both:
`LifespanInv` (which queue is stopped in which phase of the lifespan, and that a second
batcher is never started), `RerankCallInv` and `EmbedCallInv` (a model call belongs to a
worker that awaits it, but for the batcher's last, which a shutdown may leave behind)
and `CacheInv` (a gateway that serves nobody has a clean cache). They give `OneModelCallAtATime`,
`NothingIsLeftRunning` and `CacheIsTrimmedWhenIdle`.

*The chat queue.* `ChatQueueProofs`: `ChatQueueIsRerankQueue` shows that `ChatQueue`
implements `RerankQueue`. A stream has no future, so the mapping gives it one
(`Awaited`): it is pending until there is something for its client, and then, or when
the client leaves, it is as if its caller had given up. `ChatsServedInOrder` follows
through `QueueIsOrderedService`. `StreamInv` is about what the worker of `RerankQueue` knows
nothing of: nobody touches a stream before its thread (`FreshInv`), what the thread has
generated, posted and queued so far (`ThreadInv`), and what the client still gets
(`ClientInv`). The two halves need each other: that `stop()` never tells a stream which
its thread still feeds is a fact about the line. They give `EndedStreamsAreWhole`,
`StreamsEndOnce` and, with graceful shutdowns, `NobodyIsForgotten`;
`OnlyTheJobInHandIsForgotten` is for all shutdowns, and `JobsAreBounded` is
`UnfinishedIsBounded`.

*The models.* `ModelLifecycleProofs`: `TypeCorrect`, `TokensNeverOutliveModel`,
`NoDoubleLoad`, for both services. Who holds the lock follows from where the threads
are (`TypeOK`). `TokensInv` says how the tokens lag behind the model while it is held:
behind a load there are none yet, and behind a drop they are still there. Without it a
thread could find a model again when it loads.

*The chat service.* `ChatServiceProofs`, first of its text, for all stop sequences and
all ways to cut a text into pieces: `TextInv` says that what was yielded is the
text but for its last letters (`OutputInv`), which are so many that a stop sequence
begun before them would have been completed and found (`HeldBack`). It gives
`NothingBegunIsYielded` and, at the end of the loop, `StreamIsCutExactly`. Then of its
locks: `LocksHaveOneHolder`, and `GenerationKeepsModel`, that neither an eviction nor
`close()` nor another call's load takes the model away while `_generate_lock` is held;
`LoadInv` is needed for the last of these, because a load sets `model` under `_load_lock`
alone, and happens only where there is none.

*The routes.* `RoutesProofs`, in four parts.

- The proxy: `ActiveIsNeverTooLow` for `ChatProxy` by itself. That no request in progress
  is uncounted is not inductive: the invariant `MadeUp` says what the count is made up of,
  the requests in progress and those leaked. There is one lemma per kind of
  step (a request begins, ends, moves on, or leaks), where the sets of requests change
  by one member and the count by one. `ZeroMeansIdle` follows as well. Every step of
  `Routes` is one of `ChatProxy` or leaves it alone (`RoutesUseProxy`), so that
  `RoutesNeverUndercount` holds among all the handlers.
- The stats: `RecordsAreCountedOnce` alone is not inductive, since the clock moves the two
  windows. `EventsInv` says the same of every window that begins at most a day ago, which
  pruning respects (`PruningKeeps`); `PlaceInv` says that a request is in one place and has
  no answer while it is there, so that nothing counts twice (`StatsCountOnce`).
- What the batcher is asked: `TaskIsFirstHint` compares the chain of `or` and `is None`
  in `parse_task_type` with the first of five hints (`EmbeddingsAreAsAsked`).
- The ranking, for any number of documents: `FlattenPairs` and `PromptLemma` compute what
  stands where in the prompt, so that the markers are at 3, 5, 7 and so on
  (`HiddenStates`); `SortedLemma` says that sorting a finite set by the number of those
  that go before gives each member once and in order, because distinct members have
  distinct ranks (an injection into a set of the same size); `BestOfRanking` is about the
  cut at `top_n`. `RankInv` says that the queue has valid requests only and that an
  answer of 200 is the ranking of its request (`RankingsAreComplete`).

The assumption `TextAssumption` of `Routes` is part of the abstraction of
`ListwiseReranker`: a text of a rerank request is a number. Others are what the code
checks when it starts: `default_max_length` is one that a request may have
(`server.py`, `create_app`), and the limits of the batcher are positive
(`batching.py:34-41`).

Only model-checked: liveness (`StopTerminates`, and the answers and ends that must
come), since fairness and ENABLED are beyond this prover; and the five violations.

## 5. Plan

Done: all components of section 1, with the compositions `Gateway` (both queues, gate,
cache, lifespan) and `Routes` (handlers, schema, metrics, proxy, ranking), and the proofs
of their safety properties.

Worth doing next: the chat queue in the composition of the lifespan, where it is a
third user of the gate and stopped between the others; since it implements
`RerankQueue`, the proof of `GatewayProofs` should carry over. And a refinement for the
batcher, of a service that may answer in any order but starves nobody.

### Not modelled

- The forward pass, the loading of weights and the projector, tokenizers: arithmetic
  and files. What they do to the state of the services is in `ModelLifecycle` and
  `ChatLifecycle`.
- `main.py` but for the choice of the chat client, `scripts/`, `launchd/`:
  sequential programs that read arguments, call libraries and print.
- `MLXMemoryManager.configure` and `snapshot`, and the stats page (`server.py`): they pass
  values through or lay them out. The counts they show are those of `ActiveIsExact`,
  `ActiveCoversProgress` and `RecordsAreCountedOnce`.
- An exception of `mx.clear_cache()` in a worker's `finally` (`rerank_queue.py:112`): it
  would end the worker, and no later call would be answered. The properties assume
  that it does not raise.
