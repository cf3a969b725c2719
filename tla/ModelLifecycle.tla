--------------------------- MODULE ModelLifecycle ---------------------------
(***************************************************************************)
(* MLXEmbeddingService and MLXRerankService with their IdleEvictor         *)
(* (modeling.py, reranking.py, idle_evictor.py): the first call loads the  *)
(* model, a daemon thread drops it after idle_seconds without use, and the *)
(* next call loads it again.  A model has a second part, the tokenizer of  *)
(* the embedding service and the token counter of the rerank service.      *)
(* Calls and evictor are threads that share both parts and meet at         *)
(* _load_lock; but _load first looks, and reads, without the lock, and a   *)
(* rerank call uses the token counter long after it has left it.           *)
(*                                                                         *)
(* An action is one access to the shared attributes, or all of those that  *)
(* the lock makes one.  The inference, under the embedding service's       *)
(* _encode_lock, and the cache clearing at its end touch neither.          *)
(***************************************************************************)
EXTENDS Naturals

CONSTANTS
  Calls,       \* the calls of rerank(), or of embed() and count_tokens(), and their
               \* threads; a part is named after the call that loaded it
  Evictor,     \* IdleEvictor's thread
  None,
  Ordinary     \* TRUE: calls come one at a time, as the inference gate admits them,
               \* and none takes idle_seconds

ASSUME LifecycleAssumption ==
  Evictor \notin Calls /\ None \notin Calls \cup {Evictor} /\ Ordinary \in BOOLEAN

VARIABLES
  service,   \* which of the two services it is; never changes
  model,     \* _model, _raw_reranker
  tokens,    \* _tokenizer, _token_counter
  lock,      \* who holds _load_lock
  idle,      \* idle_seconds have passed since _last_used
  evictor,   \* where the evictor's thread is
  pc,        \* where each call is, and how it ended
  got        \* the call has read None for nothing that it needs

vars == << service, model, tokens, lock, idle, evictor, pc, got >>

Ends == {"answered", "words", "failed"}

TypeOK ==
  /\ service \in {"embedding", "rerank"}
  /\ model \in Calls \cup {None}
  /\ tokens \in Calls \cup {None}
  /\ lock \in Calls \cup {Evictor, None}
  /\ idle \in BOOLEAN
  /\ evictor \in {"off", "sleeping", "decided", "dropping"}
  /\ pc \in [Calls -> {"new", "seen", "half read", "lock", "loading", "loaded", "touch", "infer",
                       "count", "counting"} \cup Ends]
  /\ got \in [Calls -> BOOLEAN]
  /\ \A t \in Calls : lock = t <=> pc[t] \in {"loading", "loaded"}
  /\ lock = Evictor <=> evictor = "dropping"

Init ==
  /\ service \in {"embedding", "rerank"}
  /\ model = None
  /\ tokens = None
  /\ lock = None
  /\ idle = TRUE
  /\ evictor = "off"
  /\ pc = [t \in Calls |-> "new"]
  /\ got = [t \in Calls |-> TRUE]

-----------------------------------------------------------------------------
(* _load *)

Goto(t, from, to) == pc[t] = from /\ pc' = [pc EXCEPT ![t] = to]

InProgress(t) == pc[t] \notin {"new"} \cup Ends

\* What _load looks for: the rerank service is content with the model.
Complete == model # None /\ (service = "embedding" => tokens # None)

\* The call begins by looking without the lock.
Begin(t) ==
  /\ Ordinary => \A u \in Calls : ~InProgress(u)
  /\ \/ Complete /\ Goto(t, "new", "seen")
     \/ ~Complete /\ Goto(t, "new", "lock")
  /\ UNCHANGED << service, model, tokens, lock, idle, evictor, got >>

\* `return` reads the attributes again, one after the other.  count_tokens has no
\* use for the model.
ReadModel(t) ==
  /\ \/ service = "rerank" /\ Goto(t, "seen", "touch") /\ got' = [got EXCEPT ![t] = model # None]
     \/ service = "embedding" /\ Goto(t, "seen", "half read") /\ got' = [got EXCEPT ![t] = model # None]
     \/ service = "embedding" /\ Goto(t, "seen", "half read") /\ UNCHANGED got
  /\ UNCHANGED << service, model, tokens, lock, idle, evictor >>

ReadTokenizer(t) ==
  /\ Goto(t, "half read", "touch")
  /\ got' = [got EXCEPT ![t] = @ /\ tokens # None]
  /\ UNCHANGED << service, model, tokens, lock, idle, evictor >>

\* Another call has loaded the model in the meantime.
ReturnLocked(t) ==
  /\ lock = None
  /\ Complete
  /\ Goto(t, "lock", "touch")
  /\ UNCHANGED << service, model, tokens, lock, idle, evictor, got >>

\* Mutant: nobody looks again under the lock.
StartLoadUnseen(t) ==
  /\ lock = None
  /\ Goto(t, "lock", "loading")
  /\ lock' = t
  /\ UNCHANGED << service, model, tokens, idle, evictor, got >>

StartLoad(t) ==
  /\ lock = None
  /\ ~Complete
  /\ Goto(t, "lock", "loading")
  /\ lock' = t
  /\ UNCHANGED << service, model, tokens, idle, evictor, got >>

Load(t) ==
  /\ Goto(t, "loading", "loaded")
  /\ model' = t
  /\ UNCHANGED << service, tokens, lock, idle, evictor, got >>

\* Mutant: the lock is not released by an exception.
LoadFailsLocked(t) ==
  /\ Goto(t, "loading", "failed")
  /\ UNCHANGED << service, model, tokens, lock, idle, evictor, got >>

\* No model on the disk, or a broken one.  When it is the tokenizer that fails the
\* embedding model is there already, and stays.
LoadFails(t) ==
  /\ \/ Goto(t, "loading", "failed")
     \/ service = "embedding" /\ Goto(t, "loaded", "failed")
  /\ lock' = None
  /\ UNCHANGED << service, model, tokens, idle, evictor, got >>

\* The rest of _load: the tokenizer, or the token counter if there is none, and
\* evictor.start(), which does nothing, touch() included, when its thread exists.
FinishLoad(t) ==
  /\ Goto(t, "loaded", "touch")
  /\ tokens' = IF service = "rerank" /\ tokens # None THEN tokens ELSE t
  /\ \/ evictor = "off" /\ evictor' = "sleeping" /\ idle' = FALSE
     \/ evictor # "off" /\ UNCHANGED << evictor, idle >>
  /\ lock' = None
  /\ UNCHANGED << service, model, got >>

-----------------------------------------------------------------------------
(* embed, count_tokens, rerank *)

Touch(t) ==
  /\ Goto(t, "touch", "infer")
  /\ idle' = FALSE
  /\ UNCHANGED << service, model, tokens, lock, evictor, got >>

\* Without what it needs, or by the model's fault, the call fails.
Infer(t) ==
  /\ \/ got[t] /\ service = "embedding" /\ Goto(t, "infer", "answered")
     \/ got[t] /\ service = "rerank" /\ Goto(t, "infer", "count")
     \/ Goto(t, "infer", "failed")
  /\ got' = [got EXCEPT ![t] = TRUE]
  /\ UNCHANGED << service, model, tokens, lock, idle, evictor >>

\* _count_tokens of the rerank service counts words when it finds no token
\* counter ...
LookForCounter(t) ==
  /\ \/ tokens # None /\ Goto(t, "count", "counting")
     \/ tokens = None /\ Goto(t, "count", "words")
  /\ UNCHANGED << service, model, tokens, lock, idle, evictor, got >>

\* ... and reads it again to call it.
Count(t) ==
  /\ \/ tokens # None /\ Goto(t, "counting", "answered")
     \/ tokens = None /\ Goto(t, "counting", "failed")
  /\ UNCHANGED << service, model, tokens, lock, idle, evictor, got >>

-----------------------------------------------------------------------------
(* IdleEvictor *)

\* idle_seconds have passed since the last touch().
TimePasses ==
  /\ ~idle
  /\ Ordinary => \A t \in Calls : ~InProgress(t)
  /\ idle' = TRUE
  /\ UNCHANGED << service, model, tokens, lock, evictor, pc, got >>

\* The thread wakes and compares the times, under IdleEvictor's own lock.
Decide ==
  /\ evictor = "sleeping" /\ idle
  /\ evictor' = "decided"
  /\ UNCHANGED << service, model, tokens, lock, idle, pc, got >>

\* _evict_model, _evict_reranker, with a model or without one.
DropModel ==
  /\ evictor = "decided" /\ lock = None
  /\ \/ /\ model # None
        /\ model' = None
        /\ evictor' = "dropping" /\ lock' = Evictor
     \/ /\ model = None
        /\ evictor' = "sleeping"
        /\ UNCHANGED << model, lock >>
  /\ UNCHANGED << service, tokens, idle, pc, got >>

\* Mutants: the tokens are kept; the thread ends with its first eviction.
KeepTokens ==
  /\ evictor = "dropping"
  /\ evictor' = "sleeping" /\ lock' = None
  /\ UNCHANGED << service, model, tokens, idle, pc, got >>
DropTokensOnce ==
  /\ evictor = "dropping"
  /\ tokens' = None
  /\ evictor' = "ended" /\ lock' = None
  /\ UNCHANGED << service, model, idle, pc, got >>

DropTokens ==
  /\ evictor = "dropping"
  /\ tokens' = None
  /\ evictor' = "sleeping" /\ lock' = None
  /\ UNCHANGED << service, model, idle, pc, got >>

-----------------------------------------------------------------------------
LockStep(t) == ReturnLocked(t) \/ StartLoad(t)

CallStep(t) == \/ ReadModel(t) \/ ReadTokenizer(t) \/ Load(t) \/ LoadFails(t) \/ FinishLoad(t)
               \/ Touch(t) \/ Infer(t) \/ LookForCounter(t) \/ Count(t)

EvictorStep == Decide \/ DropModel \/ DropTokens

Next == TimePasses \/ EvictorStep \/ \E t \in Calls : Begin(t) \/ LockStep(t) \/ CallStep(t)

Spec == Init /\ [][Next]_vars

\* Threads run and time passes.  The evictor sleeps before it takes the lock
\* again, so it cannot keep a waiting call from it for ever.
Fairness == /\ WF_vars(TimePasses) /\ WF_vars(EvictorStep)
            /\ \A t \in Calls : WF_vars(CallStep(t)) /\ SF_vars(LockStep(t))

FairSpec == Spec /\ Fairness

-----------------------------------------------------------------------------
(* Properties *)

\* However calls and the evictor interleave, no call loads a model over one that
\* is complete (modeling.py:91-96, reranking.py:318-322).
NeverLoadedTwice == [][Complete => model' \in {model, None}]_vars

\* Outside the lock, a dropped model is dropped whole: the token counter, which
\* keeps its tokenizer alive, goes with it and belongs to the model when there is
\* one, and so does the tokenizer of the embedding service, except that a model
\* whose tokenizer could not be loaded has none (modeling.py:82-88, :146-147;
\* reranking.py:309-315, :332-339; "unloading drops the ...", README.md:473-474).
TokensFollowModel ==
  lock = None => tokens = model \/ (service = "embedding" /\ tokens = None)

\* A complete model that nobody calls any more is unloaded in the end, also one
\* that was loaded again (README.md:472-474; idle_evictor.py:27-31, :42-50).
IdleModelIsUnloaded ==
  (\A t \in Calls : ~InProgress(t)) ~> ~Complete \/ \E t \in Calls : InProgress(t)

\* Every call returns or raises, whatever the evictor does, and none waits for the
\* lock for ever (modeling.py:53-68, :90-96; reranking.py:280-302).
CallsEnd == \A t \in Calls : InProgress(t) ~> pc[t] \in Ends

\* "`usage.total_tokens` is counted locally using the reranker tokenizer"
\* (README.md:253), in every answer.
UsageCountsTokens == \A t \in Calls : pc[t] # "words"
=============================================================================
