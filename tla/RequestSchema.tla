---------------------------- MODULE RequestSchema ----------------------------
(***************************************************************************)
(* schema.py: what the gateway accepts, and what it makes of an embedding  *)
(* request before the batcher sees it.  A request is the record of its     *)
(* fields; a name is a string, with as many spellings as the rules tell    *)
(* apart, and a list of texts or messages what the rules look at in it.    *)
(***************************************************************************)
EXTENDS Integers, Sequences

CONSTANT None

Rejected == "rejected"     \* a RequestError or ValueError: status 400

\* Python's `a or b`.
Or(a, b) == IF a \in {None, ""} THEN b ELSE a

\* str.lower() on the spellings that differ from it.
Lower(name) == CASE name = "Query"         -> "query"
                 [] name = "Jina-V5-Query" -> "jina-v5-query"
                 [] OTHER                  -> name

VALID_TASK_TYPES == {"retrieval.query", "retrieval.passage", "classification",
                     "text-matching", "clustering", "separation"}
VALID_DIMENSIONS == {32, 64, 128, 256, 512, 768, 1024}
VALID_RERANK_MODELS == {"jinaai/jina-reranker-v3-mlx", "jina-reranker-v3-mlx", "jina-reranker-v3"}
QUERY_MODEL_ALIASES == {"jina-v5-query", "jina-embeddings-v5-text-small-query"}
PASSAGE_MODEL_ALIASES ==
  {"jina-v5", "jina-v5-passage", "jina-v5-document", "jina-embeddings-v5-text-small",
   "jina-embeddings-v5-text-small-passage", "jina-embeddings-v5-text-small-document"}

TaskOfInputType(type) ==
  CASE type \in {"query", "retrieval.query"}                        -> "retrieval.query"
    [] type \in {"passage", "document", "doc", "retrieval.passage"} -> "retrieval.passage"
    [] OTHER                                                        -> None

TaskOfModel(model) ==
  CASE model \in QUERY_MODEL_ALIASES   -> "retrieval.query"
    [] model \in PASSAGE_MODEL_ALIASES -> "retrieval.passage"
    [] OTHER                           -> None

ResolveTask(value) == CASE value = "separation"          -> "clustering"
                        [] value \notin VALID_TASK_TYPES -> Rejected
                        [] OTHER                         -> value

\* Mutant: the model alias goes before the input type.
ParseTaskTypeByModel(r) ==
  LET direct  == Or(r.task, r.task_type)
      byModel == IF direct = None /\ r.model # None THEN TaskOfModel(Lower(r.model)) ELSE direct
      byInput == IF byModel = None /\ r.input_type # None
                 THEN TaskOfInputType(Lower(r.input_type)) ELSE byModel
  IN  ResolveTask(Or(byInput, "retrieval.passage"))

\* An empty task_type is no task, yet it is not None either: neither the input
\* type nor the model is looked at behind it.
parse_task_type(r) ==
  LET direct  == Or(r.task, r.task_type)
      byInput == IF direct = None /\ r.input_type # None
                 THEN TaskOfInputType(Lower(r.input_type)) ELSE direct
      byModel == IF byInput = None /\ r.model # None THEN TaskOfModel(Lower(r.model)) ELSE byInput
  IN  ResolveTask(Or(byModel, "retrieval.passage"))

VALID_MAX_LENGTH_RANGE == 1..32768

ValidEmbedding(r) ==
  /\ r.input # << >>
  /\ r.dimensions \in VALID_DIMENSIONS
  /\ parse_task_type(r) # Rejected
  /\ r.max_length # None => r.max_length \in VALID_MAX_LENGTH_RANGE
  /\ r.embedding_type = "float" /\ r.normalized

\* What the handler passes to the batcher.
ParsedEmbedding(r, default_max_length) ==
  [ texts      |-> r.input,
    task_type  |-> parse_task_type(r),
    dimensions |-> r.dimensions,
    max_length |-> IF r.max_length = None THEN default_max_length ELSE r.max_length ]

\* Extra fields are forbidden; a query of blanks is None.  ensure_rerank_model
\* comes afterwards, in the handler.
ValidRerank(r) == /\ r.query # None /\ r.documents # << >> /\ ~r.extra
                  /\ r.top_n # None => r.top_n >= 1

ensure_rerank_model(requested, service_model_id) ==
  requested \in {None, service_model_id} \cup VALID_RERANK_MODELS

\* temperature and top_p in tenths.
ValidChat(r) == /\ r.roles # << >>
                /\ \A i \in DOMAIN r.roles : r.roles[i] \in {"system", "user", "assistant", "tool"}
                /\ r.max_tokens >= 1 /\ r.temperature >= 0 /\ r.top_p \in 0..10
=============================================================================
