------------------------------- MODULE Routes -------------------------------
(***************************************************************************)
(* routes.py and the app around it (server.py, main.py): every request is  *)
(* validated, counted and handed to a queue or to the chat proxy, and      *)
(* answered with a status.  The queues are modelled by modules of their    *)
(* own; here they answer, or fail, in their own time.                      *)
(*                                                                         *)
(* The handlers run on one event loop.  An action is what happens between  *)
(* two suspensions of a handler.                                           *)
(***************************************************************************)
EXTENDS ChatProxy, RequestMetrics, ListwiseReranker

CONSTANTS
  Loads,               \* who sends what: functions from Clients to requests and None
  default_max_length,
  RERANK_MODEL_ID

\* create_app looks at default_max_length as a request's is looked at.
ASSUME RoutesAssumption ==
  /\ default_max_length \in VALID_MAX_LENGTH_RANGE
  /\ None \notin Nat /\ None # "" /\ None # "retrieval.passage"

\* In a rerank request a text is a number (module ListwiseReranker).
ASSUME TextAssumption ==
  \A load \in Loads : \A c \in Clients :
    (load[c] # None /\ load[c].workload = "rerank") =>
      /\ load[c].query \in Int \cup {None}
      /\ load[c].documents \in Seq(Int)
      /\ load[c].top_n \in Int \cup {None}

VARIABLES
  backend,  \* which chat routes the app has; never changes
  request,  \* what the clients send; never changes
  waiting,  \* the requests in the hands of a queue
  status,   \* the status of the answer, once there is one
  result,   \* what the batcher has taken, or the ranking that was returned
  at        \* when the handler got to its metrics.record(), a chat request when
            \* it was answered: history, no step reads it

setting == << backend, request >>
vars == << proxyVars, metricsVars, setting, waiting, status, result, at >>

\* run_serve makes one of the two chat clients at most.
ChatBackend(disable_chat_proxy, enable_local_chat) ==
  CASE ~disable_chat_proxy -> "proxy"
    [] disable_chat_proxy /\ enable_local_chat -> "local"
    [] OTHER -> "none"

Init ==
  /\ ProxyInit
  /\ MetricsInit
  /\ backend \in {ChatBackend(disable, enable) : disable, enable \in BOOLEAN}
  /\ request \in Loads
  /\ waiting = {}
  /\ status = [c \in Clients |-> None]
  /\ result = [c \in Clients |-> None]
  /\ at = [c \in Clients |-> None]

-----------------------------------------------------------------------------
Arrives(c, workload) ==
  /\ ~closed
  /\ request[c] # None /\ request[c].workload = workload
  /\ c \notin waiting /\ upstream[c] = "none" /\ status[c] = None

Timed(c) == at' = [at EXCEPT ![c] = clock]

Responds(c, code) == status' = [status EXCEPT ![c] = code]

Returned(c) == c \in waiting /\ waiting' = waiting \ {c}

\* No such route, or a body or a model that is not accepted.
Reject(c) ==
  /\ \/ /\ Arrives(c, "embedding") /\ ~ValidEmbedding(request[c])
        /\ Responds(c, 400)
     \/ /\ Arrives(c, "rerank")
        /\ ~(ValidRerank(request[c]) /\ ensure_rerank_model(request[c].model, RERANK_MODEL_ID))
        /\ Responds(c, 400)
     \/ /\ Arrives(c, "chat") /\ backend = "none"
        /\ Responds(c, 404)
     \/ /\ Arrives(c, "chat") /\ backend # "none" /\ ~ValidChat(request[c])
        /\ Responds(c, 400)
  /\ UNCHANGED << setting, proxyVars, metricsVars, waiting, result, at >>

-----------------------------------------------------------------------------
(* embeddings and rerank: recorded before the queue has a look at them *)

\* The texts are queued; or the handler ends in the same step, for one of them is
\* too long (a ValueError) or the tokenizer fails (batching.py:91-97).
Embeddings(c) ==
  /\ Arrives(c, "embedding") /\ ValidEmbedding(request[c])
  /\ Record("embedding")
  /\ Timed(c)
  /\ \/ /\ result' = [result EXCEPT ![c] = ParsedEmbedding(request[c], default_max_length)]
        /\ waiting' = waiting \cup {c}
        /\ UNCHANGED status
     \/ /\ \E code \in {400, 500} : Responds(c, code)
        /\ UNCHANGED << result, waiting >>
  /\ UNCHANGED << setting, proxyVars >>

\* The vectors, or what the model call raised (400 if it is a ValueError).
EmbeddingsReturn(c) ==
  /\ request[c] # None /\ request[c].workload = "embedding"
  /\ Returned(c)
  /\ \E code \in {200, 400, 500} : Responds(c, code)
  /\ UNCHANGED << setting, proxyVars, metricsVars, result, at >>

RerankRequested(c) ==
  /\ Arrives(c, "rerank") /\ ValidRerank(request[c])
  /\ ensure_rerank_model(request[c].model, RERANK_MODEL_ID)
  /\ Record("rerank")
  /\ waiting' = waiting \cup {c}
  /\ Timed(c)
  /\ UNCHANGED << setting, proxyVars, status, result >>

\* The rankings of all requests there are, so that they are computed once.
Rankings ==
  LET requests == {load[c] : load \in Loads, c \in Clients} \ {None}
  IN  [r \in {r \in requests : r.workload = "rerank" /\ ValidRerank(r)} |-> Rerank(r)]

RerankReturns(c) ==
  /\ request[c] # None /\ request[c].workload = "rerank"
  /\ Returned(c)
  /\ \/ Responds(c, 200) /\ result' = [result EXCEPT ![c] = Rankings[request[c]]]
     \/ \E code \in {400, 500} : Responds(c, code) /\ UNCHANGED result
  /\ UNCHANGED << setting, proxyVars, metricsVars, at >>

-----------------------------------------------------------------------------
(* chat: counted when it succeeds, or its stream begins *)

AnswersChat(c, code) ==
  /\ Responds(c, code)
  /\ Timed(c)
  /\ IF code = 200 THEN Record("chat") ELSE UNCHANGED metricsVars

ChatArrives(c, chat) == Arrives(c, "chat") /\ backend = chat /\ ValidChat(request[c])

\* The local queue takes the request, or is full.
LocalStream(c) ==
  /\ ChatArrives(c, "local") /\ request[c].stream
  /\ \E code \in {200, 503} : AnswersChat(c, code)
  /\ UNCHANGED << setting, proxyVars, waiting, result >>

LocalFull(c) ==
  /\ ChatArrives(c, "local") /\ ~request[c].stream
  /\ AnswersChat(c, 503)
  /\ UNCHANGED << setting, proxyVars, waiting, result >>

LocalComplete(c) ==
  /\ ChatArrives(c, "local") /\ ~request[c].stream
  /\ waiting' = waiting \cup {c}
  /\ UNCHANGED << setting, proxyVars, metricsVars, status, result, at >>

LocalReturns(c) ==
  /\ request[c] # None /\ request[c].workload = "chat"
  /\ Returned(c)
  /\ \E code \in {200, 400, 500} : AnswersChat(c, code)
  /\ UNCHANGED << setting, proxyVars, result >>

ProxyArrives(c) ==
  /\ ChatArrives(c, "proxy")
  /\ IF request[c].stream THEN OpenStream(c) ELSE Complete(c)
  /\ UNCHANGED << setting, metricsVars, waiting, status, result, at >>

\* What comes of complete() and of open_stream(), a ChatProxyError with its own
\* status included.
ProxyAnswers(c) ==
  /\ \/ \E code \in PostStatuses : Posted(c, code) /\ AnswersChat(c, code)
     \/ Connected(c) /\ AnswersChat(c, 200)
     \/ Unavailable(c) /\ AnswersChat(c, 502)
     \/ (ConnectFails(c) \/ RefusalLeaks(c)) /\ AnswersChat(c, 500)
     \/ \E code \in RefusalStatuses : RefusalRead(c, code) /\ AnswersChat(c, code)
  /\ UNCHANGED << setting, waiting, result >>

ProxyRefused(c) ==
  /\ Refused(c)
  /\ UNCHANGED << setting, metricsVars, waiting, status, result, at >>

ProxyGenerates(c) ==
  /\ GeneratorStep(c)
  /\ UNCHANGED << setting, metricsVars, waiting, status, result, at >>

ClientReads(c) ==
  /\ ClientStep(c)
  /\ UNCHANGED << setting, metricsVars, waiting, status, result, at >>

-----------------------------------------------------------------------------
TimePasses == Tick /\ UNCHANGED << setting, proxyVars, waiting, status, result, at >>

\* The end of the lifespan; uvicorn has waited for the answers.
Shutdown == waiting = {} /\ Close /\ UNCHANGED << setting, metricsVars, waiting, status, result, at >>

ServerStep(c) == \/ EmbeddingsReturn(c) \/ RerankReturns(c) \/ LocalReturns(c)
                 \/ ProxyAnswers(c) \/ ProxyRefused(c) \/ ProxyGenerates(c)

RequestStep(c) == \/ Reject(c) \/ Embeddings(c) \/ RerankRequested(c)
                  \/ LocalStream(c) \/ LocalFull(c) \/ LocalComplete(c) \/ ProxyArrives(c)

Next == TimePasses \/ Shutdown \/ \E c \in Clients : RequestStep(c) \/ ServerStep(c) \/ ClientReads(c)

Spec == Init /\ [][Next]_vars

\* The queues return (modules RerankQueue, DynamicBatcher and ChatQueue), httpx
\* answers within its timeouts, and the event loop closes what is dropped.
\* Clients come, read and leave as they like, and time may stand still.
FairSpec == Spec /\ \A c \in Clients : WF_vars(ServerStep(c))

-----------------------------------------------------------------------------
(* Properties *)

\* The stats count what the handlers recorded in the last hour and day, each request
\* once, although events are dropped as others come and the windows are closed: a
\* valid embedding or rerank request, be it rejected afterwards (batching.py:93-100),
\* and a chat request answered with 200 (metrics.py:18-55; routes.py:30, :51, :99,
\* :118, :216, :227).
RecordsAreCountedOnce ==
  \A w \in Workloads :
    LET Recorded == {c \in Clients : /\ request[c] # None /\ request[c].workload = w
                                     /\ at[c] # None
                                     /\ w = "chat" => status[c] = 200}
        Since(t) == Cardinality({c \in Recorded : at[c] >= t})
    IN  Snapshot(w) = [requests_1h |-> Since(clock - HOUR), requests_1d |-> Since(clock - DAY)]

\* What README.md:441 says of them: "`requests_1h`: accepted requests in the last
\* hour.", of embeddings.  The code violates it (routes.py:30-31): a request is
\* recorded before embed() looks whether its texts are too long to be queued.
AcceptedAreCounted ==
  Snapshot("embedding").requests_1h =
    Cardinality({c \in Clients : /\ request[c] # None /\ request[c].workload = "embedding"
                                 /\ result[c] # None /\ at[c] >= clock - HOUR})

\* What a request asked for first: the task, or else the task type (an empty one
\* stands for a passage), a known input type, a known model, and at last a passage.
FirstHint(r) ==
  LET hints == << IF r.task = "" THEN None ELSE r.task,
                  IF r.task_type = "" THEN "retrieval.passage" ELSE r.task_type,
                  IF r.input_type = None THEN None ELSE TaskOfInputType(Lower(r.input_type)),
                  IF r.model = None THEN None ELSE TaskOfModel(Lower(r.model)),
                  "retrieval.passage" >>
  IN  hints[Min({i \in DOMAIN hints : hints[i] # None})]

\* The batcher is asked for what the client asked for, within the limits it relies
\* on, and of clients whose wishes can be met only (schema.py:24-37, :126-175).
EmbeddingIsAsAsked ==
  \A c \in Clients :
    (request[c] # None /\ request[c].workload = "embedding" /\ result[c] # None) =>
      LET r == request[c]
          q == result[c]
      IN  /\ q.texts = r.input /\ q.texts # << >>
          /\ q.dimensions = r.dimensions
          /\ q.max_length \in VALID_MAX_LENGTH_RANGE /\ r.max_length \in {None, q.max_length}
          /\ q.task_type # "separation"
          /\ q.task_type = FirstHint(r) \/ (q.task_type = "clustering" /\ FirstHint(r) = "separation")

\* A ranking has the top_n best documents, each once, with its own score and under
\* its own index, the best first and the earlier first among equals (reranking.py:
\* 125-184, :205-243; routes.py:66-80).
RankingIsComplete ==
  \A c \in Clients :
    (request[c] # None /\ request[c].workload = "rerank" /\ status[c] = 200) =>
      LET r       == request[c]
          ranking == result[c]
          Named   == {ranking[k].index : k \in DOMAIN ranking}
          Score(i) == Cosine(r.documents[i + 1], r.query)
          Before(i, j) == Score(i) > Score(j) \/ (Score(i) = Score(j) /\ i < j)
          All     == 0..Len(r.documents) - 1
      IN  /\ Named \subseteq All /\ Cardinality(Named) = Len(ranking)
          /\ IF r.top_n \in 1..Len(r.documents) THEN Len(ranking) = r.top_n ELSE Named = All
          /\ \A k \in DOMAIN ranking :
               /\ ranking[k].relevance_score = Score(ranking[k].index)
               /\ ranking[k].document \in {None, r.documents[ranking[k].index + 1]}
               /\ \A l \in 1..k - 1 : Before(ranking[l].index, ranking[k].index)
          /\ \A i \in Named, j \in All \ Named : Before(i, j)

\* Every request that is taken up is answered, and whatever it holds of the upstream
\* server is let go when it is refused or its client leaves (chat_proxy.py:50-83,
\* :111-121).
RequestsEnd ==
  \A c \in Clients :
    LET Busy == \/ c \in waiting
                \/ upstream[c] \in {"posting", "connecting", "refusing", "orphaned", "closing"}
    IN  Busy ~> ~Busy /\ status[c] # None
=============================================================================
