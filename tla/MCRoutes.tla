------------------------------ MODULE MCRoutes ------------------------------
(* An instance of Routes for TLC: every kind of request alone, and a few     *)
(* crowds in which counts and streams overlap.                               *)
EXTENDS Routes

CONSTANTS c1, c2, c3, text

ThreeClients == {c1, c2, c3}

PlainEmbedding ==
  [ workload |-> "embedding", input |-> << text >>, dimensions |-> 1024, task |-> None,
    task_type |-> None, input_type |-> None, model |-> None, max_length |-> None,
    embedding_type |-> "float", normalized |-> TRUE ]

\* Every way to say, or not to say, what the embedding is for ...
Tasks ==
  { [PlainEmbedding EXCEPT !.task = t, !.task_type = y, !.input_type = i, !.model = m] :
      t \in {None, "", "separation", "elsewhere"},
      y \in {None, "", "text-matching"},
      i \in {None, "Query", "doc", "elsewhere"},
      m \in {None, "Jina-V5-Query", "jina-v5-document", "elsewhere"} }

\* ... and every limit of the rest.
Limits ==
  { [PlainEmbedding EXCEPT !.max_length = l, !.dimensions = d] :
      l \in {None, 0, 1, 32768, 32769}, d \in {1024, 1000} }
  \cup { [PlainEmbedding EXCEPT !.input = << >>], [PlainEmbedding EXCEPT !.input = << text, text >>],
         [PlainEmbedding EXCEPT !.embedding_type = "binary"], [PlainEmbedding EXCEPT !.normalized = FALSE] }

PlainRerank ==
  [ workload |-> "rerank", query |-> 1, documents |-> << 2 >>, top_n |-> None, extra |-> FALSE,
    return_documents |-> TRUE, model |-> None ]

\* Documents in any order, some equally like the query.
Reranks ==
  { [PlainRerank EXCEPT !.documents = d, !.top_n = n, !.return_documents = b] :
      d \in UNION {[1..n -> 0..2] : n \in 0..3}, n \in {None, 0, 1, 2, 4}, b \in {FALSE} }
  \cup { [PlainRerank EXCEPT !.query = None], [PlainRerank EXCEPT !.extra = TRUE],
         [PlainRerank EXCEPT !.model = RERANK_MODEL_ID], [PlainRerank EXCEPT !.model = "elsewhere"],
         PlainRerank }

PlainChat ==
  [ workload |-> "chat", stream |-> FALSE, roles |-> << "user" >>, max_tokens |-> 256,
    temperature |-> 7, top_p |-> 10 ]
Stream == [PlainChat EXCEPT !.stream = TRUE]

Chats ==
  { [PlainChat EXCEPT !.stream = b, !.max_tokens = n, !.top_p = p] :
      b \in BOOLEAN, n \in {0, 1}, p \in {0, 10, 11} }
  \cup { [PlainChat EXCEPT !.roles = << >>], [PlainChat EXCEPT !.roles = << "user", "critic" >>],
         [PlainChat EXCEPT !.temperature = -1] }

Alone(r) == [c \in ThreeClients |-> IF c = c1 THEN r ELSE None]
Crowd(q, r, s) == [c \in ThreeClients |-> CASE c = c1 -> q [] c = c2 -> r [] c = c3 -> s]

MCLoads ==
  {Alone(r) : r \in Tasks \cup Limits \cup Reranks \cup Chats}
  \cup { Crowd(Stream, Stream, None),
         Crowd(PlainRerank, PlainChat, Stream),
         Crowd(PlainEmbedding, PlainEmbedding, PlainEmbedding) }
=============================================================================
