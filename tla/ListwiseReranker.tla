-------------------------- MODULE ListwiseReranker --------------------------
(***************************************************************************)
(* reranking.py, JinaV3Reranker: all documents go into one prompt, each    *)
(* followed by a marker token, and the query behind them with a marker of  *)
(* its own.  The score of a document compares what the model knows at its  *)
(* marker with what it knows at the query's, and the scores are sorted.    *)
(*                                                                         *)
(* A text is a number, and two texts are the more alike the nearer the     *)
(* numbers are.  A prompt is a sequence of texts and markers; texts        *)
(* contain no marker.  The hidden state at a marker is taken for the text  *)
(* that ends there.                                                        *)
(***************************************************************************)
EXTENDS RequestSchema, SequencesExt

Text(t) == [token |-> "text", says |-> t]
_DOC_EMBED_TOKEN == [token |-> "<|embed_token|>"]
_QUERY_EMBED_TOKEN == [token |-> "<|rerank_token|>"]

\* The query stands at the front, too, without its marker.
_format_listwise_prompt(query, documents) ==
  << Text(query) >>
  \o FlattenSeq([i \in DOMAIN documents |-> << Text(documents[i]), _DOC_EMBED_TOKEN >>])
  \o << Text(query), _QUERY_EMBED_TOKEN >>

\* Things in their order, when before[x] are those that go before x.
Sorted(before) ==
  LET S == DOMAIN before
  IN  [k \in 1..Cardinality(S) |-> CHOOSE x \in S : Cardinality(before[x]) = k - 1]

\* np.where: where a token stands, from left to right.
Positions(prompt, token) ==
  LET P == {p \in DOMAIN prompt : prompt[p] = token} IN Sorted([p \in P |-> {q \in P : q < p}])

Hidden(prompt, position) == prompt[position - 1].says

_gather_query_hidden(prompt) == Hidden(prompt, Positions(prompt, _QUERY_EMBED_TOKEN)[1])

\* Mutant: the positions are taken from the end of the prompt.
_gather_doc_hiddens_backwards(prompt) ==
  LET positions == Reverse(Positions(prompt, _DOC_EMBED_TOKEN))
  IN  [i \in DOMAIN positions |-> Hidden(prompt, positions[i])]

_gather_doc_hiddens(prompt) ==
  LET positions == Positions(prompt, _DOC_EMBED_TOKEN)
  IN  [i \in DOMAIN positions |-> Hidden(prompt, positions[i])]

Cosine(a, b) == 0 - (IF a > b THEN a - b ELSE b - a)

_cosine_scores(query_emb, doc_embs) == [i \in DOMAIN doc_embs |-> Cosine(doc_embs[i], query_emb)]

\* The best first; sort() keeps the order of equals, reversed or not.
Ranking(scores) ==
  LET I == DOMAIN scores
  IN  Sorted([i \in I |-> {j \in I : scores[j] > scores[i] \/ (scores[j] = scores[i] /\ j < i)}])

\* With _rerank_response_payload: indices count from 0, and a document goes along
\* if the request wants it.
Rerank(r) ==
  LET prompt  == _format_listwise_prompt(r.query, r.documents)
      scores  == _cosine_scores(_gather_query_hidden(prompt), _gather_doc_hiddens(prompt))
      ranking == Ranking(scores)
      limit   == IF r.top_n = None THEN Len(ranking) ELSE Min({r.top_n, Len(ranking)})
  IN  [k \in 1..limit |-> [ index           |-> ranking[k] - 1,
                            relevance_score |-> scores[ranking[k]],
                            document        |-> IF r.return_documents THEN r.documents[ranking[k]] ELSE None ]]
=============================================================================
