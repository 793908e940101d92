------------------------------ MODULE Retrieval ------------------------------
(***************************************************************************)
(* rag/retrieval, rag/reranking and rag/pipeline: from a query to the      *)
(* passages that an answer is grounded in.  The hits of the vector store   *)
(* come in descending order of score; a passage carries its metadata (what *)
(* a filter asks about) and the score a reranker's scorer gives it.        *)
(***************************************************************************)
EXTENDS Budgets

CONSTANT Unset    \* an optional argument that is not given

Smaller(a, b) == IF a < b THEN a ELSE b

(* VectorStore.search of a store whose ranking of everything is hits.      *)
SearchTop(hits, k) == SubSeq(hits, 1, Smaller(k, Len(hits)))

MatchesFilter(p, filter) == filter = Unset \/ p.meta = filter

(* DenseRetriever.retrieve goes through what the search has already cut    *)
(* off, hit after hit.                                                     *)
Retrieve(hits, k, filter) ==
    LET top == SearchTop(hits, k)
        Kept[n \in 0..Len(top)] ==
          IF n = 0 THEN <<>>
          ELSE IF MatchesFilter(top[n], filter) THEN Append(Kept[n - 1], top[n])
          ELSE Kept[n - 1]
    IN  Kept[Len(top)]

FirstN(ps, n) == IF n = Unset THEN ps ELSE SubSeq(ps, 1, Smaller(n, Len(ps)))

(* ScoreReranker: a stable sort on the scorer's scores, the highest first. *)
ByScore(ps) == StableSort(ps, LAMBDA a, b : a.rescore > b.rescore)

(* Bug: the reranker's own limit goes before that of the call.             *)
OwnLimitFirst(n, own) == IF own # Unset THEN own ELSE n

(* The limit of the call goes before the reranker's own.                   *)
Limit(n, own) == IF n # Unset THEN n ELSE own

Rerank(reranker, ps, n) ==
    CASE reranker.type = "none"  -> ps
      [] reranker.type = "fake"  -> FirstN(Reverse(ps), Limit(n, reranker.topN))
      [] reranker.type = "score" -> FirstN(ByScore(ps), Limit(n, reranker.topN))

(* RagPipeline.answer: the generator gets these passages, and the answer   *)
(* cites them.                                                             *)
Grounding(pipeline, hits, topK, topN, filter) ==
    LET k == Limit(topK, pipeline.topK)
        n == Limit(topN, pipeline.topN)
    IN  Rerank(pipeline.reranker, Retrieve(hits, k, filter), n)
=============================================================================
