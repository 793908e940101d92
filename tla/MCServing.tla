------------------------------ MODULE MCServing ------------------------------
(* Ways to set up the app: one serves chat behind two filters, the others  *)
(* serve RAG answers with each kind of reranker behind guards that call    *)
(* out.                                                                    *)
EXTENDS Serving

CONSTANTS m1, m2

ChatApp == [router |-> TRUE, pipeline |-> Nothing, audit |-> "records",
            guards |-> <<[type |-> "regex", on |-> {"pattern"}],
                         [type |-> "redact", on |-> {"secret"}]>>]

(* The best hits for the query are not all tagged "x", and the scorer of a *)
(* reranker disagrees with the store.                                      *)
Passages == <<[id |-> 1, meta |-> "x", rescore |-> 1],
              [id |-> 2, meta |-> "y", rescore |-> 3],
              [id |-> 3, meta |-> "x", rescore |-> 2],
              [id |-> 4, meta |-> "x", rescore |-> 2]>>

RagApp(type, own, n, guards, auditing) ==
    [router |-> FALSE, audit |-> auditing, guards |-> guards,
     pipeline |-> [hits |-> Passages, topK |-> 3, topN |-> n,
                   reranker |-> [type |-> type, topN |-> own]]]

OnTopic == [type |-> "embedding", on |-> {"topic"}]
Rails == [type |-> "nemo", on |-> {}]
NoWord == [type |-> "keyword", on |-> {"secret"}]

SomeApps == {ChatApp,
             RagApp("none", Unset, 1, <<OnTopic>>, "raises"),
             RagApp("fake", 1, Unset, <<NoWord, Rails>>, "records"),
             RagApp("score", 1, 2, <<Rails, OnTopic>>, "none"),
             RagApp("score", Unset, 0, <<>>, "none")}

SomePrompts == {[text |-> x] : x \in {{}, {"pattern", "secret"}, {"secret"}}}

SomeQueries == {[text |-> x, topK |-> k, filter |-> f] :
                  x \in {{"topic"}, {"secret"}, {"topic", "secret"}},
                  k \in {1, 2, 4}, f \in {Unset, "x"}}

TwoModels == <<m1, m2>>

(* A response with token counts, and one that has no prompt count.         *)
SomeUsage == {[prompt |-> 2, completion |-> 1], [prompt |-> Malformed, completion |-> 1]}

(* Nothing tells one client, or one part, from another.                    *)
Symmetry == Permutations(Clients) \cup Permutations(Parts)
=============================================================================
