------------------------------ MODULE Grounding ------------------------------
(***************************************************************************)
(* evaluation/hallucination/_detector.py: how well an answer is supported  *)
(* by reference passages.  A sentence or a passage is abstracted to its    *)
(* set of tokens, a score to a fraction [n, d], a threshold likewise.      *)
(***************************************************************************)
EXTENDS Integers, Sequences, FiniteSets, SequencesExt

Below(a, b) == a.n * b.d < b.n * a.d
Zero == [n |-> 0, d |-> 1]
One == [n |-> 1, d |-> 1]

(* _recall: the part of the candidate's tokens that the reference has.     *)
Recall(candidate, reference) ==
    IF candidate = {} THEN One
    ELSE [n |-> Cardinality(candidate \cap reference), d |-> Cardinality(candidate)]

(* _sentence_recall: that of the best reference.                           *)
SentenceRecall(sentence, references) ==
    IF references = <<>> THEN Zero
    ELSE LET all == {Recall(sentence, references[i]) : i \in DOMAIN references}
         IN  CHOOSE x \in all : \A y \in all : ~Below(x, y)

Plus(a, b) == [n |-> a.n * b.d + b.n * a.d, d |-> a.d * b.d]
Mean(scores) == LET sum == FoldLeft(Plus, Zero, scores)
                IN  [n |-> sum.n, d |-> sum.d * Len(scores)]

(* OverlapDetector.detect.                                                 *)
Detect(answer, references, threshold, sentenceThreshold) ==
    LET score(i) == SentenceRecall(answer[i], references)
        ground == IF answer = <<>> THEN Zero
                  ELSE Mean([i \in DOMAIN answer |-> score(i)])
    IN  [groundedness |-> ground,
         hallucination |-> answer = <<>> \/ Below(ground, threshold),
         unsupported |-> {i \in DOMAIN answer : Below(score(i), sentenceThreshold)}]

(* LLMJudgeDetector.detect, which clamps what its scorer says.             *)
Judge(score, threshold) ==
    LET clamped == IF Below(score, Zero) THEN Zero ELSE IF Below(One, score) THEN One ELSE score
    IN  [groundedness |-> clamped, hallucination |-> Below(clamped, threshold), unsupported |-> {}]
=============================================================================
