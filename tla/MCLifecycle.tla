----------------------------- MODULE MCLifecycle -----------------------------
(***************************************************************************)
(* The work around the agents that is not part of serving a request: the   *)
(* life cycle of models, evaluations, and the memory of one agent.  They   *)
(* share no state, so a behaviour is one of the three.                     *)
(***************************************************************************)
EXTENDS Lifecycle, Evaluation, AgentMemory, Datasets, Grounding, Replay, TLC

CONSTANTS WordLengths, MaxWords, Case1, Case2

VARIABLE work

SeqsUpTo(S, max) == UNION {[1..n -> S] : n \in 0..max}
TextsUpTo == SeqsUpTo(WordLengths, MaxWords)
(* Few words, and few of many words that no item has.                      *)
AllQueries == SUBSET Words \cup {q \cup 1..20 : q \in SUBSET Words}
SomeCaseLists == {<<>>, <<Case1>>, <<Case1, Case2>>, <<Case1, Case1>>}

WorkInit == /\ work \in {"models", "evaluation", "memory"}
            /\ Init /\ (work # "models" => tracker = "none")
            /\ EvalInit
            /\ MemoryInit /\ (work # "memory" => class = "short")

WorkNext ==
    /\ UNCHANGED work
    /\ \/ work = "models" /\ Next /\ UNCHANGED <<evars, mvars>>
       \/ work = "evaluation" /\ EvalNext /\ UNCHANGED <<vars, mvars>>
       \/ work = "memory" /\ MemoryNext /\ UNCHANGED <<vars, evars>>

WorkSpec == WorkInit /\ [][WorkNext]_<<vars, evars, mvars, work>>

(* The pure parts against what they are meant to compute.                  *)
ASSUME PackIsLongestPrefix ==
    \A s \in SeqsUpTo(0..5, 4), b \in 0..5 :
      LET p == PackToBudget(s, b)
          Cost(n) == Sum([i \in 1..n |-> CountTokens(s[i])])
      IN  /\ p = SubSeq(s, 1, Len(p))
          /\ Cost(Len(p)) <= b
          /\ Len(p) < Len(s) => Cost(Len(p) + 1) > b

ASSUME PercentileIsNearestRank ==
    \A n \in 1..60, p \in 1..100 :
      LET k == PercentileRank(n, p)
      IN  k \in 1..n /\ 100 * k >= p * n /\ (k > 1 => 100 * (k - 1) < p * n)

(* A split loses and invents nothing, leaves something to train on, and    *)
(* something to validate with if there are two examples; a text that is    *)
(* repeated can be on both sides, but only one when the split is shuffled. *)
ASSUME SplitKeepsExamples ==
    \A s \in SeqsUpTo([text : 0..2, label : {1}], 4), num \in 0..4, shuffle \in BOOLEAN :
      LET x == Split(s, num, 4, shuffle)
          Copies(e, seq) == Cardinality({i \in DOMAIN seq : seq[i] = e})
          both == {e \in ToSet(s) : Copies(e, x.train) > 0 /\ Copies(e, x.val) > 0}
      IN  /\ \A e \in ToSet(s) : Copies(e, s) = Copies(e, x.train \o x.val)
          /\ Len(x.train) + Len(x.val) = Len(s)
          /\ ~shuffle => x.train \o x.val = s
          /\ s # <<>> => x.train # <<>>
          /\ Len(s) > 1 /\ num < 4 => x.val # <<>>
          /\ shuffle => Cardinality(both) <= 1

(* validate finds no issue exactly in the datasets that can teach a        *)
(* difference: no blank text or label, and more than one label.            *)
ASSUME IssuesAreComplete ==
    \A s \in SeqsUpTo([text : 0..1, label : 0..2], 3) :
      Issues(s) = {} <=> /\ \A i \in DOMAIN s : s[i].text # 0 /\ s[i].label # 0
                         /\ \E i, j \in DOMAIN s : s[i].label # s[j].label

(* Without a label of its own, the label tells the answer.                 *)
ASSUME ProdigyTellsAnswers ==
    LET Ann(a) == [text |-> 1, label |-> "none", answer |-> a]
    IN  FromProdigy(<<Ann("accept"), Ann("reject"), Ann("ignore")>>)
          = <<[text |-> 1, label |-> "1"], [text |-> 1, label |-> "0"],
              [text |-> 1, label |-> "ignore"]>>

(* One more reference never makes an answer worse grounded, and an answer  *)
(* whose sentences all stand in a reference is grounded fully.             *)
ASSUME GroundingIsMonotonic ==
    \A answer \in SeqsUpTo(SUBSET (1..3), 2), refs \in SeqsUpTo(SUBSET (1..3), 1),
       more \in SUBSET (1..3) :
      LET t == [n |-> 1, d |-> 2]
          before == Detect(answer, refs, t, t)
          after == Detect(answer, Append(refs, more), t, t)
      IN  /\ ~Below(after.groundedness, before.groundedness)
          /\ after.unsupported \subseteq before.unsupported
          /\ after.hallucination => before.hallucination
          /\ ~Below(One, after.groundedness)
          /\ answer # <<>> /\ (\A i \in DOMAIN answer : answer[i] \subseteq more)
               => ~Below(after.groundedness, One) /\ after.unsupported = {}

(* Whatever a judge says, the score is between 0 and 1.                    *)
ASSUME JudgesAreClamped ==
    \A n \in -1..5, d \in 1..3 :
      LET j == Judge([n |-> n, d |-> d], [n |-> 1, d |-> 2])
      IN  /\ ~Below(j.groundedness, Zero) /\ ~Below(One, j.groundedness)
          /\ j.hallucination <=> 2 * n < d

(* Two traces diverge nowhere exactly when they replay alike.              *)
ASSUME DivergesUnlessReplayed ==
    \A r, f \in SeqsUpTo([name : {"a", "b"}, status : {"OK", "ERROR"}, start : 1..2], 2) :
      Divergences(r, f) = {} <=> Replayed(r) = Replayed(f)

(* The newest item surfaces over the next one, which has a word more of    *)
(* the query in common, when that word is less than a twentieth of it: one *)
(* place in time is worth no more.  (At a twentieth the scores are equal.) *)
ASSUME RecencySurfaces ==
    \A n \in (2..40) \ {20} :
      LET newest == [words |-> {1}, time |-> 1]
          next == [words |-> {1, 2}, time |-> 0]
      IN  Filtered(<<newest, next>>, 1..n)[1].item = newest <=> n > 20

(* Names, versions, back ends and tuners are interchangeable.              *)
Symmetry == Permutations(Names) \cup Permutations(Versions)
            \cup Permutations(Builds) \cup Permutations(Tuners)
=============================================================================
