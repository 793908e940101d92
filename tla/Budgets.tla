------------------------------- MODULE Budgets -------------------------------
(***************************************************************************)
(* core/long_context: counting tokens, cutting a text into chunks, packing *)
(* items into a budget; and the orderings that other modules build with    *)
(* Python's sorted.  All of it is pure.                                    *)
(*                                                                         *)
(* A word is abstracted to its number of characters, a text to the         *)
(* sequence of its words, a tokenizer to the default one.                  *)
(***************************************************************************)
EXTENDS Naturals, Sequences, FiniteSets, SequencesExt

(* ceil(len / 4), at least 1, also for the empty content of a MemoryItem.  *)
Estimate(length) == IF length = 0 THEN 1 ELSE (length + 3) \div 4

CountTokens(length) == IF length = 0 THEN 0 ELSE Estimate(length)

Sum(s) == LET Upto[n \in 0..Len(s)] == IF n = 0 THEN 0 ELSE Upto[n - 1] + s[n]
          IN  Upto[Len(s)]

(* The length of " ".join(words).                                          *)
Joined(words) == IF words = <<>> THEN 0 ELSE Sum(words) + Len(words) - 1

(* The next word goes into the current chunk, which is flushed before if   *)
(* the word does not fit; a word too long by itself is a chunk of its own. *)
Placed(acc, word, tokens, max) ==
    IF acc.current # <<>> /\ tokens > max
    THEN [chunks |-> Append(acc.chunks, acc.current), current |-> <<word>>]
    ELSE [chunks |-> acc.chunks, current |-> Append(acc.current, word)]

(* Bug: the blanks between the words are not counted.                      *)
TakenWithoutBlanks(acc, word, max) ==
    Placed(acc, word, CountTokens(Sum(Append(acc.current, word))), max)

Taken(acc, word, max) ==
    Placed(acc, word, CountTokens(Joined(Append(acc.current, word))), max)

Flushed(acc) ==
    IF acc.current = <<>> THEN acc.chunks ELSE Append(acc.chunks, acc.current)

(* chunk: word after word.                                                 *)
Chunk(words, max) ==
    LET After[n \in 0..Len(words)] ==
          IF n = 0 THEN [chunks |-> <<>>, current |-> <<>>]
                   ELSE Taken(After[n - 1], words[n], max)
    IN  Flushed(After[Len(words)])

(* pack_to_budget: items up to the first that goes over the budget; later  *)
(* ones are not considered even if they would fit.                         *)
PackToBudget(items, budget) ==
    LET Take(acc, item) ==
          IF acc.full \/ acc.total + CountTokens(item) > budget
          THEN [acc EXCEPT !.full = TRUE]
          ELSE [acc EXCEPT !.taken = Append(@, item), !.total = @ + CountTokens(item)]
    IN  FoldLeft(Take, [taken |-> <<>>, total |-> 0, full |-> FALSE], items).taken

(* sorted() of the elements of s at the positions in K, with a key, or     *)
(* with a key and reverse=True: both are stable.                           *)
SortedAt(s, K, Before(_, _)) ==
    LET Place(i) == Cardinality({j \in K : \/ Before(s[j], s[i])
                                           \/ j <= i /\ ~Before(s[i], s[j])})
    IN  [k \in 1..Cardinality(K) |-> s[CHOOSE i \in K : Place(i) = k]]

StableSort(s, Before(_, _)) == SortedAt(s, DOMAIN s, Before)

(* The position in n sorted values of the p-th percentile that             *)
(* _percentile(data, p) returns: int(p / 100 * n + 0.999), at least 1.     *)
PercentileRank(n, p) ==
    LET rank == (10 * p * n + 999) \div 1000
    IN  IF rank = 0 THEN 1 ELSE IF rank > n THEN n ELSE rank
=============================================================================
