----------------------------- MODULE AgentMemory -----------------------------
(***************************************************************************)
(* core/agent_memory: one memory of an agent, either a ShortTermMemory,    *)
(* which keeps what fits a token budget, or a LongTermMemory (and its twin *)
(* InMemoryStore), which keeps everything and is searched.  Every method   *)
(* runs without an await and is one step.                                  *)
(*                                                                         *)
(* An item is abstracted to what its memory looks at: a short-term memory  *)
(* at its tokens, a long-term one at the words of its content and at its   *)
(* timestamp, which the caller sets and which need not follow the order in *)
(* which items are added.                                                  *)
(***************************************************************************)
EXTENDS Budgets

CONSTANTS Lengths,      \* characters of contents
          Given,        \* token_count arguments; 0 asks for the estimate
          Budget,       \* token_budget
          Words, Times, \* of contents, of items
          Queries,      \* sets of words searched for
          MaxShort, MaxLong  \* bounds: items ever added

ASSUME MemoryAssumption == /\ Lengths \subseteq Nat /\ Given \subseteq Nat
                           /\ Times \subseteq Nat /\ Budget \in Nat
                           /\ \A q \in Queries : IsFiniteSet(q)

VARIABLES class,   \* "short" or "long"
          buffer,  \* the items kept, in the order they were added
          total,   \* ShortTermMemory._total_tokens
          added    \* history: everything that was added since the last clear

mvars == <<class, buffer, total, added>>

MemoryInit == /\ class \in {"short", "long"}
              /\ buffer = <<>> /\ total = 0 /\ added = <<>>

(* MemoryItem.__post_init__ estimates a token_count of 0.                  *)
TokenCount(length, given) == IF given = 0 THEN Estimate(length) ELSE given

(* Bug: one item is evicted, not as many as it takes.                      *)
EvictOnce(n) == IF buffer # <<>> /\ total + n > Budget THEN 1 ELSE 0

(* The number of items that add evicts: it stops when the new one fits, or *)
(* when none is left.                                                      *)
Evicted(n) ==
    LET Fits(k) == k = Len(buffer) \/ total - Sum(SubSeq(buffer, 1, k)) + n <= Budget
    IN  CHOOSE k \in 0..Len(buffer) : Fits(k) /\ \A j \in 0..(k - 1) : ~Fits(j)

AddShort(n) ==
    /\ class = "short" /\ Len(added) < MaxShort
    /\ buffer' = Append(SubSeq(buffer, Evicted(n) + 1, Len(buffer)), n)
    /\ total' = total - Sum(SubSeq(buffer, 1, Evicted(n))) + n
    /\ added' = Append(added, n)
    /\ UNCHANGED class

(* add of LongTermMemory, save of InMemoryStore.                           *)
AddLong(words, time) ==
    /\ class = "long" /\ Len(added) < MaxLong
    /\ buffer' = Append(buffer, [words |-> words, time |-> time])
    /\ added' = Append(added, [words |-> words, time |-> time])
    /\ UNCHANGED <<class, total>>

ClearMemory == /\ buffer' = <<>> /\ total' = 0 /\ added' = <<>>
               /\ UNCHANGED class

MemoryNext == \/ \E l \in Lengths, g \in Given : AddShort(TokenCount(l, g))
              \/ \E ws \in SUBSET Words, t \in Times : AddLong(ws, t)
              \/ ClearMemory

MemorySpec == MemoryInit /\ [][MemoryNext]_mvars

-----------------------------------------------------------------------------
(* recent and load: the last n items in the order they were added.         *)
Recent(n) == IF n <= 0 THEN <<>>
             ELSE SubSeq(buffer, IF n > Len(buffer) THEN 1 ELSE Len(buffer) - n + 1,
                         Len(buffer))

Matches(words, query) == Cardinality(words \cap query)

(* Bug: the newest item gets the largest rank.                             *)
ByTimeUpwards(s) == StableSort(s, LAMBDA a, b : a.time < b.time)

ByTime(s) == StableSort(s, LAMBDA a, b : a.time > b.time)

(* overlap / |query| + 0.1 / rank for the rank-th newest, as a fraction.   *)
Scored(s, query) ==
    [r \in DOMAIN s |-> [item |-> s[r],
                         num |-> 10 * r * Matches(s[r].words, query) + Cardinality(query),
                         den |-> 10 * r * Cardinality(query)]]

(* The items with a word in common, by falling score.                      *)
Filtered(s, query) ==
    SortedAt(Scored(s, query), {r \in DOMAIN s : Matches(s[r].words, query) > 0},
             LAMBDA a, b : a.num * b.den > b.num * a.den)

Search(query, limit) ==
    LET found == Filtered(ByTime(buffer), query)
    IN  IF query = {} THEN <<>>
        ELSE [i \in 1..(IF limit < Len(found) THEN limit ELSE Len(found)) |-> found[i].item]

-----------------------------------------------------------------------------
(* However items were added, evicted and cleared, a short-term memory      *)
(* holds the longest run of the latest items that fits the budget, or the  *)
(* last one alone when it does not fit by itself, and its running total is *)
(* the sum of what it holds.                                               *)
LatestThatFit ==
    LET From(k) == SubSeq(added, k, Len(added))
        Fit(k) == k = Len(added) \/ Sum(From(k)) <= Budget
    IN  class = "short" =>
          /\ total = Sum(buffer)
          /\ added = <<>> => buffer = <<>>
          /\ \A k \in DOMAIN added :
               Fit(k) /\ (\A j \in 1..(k - 1) : ~Fit(j)) => buffer = From(k)

(* search prefers more words in common to fewer and, among equals, the     *)
(* newer item, by its timestamp.  Recency outweighs words in common only   *)
(* for a newer item that lacks less than a tenth of the query's words: a   *)
(* recent partial match can surface over an older, more complete one, but  *)
(* only in a query of more than ten words, whose one word is worth less    *)
(* than the largest weight of recency.  Every item that has a word in      *)
(* common is found, up to the limit, once.  Nothing is dropped.            *)
SearchFindsTheBest ==
    class = "long" =>
      /\ Recent(Len(added)) = added
      /\ \A q \in Queries, n \in 0..(MaxLong + 1) :
        LET hits == Search(q, n)
            Lacks(a, b) == Matches(b.words, q) - Matches(a.words, q)
            Better(a, b) == \/ Lacks(a, b) < 0
                            \/ 10 * Lacks(a, b) < Cardinality(q) /\ a.time >= b.time
            Copies(s, x) == Cardinality({i \in DOMAIN s : s[i] = x})
            found == {i \in DOMAIN buffer : buffer[i].words \cap q # {}}
        IN  /\ Len(hits) = IF n < Cardinality(found) THEN n ELSE Cardinality(found)
            /\ \A i, j \in DOMAIN hits : i < j => Better(hits[i], hits[j])
            /\ \A i \in DOMAIN hits :
                 /\ hits[i].words \cap q # {}
                 /\ Copies(hits, hits[i]) <= Copies(buffer, hits[i])
                 /\ \A k \in found : \/ Better(hits[i], buffer[k])
                                     \/ Copies(hits, buffer[k]) = Copies(buffer, buffer[k])
=============================================================================
