------------------------------- MODULE Indexer -------------------------------
(***************************************************************************)
(* rag/indexing/_indexer.py: Indexer.index (and index_batch, a loop of     *)
(* calls of it), with the dedup store of infra/cost_latency_optimization/  *)
(* _dedup.py and a vector store.                                           *)
(*                                                                         *)
(* Several workers may index into the same two stores: threads that share  *)
(* the in-memory ones, or processes that share the SQLite file and a       *)
(* remote vector store.  index goes to the embedder and to each store in   *)
(* turn, and a step is what it does up to the next such call; so workers   *)
(* interleave, calls raise and processes die between any two of them.      *)
(*                                                                         *)
(* A chunk is abstracted to its content (equal contents have equal         *)
(* hashes), a vector to the content it embeds.  A revision is a text of a  *)
(* document; one with fewer than MaxChunks chunks is padded with Nothing.  *)
(***************************************************************************)
EXTENDS Integers, FiniteSets

CONSTANTS Docs, Contents, Workers,
          MaxChunks,     \* bound on the chunks of a text
          Revisions,     \* the texts that callers index
          Deployments,   \* which of the two stores outlive the process
          Nothing

Indexes == 1..MaxChunks
ChunkIds == Docs \X Indexes

ASSUME IndexerAssumption ==
    /\ MaxChunks \in Nat
    /\ Nothing \notin Contents
    /\ Revisions \subseteq [doc : Docs, chunk : [Indexes -> Contents \cup {Nothing}]]
    /\ Nothing \notin Revisions
    /\ Deployments \subseteq SUBSET {"hashes", "vectors"}

VARIABLES durable,    \* the stores that outlive the process
          seen,       \* hashes in the dedup store
          store,      \* the vector under each chunk id "<doc>#<index>"
          pc,         \* where each worker is in index
          job,        \* the revision each worker indexes
          unchecked,  \* indexes of its chunks still to look up in seen
          todo,       \* new_chunks still to embed and upsert, by index
          hashes,     \* new_hashes
          counted,    \* history: contents reported as added or skipped
          lost        \* history: contents whose hash outlived their vector

indexing == <<seen, store, pc, job, unchecked, todo, hashes, counted>>
vars == <<durable, indexing, lost>>

(* SQLiteDeduplicationStore, not InMemoryDeduplicationStore.               *)
DedupDurable == "hashes" \in durable

(* Any vector store but those in memory.                                   *)
StoreDurable == "vectors" \in durable

TypeOK ==
    /\ durable \in Deployments
    /\ seen \subseteq Contents
    /\ store \in [ChunkIds -> Contents \cup {Nothing}]
    /\ pc \in [Workers -> {"idle", "filter", "embed", "upsert", "record"}]
    /\ job \in [Workers -> Revisions \cup {Nothing}]
    /\ unchecked \in [Workers -> SUBSET Indexes]
    /\ todo \in [Workers -> SUBSET Indexes]
    /\ hashes \in [Workers -> SUBSET Contents]
    /\ counted \subseteq Contents /\ lost \subseteq Contents

Init ==
    /\ durable \in Deployments
    /\ seen = {}
    /\ store = [id \in ChunkIds |-> Nothing]
    /\ pc = [w \in Workers |-> "idle"]
    /\ job = [w \in Workers |-> Nothing]
    /\ unchecked = [w \in Workers |-> {}]
    /\ todo = [w \in Workers |-> {}]
    /\ hashes = [w \in Workers |-> {}]
    /\ counted = {} /\ lost = {}

-----------------------------------------------------------------------------
Chunks(r) == {j \in Indexes : r.chunk[j] # Nothing}

IsFirst(j, S) == j \in S /\ \A k \in S : j <= k

Goto(w, l) == pc' = [pc EXCEPT ![w] = l]

(* The call returns or raises: what the worker held is gone.               *)
EndCall(w) == /\ Goto(w, "idle")
              /\ job' = [job EXCEPT ![w] = Nothing]
              /\ unchecked' = [unchecked EXCEPT ![w] = {}]
              /\ todo' = [todo EXCEPT ![w] = {}]
              /\ hashes' = [hashes EXCEPT ![w] = {}]

(* index(doc, text): the text is chunked.  Without chunks nothing happens. *)
Begin(w, r) ==
    /\ pc[w] = "idle"
    /\ Chunks(r) # {}
    /\ Goto(w, "filter")
    /\ job' = [job EXCEPT ![w] = r]
    /\ unchecked' = [unchecked EXCEPT ![w] = Chunks(r)]
    /\ UNCHANGED <<durable, seen, store, todo, hashes, counted, lost>>

(* Bug: the report counts a new chunk before it is embedded and stored.    *)
CheckCountsAll(w) ==
    /\ pc[w] = "filter"
    /\ \E j \in Indexes :
          LET c == job[w].chunk[j]
          IN  /\ IsFirst(j, unchecked[w])
              /\ unchecked' = [unchecked EXCEPT ![w] = @ \ {j}]
              /\ counted' = counted \cup {c}
              /\ todo' = IF c \in seen THEN todo ELSE [todo EXCEPT ![w] = @ \cup {j}]
    /\ UNCHANGED <<durable, seen, store, pc, job, hashes, lost>>

(* `h in self._dedup_store`, one chunk after the other: a chunk whose hash *)
(* is there is skipped.                                                    *)
Check(w) ==
    /\ pc[w] = "filter"
    /\ \E j \in Indexes :
          LET c == job[w].chunk[j]
          IN  /\ IsFirst(j, unchecked[w])
              /\ unchecked' = [unchecked EXCEPT ![w] = @ \ {j}]
              /\ \/ c \in seen /\ counted' = counted \cup {c} /\ UNCHANGED todo
                 \/ /\ c \notin seen
                    /\ todo' = [todo EXCEPT ![w] = @ \cup {j}]
                    /\ UNCHANGED counted
    /\ UNCHANGED <<durable, seen, store, pc, job, hashes, lost>>

(* All chunks are looked up: embed the new ones, if there are any.         *)
Filtered(w) ==
    /\ pc[w] = "filter"
    /\ unchecked[w] = {}
    /\ IF todo[w] # {}
       THEN Goto(w, "embed") /\ UNCHANGED <<job, unchecked, todo, hashes>>
       ELSE EndCall(w)
    /\ UNCHANGED <<durable, seen, store, counted, lost>>

(* The embedder raises: the report carries the error, nothing is written.  *)
EmbedFails(w) ==
    /\ pc[w] = "embed"
    /\ EndCall(w)
    /\ UNCHANGED <<durable, seen, store, counted, lost>>

(* Bug: a short embedding is taken to cover the chunks that follow.        *)
EmbedReturnsAllHashes(w) ==
    /\ pc[w] = "embed"
    /\ \E last \in 0..MaxChunks :
          LET embedded == {j \in todo[w] : j <= last}
          IN  /\ todo' = [todo EXCEPT ![w] = embedded]
              /\ Goto(w, IF embedded = {} THEN "record" ELSE "upsert")
    /\ hashes' = [hashes EXCEPT ![w] = {job[w].chunk[j] : j \in todo[w]}]
    /\ UNCHANGED <<durable, seen, store, job, unchecked, counted, lost>>

(* zip(new_chunks, vectors, strict=False): with fewer vectors than chunks  *)
(* only the first chunks go on; with none, add_batch gets an empty list.   *)
EmbedReturns(w) ==
    /\ pc[w] = "embed"
    /\ \E last \in 0..MaxChunks :
          LET embedded == {j \in todo[w] : j <= last}
          IN  /\ todo' = [todo EXCEPT ![w] = embedded]
              /\ Goto(w, IF embedded = {} THEN "record" ELSE "upsert")
    /\ UNCHANGED <<durable, seen, store, job, unchecked, hashes, counted, lost>>

(* Bug: the chunk id counts the new chunks only, not all of the text.      *)
UpsertRenumbered(w) ==
    /\ pc[w] = "upsert"
    /\ \E j \in Indexes :
          LET c == job[w].chunk[j]
              k == Cardinality(hashes[w]) + 1
          IN  /\ IsFirst(j, todo[w])
              /\ store' = [store EXCEPT ![<<job[w].doc, k>>] = c]
              /\ todo' = [todo EXCEPT ![w] = @ \ {j}]
              /\ hashes' = [hashes EXCEPT ![w] = @ \cup {c}]
              /\ counted' = counted \cup {c}
              /\ lost' = lost \ {c}
              /\ Goto(w, IF todo[w] = {j} THEN "record" ELSE "upsert")
    /\ UNCHANGED <<durable, seen, job, unchecked>>

(* One upsert: it replaces whatever is stored under the chunk id.          *)
Upsert(w) ==
    /\ pc[w] = "upsert"
    /\ \E j \in Indexes :
          LET c == job[w].chunk[j]
          IN  /\ IsFirst(j, todo[w])
              /\ store' = [store EXCEPT ![<<job[w].doc, j>>] = c]
              /\ todo' = [todo EXCEPT ![w] = @ \ {j}]
              /\ hashes' = [hashes EXCEPT ![w] = @ \cup {c}]
              /\ counted' = counted \cup {c}
              /\ lost' = lost \ {c}
              /\ Goto(w, IF todo[w] = {j} THEN "record" ELSE "upsert")
    /\ UNCHANGED <<durable, seen, job, unchecked>>

(* Either store raises: the exception leaves index, and index_batch.  (An  *)
(* add_batch that raises after its insert took effect is a Record.)        *)
StoreRaises(w) ==
    /\ pc[w] \in {"filter", "upsert", "record"}
    /\ EndCall(w)
    /\ UNCHANGED <<durable, seen, store, counted, lost>>

(* add_batch: one transaction for all the hashes of the call.              *)
Record(w) ==
    /\ pc[w] = "record"
    /\ seen' = seen \cup hashes[w]
    /\ EndCall(w)
    /\ UNCHANGED <<durable, store, counted, lost>>

(* reset_dedup, by any holder of the indexer.                              *)
ResetDedup ==
    /\ seen' = {}
    /\ UNCHANGED <<durable, store, pc, job, unchecked, todo, hashes, counted, lost>>

-----------------------------------------------------------------------------
(* Processes die.  Workers that share a store in memory are threads of one *)
(* process and die together, with that store; otherwise any of them may.   *)
(* Hashes that outlive the vectors hide them from every later call.        *)
MayDie == IF DedupDurable /\ StoreDurable THEN SUBSET Workers ELSE {Workers}

Crash ==
    /\ \E dead \in MayDie :
          /\ dead # {}
          /\ pc' = [w \in Workers |-> IF w \in dead THEN "idle" ELSE pc[w]]
          /\ job' = [w \in Workers |-> IF w \in dead THEN Nothing ELSE job[w]]
          /\ unchecked' = [w \in Workers |-> IF w \in dead THEN {} ELSE unchecked[w]]
          /\ todo' = [w \in Workers |-> IF w \in dead THEN {} ELSE todo[w]]
          /\ hashes' = [w \in Workers |-> IF w \in dead THEN {} ELSE hashes[w]]
    /\ seen' = IF DedupDurable THEN seen ELSE {}
    /\ store' = IF StoreDurable THEN store ELSE [id \in ChunkIds |-> Nothing]
    /\ counted' = IF StoreDurable THEN counted ELSE {}
    /\ lost' = IF StoreDurable THEN lost ELSE seen'
    /\ UNCHANGED durable

Step(w) == \/ \E r \in Revisions : Begin(w, r)
           \/ Check(w) \/ Filtered(w)
           \/ EmbedFails(w) \/ EmbedReturns(w)
           \/ Upsert(w) \/ Record(w) \/ StoreRaises(w)

Next == (\E w \in Workers : Step(w)) \/ ResetDedup \/ Crash

Spec == Init /\ [][Next]_vars

-----------------------------------------------------------------------------
Stored == {store[id] : id \in ChunkIds}

(* Documents do not change: each chunk id has one content.                 *)
StableDocuments ==
    \A r, s \in Revisions : r.doc = s.doc => r.chunk = s.chunk

(* A hash is recorded only when its vector is in the store: no error,      *)
(* short embedding, crash or rival worker can make a chunk look indexed    *)
(* that is not, which would hide it from every later retry.  There is one  *)
(* exception, and only where hashes in SQLite go with vectors in memory:   *)
(* what a restart took from the store and nobody has upserted since.       *)
SeenIsStored == StableDocuments => /\ seen \subseteq Stored \cup lost
                                   /\ lost # {} => DedupDurable /\ ~StoreDurable

(* What a report counts as added or as skipped since the store was last    *)
(* empty can be retrieved, but for what a restart took: the content is in  *)
(* the vector store, under this chunk id or another.                       *)
CountedIsStored == StableDocuments => counted \subseteq Stored \cup lost

(* A crash or an error costs work, not data: a stored chunk of a document  *)
(* that does not change is never replaced by another content or dropped    *)
(* while the store lives.                                                  *)
StoredStays ==
    [][StableDocuments /\ StoreDurable =>
          \A id \in ChunkIds : store[id] # Nothing => store'[id] = store[id]]_vars

-----------------------------------------------------------------------------
(* docs/rag/indexing.md: "This is critical for correctness when content is *)
(* updated: the old vector is simply replaced in-place."  So a revision    *)
(* for which index would write nothing, every chunk being skipped, must be *)
(* the one that the chunk ids of its document hold.                        *)
UpdateReplacesInPlace ==
    \A r \in Revisions :
        /\ \A j \in Chunks(r) : r.chunk[j] \in seen
        /\ \A w \in Workers : pc[w] = "idle"
        => \A j \in Chunks(r) : store[<<r.doc, j>>] = r.chunk[j]
=============================================================================
