---------------------------- MODULE IndexerProofs ----------------------------
(***************************************************************************)
(* Proofs about Indexer.tla for any number of workers, documents, chunks   *)
(* and revisions, and for every deployment: with documents that do not     *)
(* change, a recorded hash has its vector in the store, except what a      *)
(* restart took where hashes in SQLite go with vectors in memory.          *)
(***************************************************************************)
EXTENDS Indexer, TLAPS

(* A worker in a call has a revision at hand, and the chunks it still has  *)
(* to look up or to upsert are chunks of that revision.                    *)
JobOK(w) ==
    /\ pc[w] # "idle" => job[w] \in Revisions
    /\ unchecked[w] \subseteq Chunks(job[w])
    /\ todo[w] \subseteq Chunks(job[w])
    /\ pc[w] = "idle" => unchecked[w] = {} /\ todo[w] = {} /\ hashes[w] = {}

TypeInv == TypeOK /\ \A w \in Workers : JobOK(w)

LEMMA ChunkTypes ==
  ASSUME NEW r \in Revisions, NEW j \in Chunks(r)
  PROVE  /\ j \in Indexes /\ r.chunk[j] \in Contents
         /\ r.doc \in Docs /\ <<r.doc, j>> \in ChunkIds
  BY IndexerAssumption DEF Chunks, ChunkIds

LEMMA TypeInvInit == Init => TypeInv
  BY DEF Init, TypeInv, TypeOK, JobOK

LEMMA TypeInvNext == TypeInv /\ [Next]_vars => TypeInv'
<1> SUFFICES ASSUME TypeInv, [Next]_vars PROVE TypeInv'
  OBVIOUS
<1> USE DEF TypeInv, TypeOK, JobOK
<1>1. ASSUME NEW w \in Workers, NEW r \in Revisions, Begin(w, r) PROVE TypeInv'
  <2>1. Chunks(r) \subseteq Indexes
    BY DEF Chunks
  <2> QED
    BY <1>1, <2>1 DEF Begin, Goto
<1>2. ASSUME NEW w \in Workers, Check(w) PROVE TypeInv'
  <2>1. PICK j \in Indexes :
           /\ j \in unchecked[w]
           /\ unchecked' = [unchecked EXCEPT ![w] = @ \ {j}]
           /\ counted' = counted \/ counted' = counted \cup {job[w].chunk[j]}
           /\ todo' = todo \/ todo' = [todo EXCEPT ![w] = @ \cup {j}]
    BY <1>2 DEF Check, IsFirst
  <2>2. job[w].chunk[j] \in Contents /\ j \in Chunks(job[w])
    BY <1>2, <2>1, ChunkTypes DEF Check
  <2>3. UNCHANGED <<durable, seen, store, pc, job, hashes, lost>> /\ pc[w] = "filter"
    BY <1>2 DEF Check
  <2> QED
    BY <2>1, <2>2, <2>3
<1>3. ASSUME NEW w \in Workers, Filtered(w) PROVE TypeInv'
  <2>1. CASE todo[w] # {}
    BY <1>3, <2>1 DEF Filtered, Goto
  <2>2. CASE todo[w] = {}
    BY <1>3, <2>2 DEF Filtered, EndCall, Goto
  <2> QED
    BY <2>1, <2>2
<1>4. ASSUME NEW w \in Workers, EmbedFails(w) \/ StoreRaises(w) PROVE TypeInv'
  BY <1>4 DEF EmbedFails, StoreRaises, EndCall, Goto
<1>5. ASSUME NEW w \in Workers, EmbedReturns(w) PROVE TypeInv'
  <2>1. PICK last \in 0..MaxChunks :
           /\ todo' = [todo EXCEPT ![w] = {j \in todo[w] : j <= last}]
           /\ \/ pc' = [pc EXCEPT ![w] = "record"]
              \/ pc' = [pc EXCEPT ![w] = "upsert"]
    BY <1>5 DEF EmbedReturns, Goto
  <2>2. pc[w] = "embed" /\ UNCHANGED <<durable, seen, store, job, unchecked, hashes, counted, lost>>
    BY <1>5 DEF EmbedReturns
  <2> QED
    BY <2>1, <2>2
<1>6. ASSUME NEW w \in Workers, Upsert(w) PROVE TypeInv'
  <2>1. PICK j \in Indexes :
           /\ j \in todo[w]
           /\ store' = [store EXCEPT ![<<job[w].doc, j>>] = job[w].chunk[j]]
           /\ todo' = [todo EXCEPT ![w] = @ \ {j}]
           /\ hashes' = [hashes EXCEPT ![w] = @ \cup {job[w].chunk[j]}]
           /\ counted' = counted \cup {job[w].chunk[j]}
           /\ lost' = lost \ {job[w].chunk[j]}
           /\ \/ pc' = [pc EXCEPT ![w] = "record"]
              \/ pc' = [pc EXCEPT ![w] = "upsert"]
    BY <1>6 DEF Upsert, IsFirst, Goto
  <2>2. job[w].chunk[j] \in Contents
    BY <1>6, <2>1, ChunkTypes DEF Upsert
  <2>3. pc[w] = "upsert" /\ UNCHANGED <<durable, seen, job, unchecked>>
    BY <1>6 DEF Upsert
  <2>4. /\ store' \in [ChunkIds -> Contents \cup {Nothing}]
        /\ counted' \subseteq Contents /\ lost' \subseteq Contents
        /\ hashes' \in [Workers -> SUBSET Contents]
    BY <2>1, <2>2
  <2>5. /\ pc' \in [Workers -> {"idle", "filter", "embed", "upsert", "record"}]
        /\ todo' \in [Workers -> SUBSET Indexes]
    BY <2>1
  <2>6. \A v \in Workers : JobOK(v)'
    BY <2>1, <2>3
  <2> QED
    BY <2>3, <2>4, <2>5, <2>6
<1>7. ASSUME NEW w \in Workers, Record(w) PROVE TypeInv'
  BY <1>7 DEF Record, EndCall, Goto
<1>8. CASE ResetDedup
  BY <1>8 DEF ResetDedup
<1>9. CASE Crash
  <2>1. PICK dead : dead \in MayDie /\
           /\ pc' = [w \in Workers |-> IF w \in dead THEN "idle" ELSE pc[w]]
           /\ job' = [w \in Workers |-> IF w \in dead THEN Nothing ELSE job[w]]
           /\ unchecked' = [w \in Workers |-> IF w \in dead THEN {} ELSE unchecked[w]]
           /\ todo' = [w \in Workers |-> IF w \in dead THEN {} ELSE todo[w]]
           /\ hashes' = [w \in Workers |-> IF w \in dead THEN {} ELSE hashes[w]]
    BY <1>9 DEF Crash
  <2>2. /\ seen' \subseteq Contents /\ counted' \subseteq Contents
        /\ lost' \subseteq Contents /\ durable' = durable
        /\ store' \in [ChunkIds -> Contents \cup {Nothing}]
    BY <1>9 DEF Crash
  <2> QED
    BY <2>1, <2>2
<1>10. CASE UNCHANGED vars
  BY <1>10 DEF vars, indexing
<1> QED
  BY <1>1, <1>2, <1>3, <1>4, <1>5, <1>6, <1>7, <1>8, <1>9, <1>10 DEF Next, Step

(* Every reachable state of the indexer is well typed, and a worker only   *)
(* has chunks of its own revision in hand.                                 *)
THEOREM IndexerTypeCorrect == Spec => []TypeOK
<1>1. TypeInv => TypeOK
  BY DEF TypeInv
<1> QED
  BY <1>1, TypeInvInit, TypeInvNext, PTL DEF Spec
-----------------------------------------------------------------------------
(***************************************************************************)
(* What is recorded is stored.  SeenIsStored is not inductive: a worker    *)
(* records the hashes it holds, perhaps long after it stored the vectors,  *)
(* so those must be stored as well, and must stay stored although other    *)
(* workers upsert meanwhile.  They stay because a stored vector is always  *)
(* the one that every text of its document gives its chunk id.  A restart  *)
(* that empties the store kills every worker, and so all they hold.        *)
(***************************************************************************)
Kept(S) == \A c \in S : \E id \in ChunkIds : store[id] = c

StoreMatches ==
    \A id \in ChunkIds : store[id] # Nothing =>
        \A r \in Revisions : r.doc = id[1] => r.chunk[id[2]] = store[id]

StableInv ==
    /\ StoreMatches
    /\ Kept(seen \ lost) /\ Kept(counted \ lost)
    /\ \A w \in Workers : Kept(hashes[w])
    /\ lost # {} => DedupDurable /\ ~StoreDurable

IndexInv == TypeInv /\ (StableDocuments => StableInv)

StoreGrows ==
    \A id \in ChunkIds : store[id] # Nothing => store'[id] = store[id]

(* An upsert writes under an id that is free or holds that very content.   *)
LEMMA UpsertGrowsStore ==
  ASSUME TypeInv, StableDocuments, StoreMatches, NEW w \in Workers,
         pc[w] = "upsert", NEW j \in todo[w],
         store' = [store EXCEPT ![<<job[w].doc, j>>] = job[w].chunk[j]]
  PROVE  /\ StoreGrows /\ StoreMatches'
         /\ job[w].chunk[j] \in Contents
         /\ \E id \in ChunkIds : store'[id] = job[w].chunk[j]
<1>1. job[w] \in Revisions /\ j \in Chunks(job[w])
  BY DEF TypeInv, JobOK
<1> DEFINE id == <<job[w].doc, j>>
           c == job[w].chunk[j]
<1>2. id \in ChunkIds /\ c \in Contents /\ j \in Indexes
  BY <1>1, ChunkTypes
<1>3. store \in [ChunkIds -> Contents \cup {Nothing}]
  BY DEF TypeInv, TypeOK
<1>4. store'[id] = c /\ \A x \in ChunkIds : x # id => store'[x] = store[x]
  BY <1>2, <1>3
<1>5. store[id] # Nothing => store[id] = c
  BY <1>1, <1>2 DEF StoreMatches
<1>6. \A r \in Revisions : r.doc = job[w].doc => r.chunk[j] = c
  BY <1>1 DEF StableDocuments
<1>7. StoreGrows
  BY <1>4, <1>5 DEF StoreGrows
<1>8. StoreMatches'
  BY <1>2, <1>4, <1>6 DEF StoreMatches
<1> QED
  BY <1>2, <1>4, <1>7, <1>8

(* Steps that leave the vector store alone.                                *)
LEMMA SameStore ==
  ASSUME UNCHANGED store
  PROVE  /\ StoreMatches => StoreMatches'
         /\ \A S : Kept(S) => Kept(S)'
  BY DEF StoreMatches, Kept

LEMMA IndexInvInit == Init => IndexInv
  BY TypeInvInit DEF Init, IndexInv, StableInv, StoreMatches, Kept

LEMMA StableInvNext ==
  ASSUME TypeInv, StableDocuments, StableInv, [Next]_vars
  PROVE  StableInv'
<1> USE DEF StableInv
<1> DEFINE Placed == lost # {} => DedupDurable /\ ~StoreDurable
<1>1. ASSUME NEW w \in Workers, NEW r \in Revisions, Begin(w, r) PROVE StableInv'
  BY <1>1, SameStore DEF Begin, DedupDurable, StoreDurable
<1>2. ASSUME NEW w \in Workers, Check(w) PROVE StableInv'
  <2>1. PICK j \in Indexes :
           \/ counted' = counted
           \/ job[w].chunk[j] \in seen /\ counted' = counted \cup {job[w].chunk[j]}
    BY <1>2 DEF Check
  <2>2. UNCHANGED <<durable, seen, store, hashes, lost>>
    BY <1>2 DEF Check
  <2>3. Kept(counted \ lost)'
    BY <2>1, <2>2 DEF Kept
  <2> QED
    BY <2>2, <2>3, SameStore DEF Kept, DedupDurable, StoreDurable
<1>3. ASSUME NEW w \in Workers,
             Filtered(w) \/ EmbedFails(w) \/ StoreRaises(w)
      PROVE  StableInv'
  <2>1. /\ UNCHANGED <<durable, seen, store, counted, lost>>
        /\ hashes' = hashes \/ hashes' = [hashes EXCEPT ![w] = {}]
    BY <1>3 DEF Filtered, EmbedFails, StoreRaises, EndCall
  <2>2. \A v \in Workers : Kept(hashes'[v])
    BY <2>1 DEF Kept, TypeInv, TypeOK
  <2> QED
    BY <2>1, <2>2, SameStore DEF Kept, DedupDurable, StoreDurable
<1>4. ASSUME NEW w \in Workers, EmbedReturns(w) PROVE StableInv'
  BY <1>4, SameStore DEF EmbedReturns, DedupDurable, StoreDurable
<1>5. ASSUME NEW w \in Workers, Upsert(w) PROVE StableInv'
  <2>1. PICK j \in Indexes :
           /\ j \in todo[w]
           /\ store' = [store EXCEPT ![<<job[w].doc, j>>] = job[w].chunk[j]]
           /\ hashes' = [hashes EXCEPT ![w] = @ \cup {job[w].chunk[j]}]
           /\ counted' = counted \cup {job[w].chunk[j]}
           /\ lost' = lost \ {job[w].chunk[j]}
    BY <1>5 DEF Upsert, IsFirst
  <2>2. /\ StoreGrows /\ StoreMatches'
        /\ \E id \in ChunkIds : store'[id] = job[w].chunk[j]
    BY <1>5, <2>1, UpsertGrowsStore DEF Upsert
  <2>3. /\ seen \subseteq Contents /\ counted \subseteq Contents
        /\ \A v \in Workers : hashes[v] \subseteq Contents
    BY DEF TypeInv, TypeOK
  <2>4. UNCHANGED <<durable, seen>>
    BY <1>5 DEF Upsert
  <2>5. ASSUME NEW S, S \subseteq Contents, Kept(S)
        PROVE  \A c \in S \cup {job[w].chunk[j]} : \E id \in ChunkIds : store'[id] = c
    BY <2>2, <2>5, IndexerAssumption DEF Kept, StoreGrows
  <2>6. Kept(seen \ lost)' /\ Kept(counted \ lost)'
    <3>1. /\ \A c \in (seen \ lost) \cup {job[w].chunk[j]} : \E id \in ChunkIds : store'[id] = c
          /\ \A c \in (counted \ lost) \cup {job[w].chunk[j]} : \E id \in ChunkIds : store'[id] = c
      BY <2>3, <2>5
    <3> QED
      BY <2>1, <2>4, <3>1 DEF Kept
  <2>7. \A v \in Workers : Kept(hashes[v])'
    <3>1. ASSUME NEW v \in Workers PROVE Kept(hashes[v])'
      <4>1. hashes'[v] \subseteq hashes[v] \cup {job[w].chunk[j]}
        BY <2>1 DEF TypeInv, TypeOK
      <4>2. \A c \in hashes[v] \cup {job[w].chunk[j]} : \E id \in ChunkIds : store'[id] = c
        BY <2>3, <2>5
      <4> QED
        BY <4>1, <4>2 DEF Kept
    <3> QED
      BY <3>1
  <2>8. Placed'
    BY <2>1, <2>4 DEF DedupDurable, StoreDurable
  <2> QED
    BY <2>2, <2>6, <2>7, <2>8
<1>6. ASSUME NEW w \in Workers, Record(w) PROVE StableInv'
  <2>1. /\ UNCHANGED <<durable, store, counted, lost>> /\ seen' = seen \cup hashes[w]
        /\ hashes' = [hashes EXCEPT ![w] = {}]
    BY <1>6 DEF Record, EndCall
  <2>2. Kept(seen \ lost)' /\ \A v \in Workers : Kept(hashes'[v])
    BY <2>1 DEF Kept, TypeInv, TypeOK
  <2> QED
    BY <2>1, <2>2, SameStore DEF Kept, DedupDurable, StoreDurable
<1>7. CASE ResetDedup
  BY <1>7, SameStore DEF ResetDedup, Kept, DedupDurable, StoreDurable
<1>8. CASE Crash /\ StoreDurable
  <2>1. /\ UNCHANGED <<durable, store, counted, lost>>
        /\ seen' \subseteq seen
        /\ \A v \in Workers : hashes'[v] \subseteq hashes[v]
    BY <1>8 DEF Crash, TypeInv, TypeOK
  <2>2. Kept(seen \ lost)' /\ \A v \in Workers : Kept(hashes'[v])
    BY <2>1 DEF Kept
  <2> QED
    BY <2>1, <2>2, SameStore DEF Kept, DedupDurable, StoreDurable
(* The vectors die with the process: what remains of the hashes is lost,   *)
(* and every worker dies.                                                  *)
<1>9. CASE Crash /\ ~StoreDurable
  <2>1. /\ lost' = seen' /\ counted' = {} /\ durable' = durable
        /\ seen' # {} => DedupDurable
        /\ store' = [id \in ChunkIds |-> Nothing]
        /\ MayDie = {Workers}
    BY <1>9 DEF Crash, MayDie
  <2>2. \A v \in Workers : hashes'[v] = {}
    BY <1>9, <2>1 DEF Crash
  <2>3. Placed'
    BY <1>9, <2>1 DEF DedupDurable, StoreDurable
  <2> QED
    BY <2>1, <2>2, <2>3 DEF Kept, StoreMatches
<1>10. CASE UNCHANGED vars
  BY <1>10, SameStore DEF vars, indexing, Kept, DedupDurable, StoreDurable
<1> QED
  BY <1>1, <1>2, <1>3, <1>4, <1>5, <1>6, <1>7, <1>8, <1>9, <1>10 DEF Next, Step

LEMMA IndexInvNext == IndexInv /\ [Next]_vars => IndexInv'
  BY TypeInvNext, StableInvNext DEF IndexInv, StableDocuments

LEMMA KeptIsStored ==
  ASSUME NEW S, Kept(S)
  PROVE  S \subseteq Stored
  BY DEF Kept, Stored

(* For every deployment and any number of workers: no error, short         *)
(* embedding, crash or rival worker makes a chunk look indexed that is     *)
(* not, and so hides it from every later call, except that a restart hides *)
(* what it takes from a store in memory whose hashes are in SQLite.        *)
THEOREM RecordedIsStored == Spec => []SeenIsStored
<1>1. IndexInv => SeenIsStored
  <2> SUFFICES ASSUME IndexInv, StableDocuments
               PROVE  seen \subseteq Stored \cup lost
    BY DEF IndexInv, StableInv, SeenIsStored
  <2>1. seen \ lost \subseteq Stored
    BY KeptIsStored DEF IndexInv, StableInv
  <2> QED
    BY <2>1
<1> QED
  BY <1>1, IndexInvInit, IndexInvNext, PTL DEF Spec

(* What the reports count as added or skipped since the store was last     *)
(* empty can be retrieved, with the same exception.                        *)
THEOREM ReportedIsStored == Spec => []CountedIsStored
<1>1. IndexInv => CountedIsStored
  <2> SUFFICES ASSUME IndexInv, StableDocuments
               PROVE  counted \subseteq Stored \cup lost
    BY DEF CountedIsStored
  <2>1. counted \ lost \subseteq Stored
    BY KeptIsStored DEF IndexInv, StableInv
  <2> QED
    BY <2>1
<1> QED
  BY <1>1, IndexInvInit, IndexInvNext, PTL DEF Spec

(* No step replaces or drops a stored chunk of unchanging documents.       *)
THEOREM StoredChunksStay == Spec => StoredStays
<1>1. IndexInv /\ [Next]_vars =>
        [StableDocuments /\ StoreDurable =>
           \A id \in ChunkIds : store[id] # Nothing => store'[id] = store[id]]_vars
  <2> SUFFICES ASSUME IndexInv, Next, StableDocuments, StoreDurable
               PROVE  StoreGrows
    BY DEF StoreGrows
  <2>1. ASSUME NEW w \in Workers, Upsert(w) PROVE StoreGrows
    <3>1. PICK j \in Indexes :
             /\ j \in todo[w]
             /\ store' = [store EXCEPT ![<<job[w].doc, j>>] = job[w].chunk[j]]
      BY <2>1 DEF Upsert, IsFirst
    <3> QED
      BY <2>1, <3>1, UpsertGrowsStore DEF Upsert, IndexInv, StableInv
  <2>2. ASSUME UNCHANGED store PROVE StoreGrows
    BY <2>2 DEF StoreGrows
  <2>3. ASSUME NEW w \in Workers, Step(w) PROVE Upsert(w) \/ UNCHANGED store
    BY <2>3 DEF Step, Begin, Check, Filtered, EmbedFails, EmbedReturns,
                StoreRaises, Record
  <2> QED
    BY <2>1, <2>2, <2>3 DEF Next, ResetDedup, Crash
<1> QED
  BY <1>1, IndexInvInit, IndexInvNext, PTL DEF Spec, StoredStays
=============================================================================
