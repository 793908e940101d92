---------------------------- MODULE VectorStores ----------------------------
(***************************************************************************)
(* rag/vector_store: the six back ends behind the VectorStore protocol.    *)
(* InMemoryVectorStore and FAISSVectorStore are objects that their users,  *)
(* the coroutines of one process, share; the stores for Chroma, pgvector,  *)
(* Weaviate and Elasticsearch keep a connection flag and the length of the *)
(* vectors, and everything else on a server that several processes share.  *)
(*                                                                         *)
(* A step of a remote store is the code up to its next call of the server, *)
(* with that call: other users act in between, any call may fail, and the  *)
(* reply to a call that was carried out may be lost.  The servers are      *)
(* external and modelled as the comments of the code describe them.        *)
(*                                                                         *)
(* A vector and its metadata are one entry; Sim is its similarity to the   *)
(* one query that is asked.                                                *)
(***************************************************************************)
EXTENDS Naturals, Sequences, FiniteSets

CONSTANTS Users,      \* of the store: processes, or coroutines of one process
          Ids,        \* doc_id
          Entries,    \* vectors with their metadata
          Dim, Sim,   \* length of each vector, its similarity to the query
          MaxK,       \* bound of top_k
          None,
          Raised      \* the result of a call that raised

ASSUME StoresAssumption == /\ Dim \in [Entries -> Nat] /\ Sim \in [Entries -> Nat]
                           /\ MaxK \in Nat \ {0}
                           /\ None \notin Entries \cup Nat \cup [Ids -> Entries \cup {None}]

VARIABLES kind,     \* the back end
          store,    \* the stored entries: _store, _data or those on the server
          index,    \* FAISS: the entries in the index, or None
          dirty,    \* FAISS: _dirty
          server,   \* the collection, table or index on the server
          ready,    \* _ready of each user
          dims,     \* _dimensions of each user's store object
          broken,   \* pgvector: the connection is in a failed transaction
          call,     \* the call each user is in, with the server call it makes next
          answer    \* the call that has just ended, or None

vars == <<kind, store, index, dirty, server, ready, dims, broken, call, answer>>

InProcess == {"memory", "faiss"}
Kinds == InProcess \cup {"chroma", "pgvector", "weaviate", "elastic"}

Empty == [i \in Ids |-> None]
Maps == [Ids -> Entries \cup {None}]
Stored(m) == {i \in Ids : m[i] # None}

(* upsert, delete, search, the inspections and ensure_collection of the    *)
(* VectorStore protocol, with their arguments.                             *)
Requests == [op : {"upsert"}, id : Ids, entry : Entries]
            \cup [op : {"delete", "contains"}, id : Ids]
            \cup [op : {"search"}, k : 1..MaxK]
            \cup [op : {"len", "ensure"}]

Steps == {"open", "create", "write", "fetch", "insert", "replace", "look", "remove",
          "count", "query", "ask", "tally"}

TypeOK == /\ kind \in Kinds
          /\ store \in Maps
          /\ index \in Maps \cup {None} /\ dirty \in BOOLEAN
          /\ server.exists \in BOOLEAN /\ server.shown \in Maps
          /\ server.dim \in {Dim[e] : e \in Entries} \cup {None}
          /\ ready \in [Users -> BOOLEAN] /\ broken \in [Users -> BOOLEAN]
          /\ dims \in [Users -> {Dim[e] : e \in Entries} \cup {None}]
          /\ \A u \in Users : call[u] # None => /\ call[u].req \in Requests
                                                /\ call[u].at \in Steps
                                                /\ call[u].n \in 0..MaxK

Init == /\ kind \in Kinds
        /\ store = Empty
        /\ index = None /\ dirty = FALSE
        /\ server = [exists |-> FALSE, dim |-> None, shown |-> Empty]
        /\ ready = [u \in Users |-> FALSE]
        /\ dims = [u \in Users |-> None]
        /\ broken = [u \in Users |-> FALSE]
        /\ call = [u \in Users |-> None]
        /\ answer = None

Remote == kind \notin InProcess

-----------------------------------------------------------------------------
(* Rankings.                                                               *)

Least(a, b) == IF a < b THEN a ELSE b

(* The ways to list n entries of m, the most similar first.                *)
Lists(m, n) ==
    {r \in [1..n -> Stored(m)] :
        \A a, b \in 1..n : a < b => r[a] # r[b] /\ Sim[m[r[a]]] >= Sim[m[r[b]]]}

(* Exact search, by brute force or IndexFlatIP: the k best of the entries. *)
TopK(m, k) ==
    LET n == Least(k, Cardinality(Stored(m)))
    IN  {r \in Lists(m, n) :
            \A i \in Stored(m) \ {r[a] : a \in 1..n} :
               \A a \in 1..n : Sim[m[i]] <= Sim[m[r[a]]]}

(* Approximate search, by IVFFlat or HNSW: it may miss any of the best.    *)
Nearby(m, k) == UNION {Lists(m, n) : n \in 0..k}

(* The hits of a ranking r, scored by the entries of m and described by    *)
(* the metadata of d.                                                      *)
Results(m, d, r) == [a \in DOMAIN r |-> [id |-> r[a], scored |-> m[r[a]], meta |-> d[r[a]]]]

-----------------------------------------------------------------------------
(* The in-process stores: every operation is one step.                     *)

Ends(u, op, result) == /\ answer' = <<u, op, result>>
                       /\ call' = [call EXCEPT ![u] = None]

Idle(u) == call[u] = None

Fits(u, e) == dims[u] = None \/ dims[u] = Dim[e]

(* FAISS refuses a vector of another length than its first.                *)
LocalRefuse(u, e) ==
    /\ kind = "faiss" /\ Idle(u) /\ ~Fits(u, e)
    /\ Ends(u, "upsert", Raised)
    /\ UNCHANGED <<kind, store, index, dirty, server, ready, dims, broken>>

LocalUpsert(u, i, e) ==
    /\ ~Remote /\ Idle(u)
    /\ kind = "memory" \/ Fits(u, e)
    /\ store' = [store EXCEPT ![i] = e]
    /\ dims' = IF kind = "faiss" THEN [v \in Users |-> Dim[e]] ELSE dims
    /\ dirty' = (kind = "faiss")
    /\ Ends(u, "upsert", "done")
    /\ UNCHANGED <<kind, index, server, ready, broken>>

(* Bug: a deletion does not mark the FAISS index as out of date.           *)
LocalDeleteKeepsIndex(u, i) ==
    /\ ~Remote /\ Idle(u)
    /\ Ends(u, "delete", store[i] # None)
    /\ store' = [store EXCEPT ![i] = None]
    /\ UNCHANGED <<kind, index, dirty, server, ready, dims, broken>>

LocalDelete(u, i) ==
    /\ ~Remote /\ Idle(u)
    /\ Ends(u, "delete", store[i] # None)
    /\ store' = [store EXCEPT ![i] = None]
    /\ dirty' = (dirty \/ (kind = "faiss" /\ store[i] # None))
    /\ UNCHANGED <<kind, index, server, ready, dims, broken>>

MemorySearch(u, k) ==
    /\ kind = "memory" /\ Idle(u)
    /\ \E r \in TopK(store, k) : Ends(u, "search", Results(store, store, r))
    /\ UNCHANGED <<kind, store, index, dirty, server, ready, dims, broken>>

(* _build_index: no index for an empty store.                              *)
Rebuilt == IF dirty \/ index = None
           THEN (IF Stored(store) = {} THEN None ELSE store)
           ELSE index

(* The scores come from the index, the metadata from _data; a row whose id *)
(* has gone from _data is a KeyError.                                      *)
FaissSearch(u, k) ==
    /\ kind = "faiss" /\ Idle(u)
    /\ index' = Rebuilt
    /\ dirty' = FALSE
    /\ IF index' = None
       THEN Ends(u, "search", <<>>)
       ELSE \E r \in TopK(index', k) :
              IF \A a \in DOMAIN r : store[r[a]] # None
              THEN Ends(u, "search", Results(index', store, r))
              ELSE Ends(u, "search", Raised)
    /\ UNCHANGED <<kind, store, server, ready, dims, broken>>

LocalInspect(u) ==
    /\ ~Remote /\ Idle(u)
    /\ \/ Ends(u, "len", Cardinality(Stored(store)))
       \/ \E i \in Ids : Ends(u, "contains", store[i] # None)
    /\ UNCHANGED <<kind, store, index, dirty, server, ready, dims, broken>>

-----------------------------------------------------------------------------
(* The remote stores: the code before the first call of the server.        *)

Local == <<kind, index, dirty>>

(* The first call of the server that each operation of an open store makes *)
(* ("tally": the length as searches see it, "ask": membership).            *)
ChromaCalls   == [upsert |-> "write", delete |-> "look",   search |-> "count",
                  contains |-> "ask", len |-> "tally", ensure |-> "open"]
PgVectorCalls == [upsert |-> "write", delete |-> "remove", search |-> "query",
                  contains |-> "ask", len |-> "tally"]
WeaviateCalls == [upsert |-> "fetch", delete |-> "look",   search |-> "query",
                  contains |-> "ask", len |-> "tally", ensure |-> "open"]
ElasticCalls  == [upsert |-> "write", delete |-> "look",   search |-> "query",
                  contains |-> "ask", len |-> "tally", ensure |-> "open"]

Calls == CASE kind = "chroma"   -> ChromaCalls
           [] kind = "pgvector" -> PgVectorCalls
           [] kind = "weaviate" -> WeaviateCalls
           [] kind = "elastic"  -> ElasticCalls

At(u) == IF call[u] = None THEN "idle" ELSE call[u].at
Req(u) == call[u].req

(* n is the number of hits a search asks the server for.                   *)
Enter(u, q, at) ==
    call' = [call EXCEPT ![u] = [req |-> q, at |-> at,
                                 n |-> IF q.op = "search" THEN q.k ELSE 0]]

GoTo(u, at) == call' = [call EXCEPT ![u].at = at]

(* What a store that is not connected answers without asking the server.   *)
Offline(op) == CASE op = "search" -> <<>> [] op = "len" -> 0 [] OTHER -> FALSE

BeginUpsert(u, q) ==
    /\ q.op = "upsert"
    /\ IF Fits(u, q.entry)
       THEN /\ dims' = [dims EXCEPT ![u] = Dim[q.entry]]
            /\ Enter(u, q, IF ready[u] THEN Calls.upsert ELSE "open")
            /\ answer' = None
       ELSE UNCHANGED dims /\ Ends(u, "upsert", Raised)

BeginOther(u, q) ==
    /\ q.op # "upsert"
    /\ IF q.op # "ensure" /\ ~ready[u]
       THEN Ends(u, q.op, Offline(q.op))
       ELSE /\ Enter(u, q, Calls[q.op])
            /\ answer' = None
    /\ UNCHANGED dims

(* PgVectorStore has no public ensure.                                     *)
Begin(u, q) ==
    /\ Remote /\ Idle(u)
    /\ q.op \in DOMAIN Calls
    /\ BeginUpsert(u, q) \/ BeginOther(u, q)
    /\ UNCHANGED <<Local, store, server, ready, broken>>

-----------------------------------------------------------------------------
(* Opening the collection.                                                 *)

Exists(d) == [server EXCEPT !.exists = TRUE, !.dim = IF server.exists THEN @ ELSE d]

(* The collection is open: ensure is done, upsert goes on.                 *)
Opened(u) ==
    /\ ready' = [ready EXCEPT ![u] = TRUE]
    /\ IF Req(u).op = "ensure"
       THEN Ends(u, "ensure", "done")
       ELSE GoTo(u, Calls[Req(u).op]) /\ answer' = None

(* Chroma: get_or_create_collection; the server learns the dimensionality  *)
(* from the first vector.  pgvector: CREATE TABLE IF NOT EXISTS, commit.   *)
OpenOrCreate(u) ==
    /\ At(u) = "open" /\ kind \in {"chroma", "pgvector"} /\ ~broken[u]
    /\ server' = Exists(IF kind = "pgvector" THEN dims[u] ELSE None)
    /\ Opened(u)
    /\ UNCHANGED <<Local, store, dims, broken>>

(* Weaviate and Elasticsearch ask whether it exists and create it then.    *)
OpenExisting(u) ==
    /\ At(u) = "open" /\ kind \in {"weaviate", "elastic"}
    /\ server.exists
    /\ Opened(u)
    /\ UNCHANGED <<Local, store, server, dims, broken>>

NotThere(u) ==
    /\ At(u) = "open" /\ kind \in {"weaviate", "elastic"}
    /\ ~server.exists
    /\ IF kind = "elastic" /\ dims[u] = None
       THEN Ends(u, "ensure", Raised)
       ELSE GoTo(u, "create") /\ answer' = None
    /\ UNCHANGED <<Local, store, server, ready, dims, broken>>

(* Bug: the store counts as connected when a rival has created the         *)
(* collection, and even if its own attempt failed.                         *)
CreateAssumesSuccess(u) ==
    /\ At(u) = "create"
    /\ \/ server' = Exists(IF kind = "elastic" THEN dims[u] ELSE None)
       \/ UNCHANGED server
    /\ Opened(u)
    /\ UNCHANGED <<Local, store, dims, broken>>

(* The server refuses to create what a rival has created meanwhile.        *)
Create(u) ==
    /\ At(u) = "create"
    /\ ~server.exists
    /\ server' = Exists(IF kind = "elastic" THEN dims[u] ELSE None)
    /\ Opened(u)
    /\ UNCHANGED <<Local, store, dims, broken>>

-----------------------------------------------------------------------------
(* The operations on an open collection.                                   *)

(* The server takes vectors of one length only.                            *)
Accepts(e) == server.dim \in {None, Dim[e]}

(* Elasticsearch shows a change to searches at its next refresh.           *)
Stores(i, e) ==
    /\ store' = [store EXCEPT ![i] = e]
    /\ server' = [server EXCEPT
                    !.dim = IF e = None THEN @ ELSE Dim[e],
                    !.shown = IF kind = "elastic" THEN @ ELSE [@ EXCEPT ![i] = e]]

Writes(u) == \/ At(u) = "write"
             \/ At(u) = "insert" /\ store[Req(u).id] = None
             \/ At(u) = "replace"

(* upsert.  Weaviate looks for the object and inserts or replaces it then. *)
Fetch(u) ==
    /\ At(u) = "fetch"
    /\ GoTo(u, IF store[Req(u).id] = None THEN "insert" ELSE "replace")
    /\ answer' = None
    /\ UNCHANGED <<Local, store, server, ready, dims, broken>>

Write(u) ==
    /\ Writes(u) /\ ~broken[u]
    /\ Accepts(Req(u).entry)
    /\ Stores(Req(u).id, Req(u).entry)
    /\ Ends(u, "upsert", "done") \/ Ends(u, "upsert", Raised)
    /\ broken' = [broken EXCEPT ![u] = kind = "pgvector" /\ answer'[3] = Raised]
    /\ UNCHANGED <<Local, ready, dims>>

(* delete.  All but pgvector look first.                                   *)
Look(u) ==
    /\ At(u) = "look"
    /\ IF store[Req(u).id] = None
       THEN Ends(u, "delete", FALSE)
       ELSE GoTo(u, "remove") /\ answer' = None
    /\ UNCHANGED <<Local, store, server, ready, dims, broken>>

(* Elasticsearch raises if the document has gone since.                    *)
Removed(u) ==
    /\ At(u) = "remove" /\ ~broken[u]
    /\ kind \in {"pgvector", "elastic"} => store[Req(u).id] # None
    /\ Stores(Req(u).id, None)
    /\ Ends(u, "delete", TRUE) \/ Ends(u, "delete", Raised)
    /\ broken' = [broken EXCEPT ![u] = kind = "pgvector" /\ answer'[3] = Raised]
    /\ UNCHANGED <<Local, ready, dims>>

NothingToRemove(u) ==
    /\ At(u) = "remove" /\ kind = "pgvector" /\ ~broken[u]
    /\ store[Req(u).id] = None
    /\ Ends(u, "delete", FALSE)
    /\ UNCHANGED <<Local, store, server, ready, dims, broken>>

(* search.  Chroma counts first, since it refuses to return more than      *)
(* there is.                                                               *)
Count(u) ==
    /\ At(u) = "count"
    /\ LET c == Cardinality(Stored(store))
       IN  IF c = 0
           THEN Ends(u, "search", <<>>)
           ELSE /\ call' = [call EXCEPT ![u] = [req |-> Req(u), at |-> "query",
                                                n |-> Least(call[u].n, c)]]
                /\ answer' = None
    /\ UNCHANGED <<Local, store, server, ready, dims, broken>>

Query(u) ==
    /\ At(u) = "query" /\ ~broken[u]
    /\ IF kind = "chroma" /\ call[u].n > Cardinality(Stored(store))
       THEN Ends(u, "search", Raised)
       ELSE \E r \in Nearby(server.shown, call[u].n) :
              Ends(u, "search", Results(server.shown, server.shown, r))
    /\ UNCHANGED <<Local, store, server, ready, dims, broken>>

(* in and len.                                                             *)
Ask(u) ==
    /\ At(u) = "ask" /\ ~broken[u]
    /\ Ends(u, "contains", store[Req(u).id] # None)
    /\ UNCHANGED <<Local, store, server, ready, dims, broken>>

Tally(u) ==
    /\ At(u) = "tally" /\ ~broken[u]
    /\ Ends(u, "len", Cardinality(Stored(server.shown)))
    /\ UNCHANGED <<Local, store, server, ready, dims, broken>>

(* A call of the server fails: it cannot be reached, or refuses.  psycopg  *)
(* leaves the transaction open, and no store rolls it back: every later    *)
(* call on the connection fails.                                           *)
ServerCallFails(u) ==
    /\ Remote /\ call[u] # None
    /\ Ends(u, Req(u).op, Raised)
    /\ broken' = [broken EXCEPT ![u] = kind = "pgvector"]
    /\ UNCHANGED <<Local, store, server, ready, dims>>

Refresh == /\ kind = "elastic"
           /\ server' = [server EXCEPT !.shown = store]
           /\ UNCHANGED <<Local, store, ready, dims, broken, call, answer>>

(* A process ends and starts again with a new store object and connection. *)
Restart(u) ==
    /\ store' = IF Remote THEN store ELSE Empty
    /\ index' = None /\ dirty' = FALSE
    /\ ready' = [ready EXCEPT ![u] = FALSE]
    /\ dims' = [v \in Users |-> IF Remote /\ v # u THEN dims[v] ELSE None]
    /\ broken' = [broken EXCEPT ![u] = FALSE]
    /\ call' = [call EXCEPT ![u] = None]
    /\ answer' = None
    /\ UNCHANGED <<kind, server>>

-----------------------------------------------------------------------------
LocalStep(u) == \/ LocalInspect(u)
                \/ \E e \in Entries : LocalRefuse(u, e)
                \/ \E i \in Ids : \/ LocalDelete(u, i)
                                  \/ \E e \in Entries : LocalUpsert(u, i, e)
                \/ \E k \in 1..MaxK : MemorySearch(u, k) \/ FaissSearch(u, k)

RemoteStep(u) == \/ \E q \in Requests : Begin(u, q)
                 \/ OpenOrCreate(u) \/ OpenExisting(u) \/ NotThere(u) \/ Create(u)
                 \/ Fetch(u) \/ Write(u) \/ Look(u) \/ Removed(u) \/ NothingToRemove(u)
                 \/ Count(u) \/ Query(u) \/ Ask(u) \/ Tally(u)
                 \/ ServerCallFails(u)

Next == \/ Refresh
        \/ \E u \in Users : LocalStep(u) \/ RemoteStep(u) \/ Restart(u)

Spec == Init /\ [][Next]_vars

-----------------------------------------------------------------------------
(* Every back end implements VectorMap: whatever its users do at the same  *)
(* time, whatever fails and is restarted, there is one map, searches rank  *)
(* entries of it (for Elasticsearch, as of a refresh; the best ones where  *)
(* the search is exact), and hits carry the metadata that belongs to their *)
(* score.  Lazily built indexes, lazily opened collections, rival creators *)
(* and check-then-act writes are behind it.                                *)
Promise == INSTANCE VectorMap WITH
             map <- store,
             shown <- IF kind = "elastic" THEN server.shown ELSE store,
             traits <- [lagging |-> kind = "elastic",
                        sharp |-> kind \in InProcess \cup {"pgvector"},
                        inside |-> ~Remote],
             met <- IF Remote THEN {u \in Users : ready[u]} ELSE Users

MapSpec == Promise!Spec

(* A store that takes itself for connected (_ready) has a collection on    *)
(* the server, even when rivals open and create it at the same time, calls *)
(* fail half-way and processes restart; a call reaches the entries only    *)
(* through a store that is connected; and what goes into one FAISS index,  *)
(* which is built for vectors of length _dimensions, is of that length.    *)
ReadyMeansCollection ==
    /\ \A u \in Users :
         /\ ready[u] => server.exists
         /\ At(u) \notin {"idle", "open", "create"} => ready[u]
         /\ At(u) = "create" => ~ready[u] \/ Req(u).op = "ensure"
    /\ kind = "faiss" => \A i \in Stored(store), u \in Users : dims[u] = Dim[store[i]]
=============================================================================
