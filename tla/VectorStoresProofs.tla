------------------------- MODULE VectorStoresProofs -------------------------
(***************************************************************************)
(* Proofs about VectorStores.tla, for any users, ids and entries: types,   *)
(* what a connected store can rely on, and that all six back ends          *)
(* implement VectorMap, whatever fails and whoever starts again.           *)
(***************************************************************************)
EXTENDS VectorStores, FiniteSetTheorems, TLAPS

Lengths == {Dim[e] : e \in Entries} \cup {None}
Servers == [exists : BOOLEAN, dim : Lengths, shown : Maps]
CallRecords == [req : Requests, at : Steps, n : 0..MaxK]

TypeInv ==
    /\ kind \in Kinds
    /\ store \in Maps
    /\ index \in Maps \cup {None} /\ dirty \in BOOLEAN
    /\ server \in Servers
    /\ ready \in [Users -> BOOLEAN] /\ broken \in [Users -> BOOLEAN]
    /\ dims \in [Users -> Lengths]
    /\ call \in [Users -> CallRecords \cup {None}]

(* The step at which a call can be, by its operation and by whether its    *)
(* user is connected.                                                      *)
StepFits(c, connected) ==
    /\ c.at \in {"write", "fetch", "insert", "replace"} => c.req.op = "upsert"
    /\ c.at \in {"look", "remove"} => c.req.op = "delete"
    /\ c.at \in {"count", "query"} => c.req.op = "search" /\ c.n # 0
    /\ c.at = "ask" => c.req.op = "contains"
    /\ c.at = "tally" => c.req.op = "len"
    /\ c.at \in {"open", "create"} => \/ c.req.op = "ensure"
                                      \/ c.req.op = "upsert" /\ ~connected
    /\ c.at \notin {"open", "create"} => connected

CallsFit == \A u \in Users : call[u] # None =>
              Remote /\ StepFits(call[u], ready[u]) /\ (call[u].at = "count" => kind = "chroma")

(* FAISS: an index that is not marked as out of date is that of the store. *)
IndexUpToDate == kind = "faiss" => dirty \/ index = None \/ index = store

(* Only Elasticsearch shows searches something else than what is stored.   *)
ShownIsStored == kind \notin InProcess \cup {"elastic"} => server.shown = store

ReadyExists == \A u \in Users : ready[u] => server.exists

OneLength == kind = "faiss" => \A i \in Stored(store), u \in Users : dims[u] = Dim[store[i]]

Finite == IsFiniteSet(Stored(store))

StoreInv == IndexUpToDate /\ ShownIsStored /\ ReadyExists /\ OneLength /\ Finite

IndInv == TypeInv /\ CallsFit /\ StoreInv

-----------------------------------------------------------------------------
(* Types and the operators.                                                *)

LEMMA EmptyIsMap == Empty \in Maps /\ Stored(Empty) = {} /\ IsFiniteSet(Stored(Empty))
  BY FS_EmptySet DEF Empty, Maps, Stored

LEMMA NoneIsNoMap == None \notin Maps
  BY StoresAssumption DEF Maps

(* A change of one entry leaves a finite store finite.                     *)
LEMMA ChangeIsFinite ==
  ASSUME NEW m \in Maps, IsFiniteSet(Stored(m)), NEW i \in Ids, NEW e \in Entries \cup {None}
  PROVE  /\ [m EXCEPT ![i] = e] \in Maps
         /\ IsFiniteSet(Stored([m EXCEPT ![i] = e]))
<1>1. Stored([m EXCEPT ![i] = e]) \subseteq Stored(m) \cup {i}
  BY DEF Maps, Stored
<1>2. IsFiniteSet(Stored(m) \cup {i})
  BY FS_AddElement
<1> QED
  BY <1>1, <1>2, FS_Subset DEF Maps

LEMMA LengthTypes == None \in Lengths /\ \A e \in Entries : Dim[e] \in Lengths
  BY DEF Lengths

LEMMA EntriesAreSomething ==
  ASSUME NEW e \in Entries
  PROVE  Dim[e] \in Nat /\ Dim[e] # None /\ e # None
  BY StoresAssumption

LEMMA RemoteKinds ==
  ASSUME kind \in Kinds, Remote
  PROVE  kind \in {"chroma", "pgvector", "weaviate", "elastic"}
  BY DEF Kinds, Remote, InProcess

LEMMA LocalKinds ==
  ASSUME kind \in Kinds, ~Remote
  PROVE  kind \in {"memory", "faiss"}
  BY DEF Kinds, Remote, InProcess

(* Where an open store begins an operation.                                *)
LEMMA FirstStep ==
  ASSUME kind \in Kinds, Remote, NEW q \in Requests, q.op \in DOMAIN Calls
  PROVE  /\ Calls[q.op] \in Steps
         /\ q.op = "upsert" => Calls[q.op] \in {"write", "fetch"}
         /\ q.op = "delete" => Calls[q.op] \in {"look", "remove"}
         /\ q.op = "search" => Calls[q.op] \in {"count", "query"}
         /\ q.op = "contains" => Calls[q.op] = "ask"
         /\ q.op = "len" => Calls[q.op] = "tally"
         /\ q.op = "ensure" => Calls[q.op] = "open"
         /\ Calls[q.op] = "count" => kind = "chroma"
<1> USE DEF Steps
<1>1. CASE kind = "chroma"
  <2>1. Calls = ChromaCalls
    BY <1>1 DEF Calls
  <2> QED
    BY <1>1, <2>1 DEF ChromaCalls, Requests
<1>2. CASE kind = "pgvector"
  <2>1. Calls = PgVectorCalls
    BY <1>2 DEF Calls
  <2> QED
    BY <2>1 DEF PgVectorCalls, Requests
<1>3. CASE kind = "weaviate"
  <2>1. Calls = WeaviateCalls
    BY <1>3 DEF Calls
  <2> QED
    BY <2>1 DEF WeaviateCalls, Requests
<1>4. CASE kind = "elastic"
  <2>1. Calls = ElasticCalls
    BY <1>4 DEF Calls
  <2> QED
    BY <2>1 DEF ElasticCalls, Requests
<1> QED
  BY <1>1, <1>2, <1>3, <1>4, RemoteKinds

LEMMA UpsertIsACall ==
  ASSUME kind \in Kinds, Remote
  PROVE  "upsert" \in DOMAIN Calls /\ Calls.upsert = Calls["upsert"]
         /\ Calls.upsert \in {"write", "fetch"}
  BY RemoteKinds DEF Calls, ChromaCalls, PgVectorCalls, WeaviateCalls, ElasticCalls

LEMMA RequestFields ==
  ASSUME NEW q \in Requests
  PROVE  /\ q.op \in {"upsert", "delete", "contains", "search", "len", "ensure"}
         /\ q.op = "upsert" => q.id \in Ids /\ q.entry \in Entries
         /\ q.op \in {"delete", "contains"} => q.id \in Ids
         /\ q.op = "search" => q.k \in 1..MaxK
  BY DEF Requests

(* A user in a call: what is known of it.                                  *)
LEMMA CallFacts ==
  ASSUME IndInv, NEW u \in Users, call[u] # None
  PROVE  /\ Remote /\ call[u] \in CallRecords /\ StepFits(call[u], ready[u])
         /\ At(u) = "count" => kind = "chroma"
         /\ Req(u) \in Requests /\ At(u) = call[u].at /\ At(u) \in Steps
         /\ call[u].n \in 0..MaxK
  BY DEF IndInv, TypeInv, CallsFit, CallRecords, Req, At

LEMMA AtMeansCall ==
  ASSUME NEW u \in Users, At(u) # "idle"
  PROVE  call[u] # None
  BY DEF At

-----------------------------------------------------------------------------
(***************************************************************************)
(* The inductive invariant.                                                *)
(***************************************************************************)
LEMMA IndInvInit == Init => IndInv
<1> SUFFICES ASSUME Init PROVE IndInv
  OBVIOUS
<1>1. TypeInv
  BY EmptyIsMap, LengthTypes DEF Init, TypeInv, Servers
<1>2. CallsFit
  BY DEF Init, CallsFit
<1>3. StoreInv
  BY EmptyIsMap DEF Init, StoreInv, IndexUpToDate, ShownIsStored, ReadyExists, OneLength, Finite
<1> QED
  BY <1>1, <1>2, <1>3 DEF IndInv

(* A call ends, and nothing has changed but perhaps the transaction.       *)
LEMMA CallEnds ==
  ASSUME IndInv, NEW u \in Users, call' = [call EXCEPT ![u] = None],
         UNCHANGED <<kind, store, index, dirty, server, ready, dims>>,
         broken' \in [Users -> BOOLEAN]
  PROVE  IndInv'
<1>1. TypeInv'
  BY DEF IndInv, TypeInv, Maps, Servers
<1>2. CallsFit'
  BY DEF IndInv, TypeInv, CallsFit, Remote
<1>3. StoreInv'
  BY DEF IndInv, StoreInv, IndexUpToDate, ShownIsStored, ReadyExists, OneLength, Finite
<1> QED
  BY <1>1, <1>2, <1>3 DEF IndInv

(* A call of a remote store goes to the step of c.                         *)
LEMMA CallGoes ==
  ASSUME IndInv, Remote, NEW u \in Users, NEW c \in CallRecords,
         call' = [call EXCEPT ![u] = c], StepFits(c, ready[u]),
         c.at = "count" => kind = "chroma",
         UNCHANGED <<kind, store, index, dirty, server, ready, broken>>,
         dims' \in [Users -> Lengths]
  PROVE  IndInv'
<1>1. TypeInv'
  BY DEF IndInv, TypeInv, Maps, Servers
<1>2. CallsFit'
  BY DEF IndInv, TypeInv, CallsFit, Remote
<1>3. StoreInv'
  BY DEF IndInv, StoreInv, IndexUpToDate, ShownIsStored, ReadyExists, OneLength, Finite,
         Remote, InProcess
<1> QED
  BY <1>1, <1>2, <1>3 DEF IndInv

(* GoTo as a step to a call record.                                        *)
LEMMA GoToRecord ==
  ASSUME IndInv, NEW u \in Users, call[u] # None, NEW at \in Steps, GoTo(u, at)
  PROVE  LET c == [req |-> Req(u), at |-> at, n |-> call[u].n]
         IN  c \in CallRecords /\ call' = [call EXCEPT ![u] = c]
<1>1. call[u] \in CallRecords
  BY CallFacts
<1>2. [call[u] EXCEPT !.at = at] = [req |-> Req(u), at |-> at, n |-> call[u].n]
  BY <1>1 DEF CallRecords, Req
<1>3. [req |-> Req(u), at |-> at, n |-> call[u].n] \in CallRecords
  BY <1>1 DEF CallRecords, Req
<1> QED
  BY <1>2, <1>3 DEF GoTo, IndInv, TypeInv

-----------------------------------------------------------------------------
(* The in-process stores.                                                  *)

LEMMA LocalUpsertKeeps ==
  ASSUME IndInv, NEW u \in Users, NEW i \in Ids, NEW e \in Entries, LocalUpsert(u, i, e)
  PROVE  IndInv'
<1> USE DEF LocalUpsert, Ends
<1>1. TypeInv'
  BY LengthTypes DEF IndInv, TypeInv, Maps, Servers
<1>2. CallsFit'
  BY DEF IndInv, TypeInv, CallsFit, Remote
<1>3. OneLength'
  <2> SUFFICES ASSUME kind = "faiss", NEW j \in Stored(store'), NEW v \in Users
               PROVE  dims'[v] = Dim[store'[j]]
    BY DEF OneLength, Stored
  <2>1. dims'[v] = Dim[e]
    OBVIOUS
  <2>2. CASE j = i
    BY <2>1, <2>2 DEF IndInv, TypeInv, Maps, Stored
  <2>3. CASE j # i
    <3>1. j \in Stored(store) /\ store'[j] = store[j] /\ store[j] \in Entries
      BY <2>3 DEF IndInv, TypeInv, Maps, Stored
    <3>2. dims[u] = Dim[store[j]] /\ dims[u] # None
      BY <3>1, EntriesAreSomething DEF IndInv, StoreInv, OneLength
    <3>3. dims[u] = Dim[e]
      BY <3>2 DEF Fits
    <3> QED
      BY <2>1, <3>1, <3>2, <3>3
  <2> QED
    BY <2>2, <2>3
<1>4. Finite'
  BY ChangeIsFinite DEF IndInv, TypeInv, StoreInv, Finite
<1>5. StoreInv'
  BY <1>3, <1>4 DEF IndInv, StoreInv, IndexUpToDate, ShownIsStored, ReadyExists, Remote, InProcess
<1> QED
  BY <1>1, <1>2, <1>5 DEF IndInv

LEMMA LocalDeleteKeeps ==
  ASSUME IndInv, NEW u \in Users, NEW i \in Ids, LocalDelete(u, i)
  PROVE  IndInv'
<1> USE DEF LocalDelete, Ends
<1>1. TypeInv'
  BY DEF IndInv, TypeInv, Maps, Servers
<1>2. CallsFit'
  BY DEF IndInv, TypeInv, CallsFit, Remote
<1>3. OneLength'
  <2> SUFFICES ASSUME kind = "faiss", NEW j \in Stored(store'), NEW v \in Users
               PROVE  dims'[v] = Dim[store'[j]]
    BY DEF OneLength, Stored
  <2>1. j \in Stored(store) /\ store'[j] = store[j]
    BY DEF IndInv, TypeInv, Maps, Stored
  <2> QED
    BY <2>1 DEF IndInv, StoreInv, OneLength
<1>4. IndexUpToDate'
  <2>1. CASE store[i] = None
    <3>1. store' = store
      BY <2>1 DEF IndInv, TypeInv, Maps
    <3> QED
      BY <3>1 DEF IndInv, StoreInv, IndexUpToDate
  <2>2. CASE store[i] # None
    BY <2>2 DEF IndexUpToDate
  <2> QED
    BY <2>1, <2>2
<1>5. Finite'
  BY ChangeIsFinite DEF IndInv, TypeInv, StoreInv, Finite
<1>6. StoreInv'
  BY <1>3, <1>4, <1>5 DEF IndInv, StoreInv, ShownIsStored, ReadyExists, Remote, InProcess
<1> QED
  BY <1>1, <1>2, <1>6 DEF IndInv

LEMMA FaissSearchKeeps ==
  ASSUME IndInv, NEW u \in Users, NEW k \in 1..MaxK, FaissSearch(u, k)
  PROVE  /\ IndInv'
         /\ index' # None => index' = store
         /\ index' = None => Stored(store) = {}
<1>1. /\ index' = Rebuilt /\ dirty' = FALSE /\ call' = [call EXCEPT ![u] = None]
      /\ UNCHANGED <<kind, store, server, ready, dims, broken>> /\ kind = "faiss"
  BY DEF FaissSearch, Ends
<1>2. /\ index' \in {None, store}
      /\ index' = None => Stored(store) = {}
  BY <1>1, NoneIsNoMap DEF Rebuilt, IndInv, TypeInv, StoreInv, IndexUpToDate
<1>3. TypeInv'
  BY <1>1, <1>2 DEF IndInv, TypeInv, Maps, Servers
<1>4. CallsFit'
  BY <1>1 DEF IndInv, TypeInv, CallsFit, Remote
<1>5. StoreInv'
  BY <1>1, <1>2 DEF IndInv, StoreInv, IndexUpToDate, ShownIsStored, ReadyExists, OneLength, Finite
<1> QED
  BY <1>2, <1>3, <1>4, <1>5 DEF IndInv

LEMMA LocalStepKeeps ==
  ASSUME IndInv, NEW u \in Users, LocalStep(u)
  PROVE  IndInv'
<1>1. ASSUME NEW e \in Entries, LocalRefuse(u, e) PROVE IndInv'
  BY <1>1, CallEnds DEF LocalRefuse, Ends, IndInv, TypeInv
<1>2. ASSUME NEW i \in Ids, LocalDelete(u, i) PROVE IndInv'
  BY <1>2, LocalDeleteKeeps
<1>3. ASSUME NEW i \in Ids, NEW e \in Entries, LocalUpsert(u, i, e) PROVE IndInv'
  BY <1>3, LocalUpsertKeeps
<1>4. ASSUME NEW k \in 1..MaxK, MemorySearch(u, k) PROVE IndInv'
  BY <1>4, CallEnds DEF MemorySearch, Ends, IndInv, TypeInv
<1>5. ASSUME NEW k \in 1..MaxK, FaissSearch(u, k) PROVE IndInv'
  BY <1>5, FaissSearchKeeps
<1>6. CASE LocalInspect(u)
  BY <1>6, CallEnds DEF LocalInspect, Ends, IndInv, TypeInv
<1> QED
  BY <1>1, <1>2, <1>3, <1>4, <1>5, <1>6 DEF LocalStep

-----------------------------------------------------------------------------
(* The remote stores.                                                      *)

LEMMA BeginKeeps ==
  ASSUME IndInv, NEW u \in Users, NEW q \in Requests, Begin(u, q)
  PROVE  IndInv'
<1>1. /\ Remote /\ call[u] = None /\ q.op \in DOMAIN Calls
      /\ UNCHANGED <<kind, index, dirty, store, server, ready, broken>>
      /\ broken \in [Users -> BOOLEAN] /\ dims \in [Users -> Lengths] /\ kind \in Kinds
  BY DEF Begin, Idle, Local, IndInv, TypeInv
<1>2. ASSUME NEW at \in Steps, Enter(u, q, at), dims' \in [Users -> Lengths],
             StepFits([req |-> q, at |-> at, n |-> IF q.op = "search" THEN q.k ELSE 0],
                      ready[u]),
             at = "count" => kind = "chroma"
      PROVE  IndInv'
  <2> DEFINE c == [req |-> q, at |-> at, n |-> IF q.op = "search" THEN q.k ELSE 0]
  <2>1. c \in CallRecords
    BY RequestFields, StoresAssumption DEF CallRecords
  <2>2. call' = [call EXCEPT ![u] = c]
    BY <1>2 DEF Enter
  <2> HIDE DEF c
  <2> QED
    BY <1>1, <1>2, <2>1, <2>2, CallGoes DEF c
<1>3. CASE BeginUpsert(u, q)
  <2>1. CASE Fits(u, q.entry)
    <3>1. /\ dims' = [dims EXCEPT ![u] = Dim[q.entry]] /\ q.op = "upsert"
          /\ Enter(u, q, IF ready[u] THEN Calls.upsert ELSE "open")
      BY <1>3, <2>1 DEF BeginUpsert
    <3>2. dims' \in [Users -> Lengths]
      BY <1>1, <3>1, RequestFields, LengthTypes
    <3>3. CASE ready[u]
      <4>1. Calls.upsert \in {"write", "fetch"} /\ Enter(u, q, Calls.upsert)
        BY <1>1, <3>1, <3>3, UpsertIsACall
      <4> QED
        BY <1>2, <3>1, <3>2, <3>3, <4>1 DEF StepFits, Steps
    <3>4. CASE ~ready[u]
      <4>1. Enter(u, q, "open")
        BY <3>1, <3>4
      <4> QED
        BY <1>2, <3>1, <3>2, <3>4, <4>1 DEF StepFits, Steps
    <3> QED
      BY <3>3, <3>4
  <2>2. CASE ~Fits(u, q.entry)
    BY <1>1, <1>3, <2>2, CallEnds DEF BeginUpsert, Ends
  <2> QED
    BY <2>1, <2>2
<1>4. CASE BeginOther(u, q)
  <2>1. CASE q.op # "ensure" /\ ~ready[u]
    BY <1>1, <1>4, <2>1, CallEnds DEF BeginOther, Ends
  <2>2. CASE ~(q.op # "ensure" /\ ~ready[u])
    <3>1. Enter(u, q, Calls[q.op]) /\ dims' = dims /\ q.op # "upsert"
      BY <1>4, <2>2 DEF BeginOther
    <3>2. StepFits([req |-> q, at |-> Calls[q.op],
                    n |-> IF q.op = "search" THEN q.k ELSE 0], ready[u])
      BY <1>1, <2>2, <3>1, FirstStep, RequestFields DEF StepFits
    <3> QED
      BY <1>1, <1>2, <3>1, <3>2, FirstStep
  <2> QED
    BY <2>1, <2>2
<1> QED
  BY <1>3, <1>4 DEF Begin

(* The collection is open: the server has one, and the user is connected.  *)
LEMMA OpenedKeeps ==
  ASSUME IndInv, NEW u \in Users, At(u) \in {"open", "create"}, Opened(u),
         server' \in Servers, server'.exists, server'.shown = server.shown,
         UNCHANGED <<kind, store, index, dirty, dims, broken>>
  PROVE  IndInv'
<1>1. /\ call[u] # None /\ Remote /\ ready' = [ready EXCEPT ![u] = TRUE]
      /\ kind \in Kinds /\ call[u] \in CallRecords
  BY AtMeansCall, CallFacts DEF Opened, IndInv, TypeInv
<1>2. PICK c \in CallRecords \cup {None} :
         /\ call' = [call EXCEPT ![u] = c]
         /\ c # None => StepFits(c, TRUE) /\ c.at # "count"
  <2>1. CASE Req(u).op = "ensure"
    BY <2>1 DEF Opened, Ends
  <2>2. CASE Req(u).op # "ensure"
    <3>1. Req(u).op = "upsert" /\ Req(u) \in Requests
      BY <1>1, <2>2, CallFacts DEF StepFits, At, Req
    <3>2. /\ GoTo(u, Calls[Req(u).op]) /\ Calls[Req(u).op] \in {"write", "fetch"}
          /\ Calls[Req(u).op] \in Steps
      BY <1>1, <2>2, <3>1, UpsertIsACall, FirstStep DEF Opened
    <3> DEFINE c == [req |-> Req(u), at |-> Calls[Req(u).op], n |-> call[u].n]
    <3>3. c \in CallRecords /\ call' = [call EXCEPT ![u] = c]
      BY <1>1, <3>2, GoToRecord
    <3>4. StepFits(c, TRUE) /\ c.at # "count"
      BY <3>1, <3>2 DEF StepFits
    <3> QED
      BY <3>3, <3>4
  <2> QED
    BY <2>1, <2>2
<1>3. TypeInv'
  BY <1>1, <1>2 DEF IndInv, TypeInv, Maps
<1>4. CallsFit'
  <2> SUFFICES ASSUME NEW v \in Users, call'[v] # None
               PROVE  /\ Remote' /\ StepFits(call'[v], ready'[v])
                      /\ call'[v].at = "count" => kind' = "chroma"
    BY DEF CallsFit
  <2>1. Remote'
    BY <1>1 DEF Remote
  <2>2. CASE v = u
    BY <1>1, <1>2, <2>1, <2>2 DEF IndInv, TypeInv
  <2>3. CASE v # u
    BY <1>1, <1>2, <2>1, <2>3 DEF IndInv, TypeInv, CallsFit
  <2> QED
    BY <2>2, <2>3
<1>5. StoreInv'
  BY <1>1 DEF IndInv, TypeInv, StoreInv, IndexUpToDate, ShownIsStored, ReadyExists, OneLength, Finite,
              Remote, InProcess
<1> QED
  BY <1>3, <1>4, <1>5 DEF IndInv

LEMMA ExistsFacts ==
  ASSUME IndInv, NEW d \in Lengths
  PROVE  /\ Exists(d) \in Servers /\ Exists(d).exists
         /\ Exists(d).shown = server.shown
  BY DEF Exists, IndInv, TypeInv, Servers

LEMMA OpeningKeeps ==
  ASSUME IndInv, NEW u \in Users,
         OpenOrCreate(u) \/ OpenExisting(u) \/ NotThere(u) \/ Create(u)
  PROVE  IndInv'
<1>0. dims[u] \in Lengths /\ None \in Lengths /\ server \in Servers
  BY LengthTypes DEF IndInv, TypeInv
<1>1. CASE OpenOrCreate(u)
  <2>1. \E d \in Lengths : server' = Exists(d)
    BY <1>0, <1>1 DEF OpenOrCreate
  <2> QED
    BY <1>1, <2>1, ExistsFacts, OpenedKeeps DEF OpenOrCreate, Local
<1>2. CASE OpenExisting(u)
  BY <1>0, <1>2, OpenedKeeps DEF OpenExisting, Local
<1>3. CASE NotThere(u)
  <2>1. CASE kind = "elastic" /\ dims[u] = None
    BY <1>3, <2>1, CallEnds DEF NotThere, Ends, Local, IndInv, TypeInv
  <2>2. CASE ~(kind = "elastic" /\ dims[u] = None)
    <3>1. call[u] # None /\ GoTo(u, "create") /\ "create" \in Steps
      BY <1>3, <2>2, AtMeansCall DEF NotThere, Steps
    <3> DEFINE c == [req |-> Req(u), at |-> "create", n |-> call[u].n]
    <3>2. c \in CallRecords /\ call' = [call EXCEPT ![u] = c]
      BY <3>1, GoToRecord
    <3>3. StepFits(c, ready[u]) /\ c.at # "count"
      BY <1>3, <3>1, CallFacts DEF NotThere, StepFits, Req
    <3>4. Remote /\ dims' \in [Users -> Lengths]
          /\ UNCHANGED <<kind, store, index, dirty, server, ready, broken>>
      BY <1>3, <3>1, CallFacts DEF NotThere, Local, IndInv, TypeInv
    <3> HIDE DEF c
    <3> QED
      BY <3>2, <3>3, <3>4, CallGoes
  <2> QED
    BY <2>1, <2>2
<1>4. CASE Create(u)
  <2>1. \E d \in Lengths : server' = Exists(d)
    BY <1>0, <1>4 DEF Create
  <2> QED
    BY <1>4, <2>1, ExistsFacts, OpenedKeeps DEF Create, Local
<1> QED
  BY <1>1, <1>2, <1>3, <1>4

(* A change of one entry on the server ends the call that makes it.        *)
LEMMA StoresKeeps ==
  ASSUME IndInv, Remote, NEW u \in Users, NEW i \in Ids, NEW e \in Entries \cup {None},
         Stores(i, e), call' = [call EXCEPT ![u] = None],
         broken' \in [Users -> BOOLEAN],
         UNCHANGED <<kind, index, dirty, ready, dims>>
  PROVE  IndInv'
<1>1. /\ server' \in Servers /\ server'.exists = server.exists
      /\ kind # "elastic" => server'.shown = [server.shown EXCEPT ![i] = e]
  BY LengthTypes DEF Stores, IndInv, TypeInv, Servers, Maps
<1>2. TypeInv'
  BY <1>1 DEF Stores, IndInv, TypeInv, Maps
<1>3. CallsFit'
  BY DEF IndInv, TypeInv, CallsFit, Remote
<1>4. Finite'
  BY ChangeIsFinite DEF Stores, IndInv, TypeInv, StoreInv, Finite
<1>5. StoreInv'
  BY <1>1, <1>4 DEF Stores, IndInv, StoreInv, IndexUpToDate, ShownIsStored, ReadyExists,
                    OneLength, Remote, InProcess
<1> QED
  BY <1>2, <1>3, <1>5 DEF IndInv

LEMMA WriteFacts ==
  ASSUME IndInv, NEW u \in Users, Write(u)
  PROVE  /\ Remote /\ ready[u] /\ Req(u).id \in Ids /\ Req(u).entry \in Entries
         /\ Req(u).op = "upsert"
<1>1. At(u) \in {"write", "insert", "replace"}
  BY DEF Write, Writes
<1> QED
  BY <1>1, AtMeansCall, CallFacts, RequestFields DEF StepFits, Req

LEMMA DeleteFacts ==
  ASSUME IndInv, NEW u \in Users, At(u) \in {"look", "remove"}
  PROVE  /\ Remote /\ ready[u] /\ Req(u).id \in Ids /\ Req(u).op = "delete"
         /\ call[u] # None
  BY AtMeansCall, CallFacts, RequestFields DEF StepFits, Req

LEMMA SearchFacts ==
  ASSUME IndInv, NEW u \in Users, At(u) \in {"count", "query"}
  PROVE  /\ Remote /\ ready[u] /\ call[u].n \in 1..MaxK /\ Req(u).op = "search"
         /\ call[u] # None /\ MaxK \in Nat
<1>1. call[u].n \in 0..MaxK /\ call[u].n # 0 /\ MaxK \in Nat
  BY AtMeansCall, CallFacts, StoresAssumption DEF StepFits
<1> QED
  BY <1>1, AtMeansCall, CallFacts DEF StepFits, Req

LEMMA RemoteCallKeeps ==
  ASSUME IndInv, NEW u \in Users,
         \/ Fetch(u) \/ Write(u) \/ Look(u) \/ Removed(u) \/ NothingToRemove(u)
         \/ Count(u) \/ Query(u) \/ Ask(u) \/ Tally(u) \/ ServerCallFails(u)
  PROVE  IndInv'
<1>0. broken \in [Users -> BOOLEAN] /\ dims \in [Users -> Lengths]
  BY DEF IndInv, TypeInv
<1>1. CASE Fetch(u)
  <2>1. call[u] # None /\ At(u) = "fetch"
    BY <1>1, AtMeansCall DEF Fetch
  <2>2. PICK at \in {"insert", "replace"} : GoTo(u, at)
    BY <1>1 DEF Fetch
  <2> DEFINE c == [req |-> Req(u), at |-> at, n |-> call[u].n]
  <2>3. c \in CallRecords /\ call' = [call EXCEPT ![u] = c]
    BY <2>1, <2>2, GoToRecord DEF Steps
  <2>4. StepFits(c, ready[u]) /\ Remote /\ c.at # "count"
    BY <2>1, <2>2, CallFacts DEF StepFits, Req
  <2>5. UNCHANGED <<kind, store, index, dirty, server, ready, broken, dims>>
    BY <1>1 DEF Fetch, Local
  <2> HIDE DEF c
  <2> QED
    BY <1>0, <2>3, <2>4, <2>5, CallGoes
<1>2. CASE Write(u)
  BY <1>0, <1>2, WriteFacts, StoresKeeps DEF Write, Ends, Local
<1>3. CASE Look(u)
  <2>1. CASE store[Req(u).id] = None
    BY <1>0, <1>3, <2>1, CallEnds DEF Look, Ends, Local
  <2>2. CASE store[Req(u).id] # None
    <3>1. GoTo(u, "remove") /\ "remove" \in Steps /\ At(u) = "look"
      BY <1>3, <2>2 DEF Look, Steps
    <3> DEFINE c == [req |-> Req(u), at |-> "remove", n |-> call[u].n]
    <3>2. c \in CallRecords /\ call' = [call EXCEPT ![u] = c]
      BY <3>1, DeleteFacts, GoToRecord
    <3>3. StepFits(c, ready[u]) /\ Remote /\ c.at # "count"
      BY <3>1, DeleteFacts DEF StepFits
    <3>4. UNCHANGED <<kind, store, index, dirty, server, ready, broken, dims>>
      BY <1>3 DEF Look, Local
    <3> HIDE DEF c
    <3> QED
      BY <1>0, <3>2, <3>3, <3>4, CallGoes
  <2> QED
    BY <2>1, <2>2
<1>4. CASE Removed(u)
  BY <1>0, <1>4, DeleteFacts, StoresKeeps DEF Removed, Ends, Local
<1>5. CASE NothingToRemove(u)
  BY <1>0, <1>5, CallEnds DEF NothingToRemove, Ends, Local
<1>6. CASE Count(u)
  <2> DEFINE size == Cardinality(Stored(store))
  <2>1. CASE size = 0
    BY <1>0, <1>6, <2>1, CallEnds DEF Count, Ends, Local
  <2>2. CASE size # 0
    <3> DEFINE c == [req |-> Req(u), at |-> "query", n |-> Least(call[u].n, size)]
    <3>1. At(u) = "count" /\ call' = [call EXCEPT ![u] = c]
      BY <1>6, <2>2 DEF Count
    <3>2. call[u].n \in 1..MaxK /\ Remote /\ ready[u] /\ MaxK \in Nat
          /\ Req(u) \in Requests /\ Req(u).op = "search"
      BY <3>1, SearchFacts, CallFacts
    <3>3. Least(call[u].n, size) \in 1..MaxK
      <4>1. size \in Nat
        BY FS_CardinalityType DEF IndInv, StoreInv, Finite
      <4> QED
        BY <2>2, <3>2, <4>1 DEF Least
    <3>4. c \in CallRecords
      BY <3>2, <3>3 DEF CallRecords, Steps
    <3>5. StepFits(c, ready[u]) /\ c.at # "count"
      BY <3>2, <3>3 DEF StepFits
    <3>6. UNCHANGED <<kind, store, index, dirty, server, ready, broken, dims>>
      BY <1>6 DEF Count, Local
    <3> HIDE DEF c
    <3> QED
      BY <1>0, <3>1, <3>2, <3>4, <3>5, <3>6, CallGoes
  <2> QED
    BY <2>1, <2>2
<1>7. CASE Query(u)
  BY <1>0, <1>7, CallEnds DEF Query, Ends, Local
<1>8. CASE Ask(u) \/ Tally(u)
  BY <1>0, <1>8, CallEnds DEF Ask, Tally, Ends, Local
<1>9. CASE ServerCallFails(u)
  BY <1>0, <1>9, CallEnds DEF ServerCallFails, Ends, Local
<1> QED
  BY <1>1, <1>2, <1>3, <1>4, <1>5, <1>6, <1>7, <1>8, <1>9

LEMMA RefreshKeeps == IndInv /\ Refresh => IndInv'
<1> SUFFICES ASSUME IndInv, Refresh PROVE IndInv'
  OBVIOUS
<1> USE DEF Refresh, Local
<1>1. server' \in Servers /\ server'.exists = server.exists
  BY DEF IndInv, TypeInv, Servers
<1>2. TypeInv'
  BY <1>1 DEF IndInv, TypeInv, Maps
<1>3. CallsFit'
  BY DEF IndInv, CallsFit, Remote
<1>4. StoreInv'
  BY <1>1 DEF IndInv, StoreInv, IndexUpToDate, ShownIsStored, ReadyExists, OneLength, Finite
<1> QED
  BY <1>2, <1>3, <1>4 DEF IndInv

LEMMA RestartKeeps ==
  ASSUME IndInv, NEW u \in Users, Restart(u)
  PROVE  IndInv'
<1> USE DEF Restart
<1>1. TypeInv'
  BY EmptyIsMap, LengthTypes DEF IndInv, TypeInv, Maps, Servers
<1>2. CallsFit'
  BY DEF IndInv, TypeInv, CallsFit, Remote
<1>3. StoreInv'
  BY EmptyIsMap DEF IndInv, TypeInv, StoreInv, IndexUpToDate, ShownIsStored, ReadyExists,
                    OneLength, Finite, Remote, InProcess
<1> QED
  BY <1>1, <1>2, <1>3 DEF IndInv

LEMMA IndInvNext == IndInv /\ [Next]_vars => IndInv'
<1> SUFFICES ASSUME IndInv, [Next]_vars PROVE IndInv'
  OBVIOUS
<1>1. ASSUME NEW u \in Users, RemoteStep(u) PROVE IndInv'
  BY <1>1, BeginKeeps, OpeningKeeps, RemoteCallKeeps DEF RemoteStep
<1>2. CASE UNCHANGED vars
  BY <1>2 DEF vars, IndInv, TypeInv, CallsFit, StoreInv, IndexUpToDate, ShownIsStored,
              ReadyExists, OneLength, Finite, Maps, Servers, Remote
<1> QED
  BY <1>1, <1>2, LocalStepKeeps, RefreshKeeps, RestartKeeps DEF Next

(* A connected store has its collection, a FAISS index that is not marked  *)
(* is the store's, only Elasticsearch shows searches something else than   *)
(* what is stored, and each call in flight is where its operation, and the *)
(* connection of its user, allow.                                          *)
THEOREM StoresInvariant == Spec => []IndInv
  BY IndInvInit, IndInvNext, PTL DEF Spec

(* The variables of the stores keep their types.                           *)
THEOREM StoresTypes == Spec => []TypeOK
<1>1. IndInv => TypeOK
  <2> SUFFICES ASSUME IndInv PROVE TypeOK
    OBVIOUS
  <2>1. \A u \in Users : call[u] # None => call[u] \in CallRecords
    BY DEF IndInv, TypeInv
  <2> QED
    BY <2>1 DEF IndInv, TypeInv, TypeOK, Servers, Lengths, CallRecords
<1> QED
  BY <1>1, StoresInvariant, PTL

(* A store that takes itself for connected has a collection on the server, *)
(* calls reach the entries only through a connected store, and the vectors *)
(* of one FAISS index have one length: for any number of users, with any   *)
(* calls failing and any processes starting again.                         *)
THEOREM ConnectedStores == Spec => []ReadyMeansCollection
<1>1. IndInv => ReadyMeansCollection
  <2> SUFFICES ASSUME IndInv PROVE ReadyMeansCollection
    OBVIOUS
  <2>1. ASSUME NEW u \in Users
        PROVE  /\ ready[u] => server.exists
               /\ At(u) \notin {"idle", "open", "create"} => ready[u]
               /\ At(u) = "create" => ~ready[u] \/ Req(u).op = "ensure"
    <3>1. ready[u] => server.exists
      BY DEF IndInv, StoreInv, ReadyExists
    <3>2. CASE call[u] = None
      BY <3>1, <3>2 DEF At
    <3>3. CASE call[u] # None
      BY <3>1, <3>3, CallFacts DEF StepFits, Req
    <3> QED
      BY <3>2, <3>3
  <2> QED
    BY <2>1 DEF IndInv, StoreInv, OneLength, ReadyMeansCollection
<1> QED
  BY <1>1, StoresInvariant, PTL

-----------------------------------------------------------------------------
(***************************************************************************)
(* The refinement: what a step of a store has to do to be a step of the    *)
(* map, for each kind of step of VectorMap.                                *)
(***************************************************************************)
Shown == IF kind = "elastic" THEN server.shown ELSE store

ShownKept == kind = "elastic" => server'.shown = server.shown
MapKept == UNCHANGED <<kind, store, ready>> /\ ShownKept

Connected(u) == Remote => ready[u]
Sharp == kind \in InProcess \cup {"pgvector"}

Operations == {"ensure", "upsert", "delete", "search", "contains", "len"}

(* Cardinality and Stored mean the same in both modules.                   *)
LEMMA SameSizes ==
  /\ \A m : Promise!Stored(m) = Stored(m)
  /\ \A S : Promise!Cardinality(S) = Cardinality(S)
<1>1. \A S : Promise!Cardinality(S) = Cardinality(S)
  BY DEF Promise!Cardinality, Cardinality
<1> QED
  BY <1>1 DEF Promise!Stored, Stored

LEMMA ListsAreSelections ==
  ASSUME NEW m, NEW n
  PROVE  Lists(m, n) = Promise!Selections(m, n)
  BY SameSizes DEF Lists, Promise!Selections

LEMMA NearbyIsSelected ==
  ASSUME NEW m, NEW k \in Nat, NEW r \in Nearby(m, k)
  PROVE  /\ r \in UNION {Promise!Selections(m, n) : n \in 0..k}
         /\ Results(m, m, r) = Promise!Hits(m, r)
<1>1. r \in UNION {Promise!Selections(m, n) : n \in 0..k}
  BY ListsAreSelections DEF Nearby
<1>2. Results(m, m, r) = Promise!Hits(m, r)
  BY DEF Results, Promise!Hits
<1> QED
  BY <1>1, <1>2

LEMMA TopKAreRankings ==
  ASSUME NEW m, NEW k \in Nat, NEW r \in TopK(m, k)
  PROVE  r \in Promise!Rankings(m, k) /\ Results(m, m, r) = Promise!Hits(m, r)
<1> DEFINE n == Least(k, Cardinality(Stored(m)))
<1>1. /\ r \in Promise!Selections(m, n)
      /\ \A i \in Stored(m) \ {r[a] : a \in 1..n} :
            \A a \in 1..n : Sim[m[i]] <= Sim[m[r[a]]]
  BY ListsAreSelections DEF TopK
<1>2. n = IF k < Promise!Cardinality(Promise!Stored(m)) THEN k
          ELSE Promise!Cardinality(Promise!Stored(m))
  BY SameSizes DEF Least
<1>3. Stored(m) = Promise!Stored(m)
  BY SameSizes
<1>4. r \in Promise!Rankings(m, k)
  <2> HIDE DEF n
  <2> QED
    BY <1>1, <1>2, <1>3 DEF Promise!Rankings
<1>5. Results(m, m, r) = Promise!Hits(m, r)
  BY DEF Results, Promise!Hits
<1> QED
  BY <1>4, <1>5

LEMMA ToNextCall == ASSUME answer' = None, MapKept PROVE Promise!Next
  BY DEF MapKept, ShownKept, Remote, Promise!Next, Promise!NextCall

LEMMA ToRaise ==
  ASSUME NEW u \in Users, NEW op \in Operations, Remote \/ op = "upsert",
         answer' = <<u, op, Raised>>, MapKept
  PROVE  Promise!Next
<1>1. Promise!Raise(u, op)
  BY DEF MapKept, ShownKept, Remote, Promise!Raise, Promise!Ends
<1> QED
  BY <1>1 DEF Operations, Promise!Next

LEMMA ToUpsert ==
  ASSUME NEW u \in Users, NEW i \in Ids, NEW e \in Entries, Connected(u),
         store' = [store EXCEPT ![i] = e], UNCHANGED <<kind, ready>>, ShownKept,
         answer' = <<u, "upsert", "done">> \/ (Remote /\ answer' = <<u, "upsert", Raised>>)
  PROVE  Promise!Next
<1>1. Promise!Upsert(u, i, e)
  BY DEF Connected, ShownKept, Remote, Promise!Upsert, Promise!Changes, Promise!Ends
<1> QED
  BY <1>1 DEF Promise!Next

LEMMA ToDelete ==
  ASSUME NEW u \in Users, NEW i \in Ids, Connected(u), Sharp => store[i] # None,
         store' = [store EXCEPT ![i] = None], UNCHANGED <<kind, ready>>, ShownKept,
         answer' = <<u, "delete", TRUE>> \/ (Remote /\ answer' = <<u, "delete", Raised>>)
  PROVE  Promise!Next
<1>1. Promise!Delete(u, i)
  BY DEF Connected, Sharp, ShownKept, Remote, Promise!Delete, Promise!Changes, Promise!Ends
<1> QED
  BY <1>1 DEF Promise!Next

LEMMA ToMiss ==
  ASSUME NEW u \in Users, NEW i \in Ids, Connected(u) => store[i] = None,
         answer' = <<u, "delete", FALSE>>, MapKept
  PROVE  Promise!Next
<1>1. Promise!DeleteMisses(u, i)
  BY DEF Connected, MapKept, ShownKept, Remote, Promise!DeleteMisses, Promise!Ends
<1> QED
  BY <1>1 DEF Promise!Next

LEMMA ToSearch ==
  ASSUME NEW u \in Users, NEW k \in 1..MaxK, Connected(u), NEW r,
         r \in (IF Remote THEN Nearby(Shown, k) ELSE TopK(Shown, k)),
         answer' = <<u, "search", Results(Shown, Shown, r)>>, MapKept
  PROVE  Promise!Next
<1>1. /\ r \in (IF ~Remote THEN Promise!Rankings(Shown, k)
                           ELSE UNION {Promise!Selections(Shown, n) : n \in 0..k})
      /\ Results(Shown, Shown, r) = Promise!Hits(Shown, r)
  <2>1. k \in Nat
    BY StoresAssumption
  <2> QED
    BY <2>1, NearbyIsSelected, TopKAreRankings
<1>2. Promise!Search(u, k)
  BY <1>1 DEF Connected, Shown, MapKept, ShownKept, Remote, Promise!Search, Promise!Ends
<1> QED
  BY <1>2 DEF Promise!Next

LEMMA ToNoHits ==
  ASSUME NEW u \in Users, NEW k \in 1..MaxK, Connected(u) => Stored(Shown) = {},
         answer' = <<u, "search", <<>>>>, MapKept
  PROVE  Promise!Next
<1>1. CASE Connected(u)
  <2> DEFINE r == [a \in 1..0 |-> a]
  <2>1. Cardinality(Stored(Shown)) = 0
    BY <1>1, FS_EmptySet
  <2>2. Least(k, 0) = 0 /\ 1..0 = {}
    BY StoresAssumption DEF Least
  <2>3. r \in Lists(Shown, 0)
    BY <2>2 DEF Lists
  <2>5. r \in TopK(Shown, k)
    BY <1>1, <2>1, <2>2, <2>3 DEF TopK
  <2>6. r \in Nearby(Shown, k)
    <3>1. 0 \in 0..k
      BY StoresAssumption
    <3> QED
      BY <2>3, <3>1 DEF Nearby
  <2>4. Results(Shown, Shown, r) = <<>>
    BY <2>2 DEF Results
  <2> QED
    BY <1>1, <2>4, <2>5, <2>6, ToSearch
<1>2. CASE ~Connected(u)
  <2>1. Promise!Search(u, k)
    BY <1>2 DEF Connected, MapKept, ShownKept, Remote, Promise!Search, Promise!Ends
  <2> QED
    BY <2>1 DEF Promise!Next
<1> QED
  BY <1>1, <1>2

LEMMA ToContains ==
  ASSUME NEW u \in Users, NEW i \in Ids,
         answer' = <<u, "contains", Connected(u) /\ store[i] # None>>, MapKept
  PROVE  Promise!Next
<1>1. Promise!Contains(u, i)
  BY DEF Connected, MapKept, ShownKept, Remote, Promise!Contains, Promise!Ends
<1> QED
  BY <1>1 DEF Promise!Next

LEMMA ToSize ==
  ASSUME NEW u \in Users, MapKept,
         answer' = <<u, "len", IF Connected(u) THEN Cardinality(Stored(Shown)) ELSE 0>>
  PROVE  Promise!Next
<1>1. answer' = <<u, "len", IF u \in IF Remote THEN {v \in Users : ready[v]} ELSE Users
                            THEN Promise!Cardinality(Promise!Stored(Shown)) ELSE 0>>
  BY SameSizes DEF Connected
<1>2. Promise!Size(u)
  BY <1>1 DEF Shown, MapKept, ShownKept, Remote, Promise!Size, Promise!Ends
<1> QED
  BY <1>2 DEF Promise!Next

LEMMA ToMeet ==
  ASSUME NEW u \in Users, Remote, ready \in [Users -> BOOLEAN],
         ready' = [ready EXCEPT ![u] = TRUE],
         answer' = None \/ answer' = <<u, "ensure", "done">>,
         UNCHANGED <<kind, store>>, ShownKept
  PROVE  Promise!Next
<1>1. {v \in Users : ready'[v]} = {v \in Users : ready[v]} \cup {u}
  OBVIOUS
<1>2. Promise!Meet(u)
  BY <1>1 DEF ShownKept, Remote, Promise!Meet, Promise!Ends
<1> QED
  BY <1>2 DEF Promise!Next

-----------------------------------------------------------------------------
(* The in-process stores.                                                  *)

LEMMA LocalMaps ==
  ASSUME IndInv, NEW u \in Users, LocalStep(u)
  PROVE  Promise!Next
<1>1. ASSUME NEW e \in Entries, LocalRefuse(u, e) PROVE Promise!Next
  BY <1>1, ToRaise DEF LocalRefuse, Ends, MapKept, ShownKept, Operations
<1>2. ASSUME NEW i \in Ids, LocalDelete(u, i) PROVE Promise!Next
  <2>1. Connected(u) /\ UNCHANGED <<kind, ready>> /\ ShownKept
        /\ answer' = <<u, "delete", store[i] # None>>
        /\ store' = [store EXCEPT ![i] = None]
    BY <1>2 DEF LocalDelete, Connected, ShownKept, Ends
  <2>2. CASE store[i] = None
    <3>1. store' = store
      BY <2>1, <2>2 DEF IndInv, TypeInv, Maps
    <3>2. answer' = <<u, "delete", FALSE>>
      BY <2>1, <2>2
    <3> QED
      BY <2>1, <2>2, <3>1, <3>2, ToMiss DEF MapKept
  <2>3. CASE store[i] # None
    <3>1. answer' = <<u, "delete", TRUE>>
      BY <2>1, <2>3
    <3> QED
      BY <2>1, <2>3, <3>1, ToDelete
  <2> QED
    BY <2>2, <2>3
<1>3. ASSUME NEW i \in Ids, NEW e \in Entries, LocalUpsert(u, i, e) PROVE Promise!Next
  BY <1>3, ToUpsert DEF LocalUpsert, Ends, Connected, ShownKept
<1>4. ASSUME NEW k \in 1..MaxK, MemorySearch(u, k) PROVE Promise!Next
  <2>1. Shown = store /\ ~Remote /\ Connected(u) /\ MapKept
    BY <1>4 DEF MemorySearch, Shown, Connected, Remote, InProcess, MapKept, ShownKept
  <2>2. PICK r \in TopK(store, k) : answer' = <<u, "search", Results(store, store, r)>>
    BY <1>4 DEF MemorySearch, Ends
  <2> QED
    BY <2>1, <2>2, ToSearch
<1>5. ASSUME NEW k \in 1..MaxK, FaissSearch(u, k) PROVE Promise!Next
  <2>1. Shown = store /\ ~Remote /\ Connected(u) /\ MapKept
    BY <1>5 DEF FaissSearch, Shown, Connected, Remote, InProcess, MapKept, ShownKept
  <2>2. CASE index' = None
    <3>1. answer' = <<u, "search", <<>>>> /\ Stored(store) = {}
      BY <1>5, <2>2, FaissSearchKeeps DEF FaissSearch, Ends
    <3> QED
      BY <2>1, <3>1, ToNoHits
  <2>3. CASE index' # None
    <3>1. index' = store
      BY <1>5, <2>3, FaissSearchKeeps
    <3>2. PICK r \in TopK(store, k) :
            IF \A a \in DOMAIN r : store[r[a]] # None
            THEN Ends(u, "search", Results(store, store, r))
            ELSE Ends(u, "search", Raised)
      BY <1>5, <2>3, <3>1 DEF FaissSearch
    <3>3. \A a \in DOMAIN r : store[r[a]] # None
      BY <3>2 DEF TopK, Lists, Stored
    <3>4. answer' = <<u, "search", Results(store, store, r)>>
      BY <3>2, <3>3 DEF Ends
    <3> QED
      BY <2>1, <3>2, <3>4, ToSearch
  <2> QED
    BY <2>2, <2>3
<1>6. CASE LocalInspect(u)
  <2>1. Shown = store /\ Connected(u) /\ MapKept
    BY <1>6 DEF LocalInspect, Shown, Connected, Remote, InProcess, MapKept, ShownKept
  <2>2. CASE Ends(u, "len", Cardinality(Stored(store)))
    BY <2>1, <2>2, ToSize DEF Ends
  <2>3. ASSUME NEW i \in Ids, Ends(u, "contains", store[i] # None) PROVE Promise!Next
    <3>1. answer' = <<u, "contains", Connected(u) /\ store[i] # None>>
      BY <2>1, <2>3 DEF Ends
    <3> QED
      BY <2>1, <3>1, ToContains
  <2> QED
    BY <1>6, <2>2, <2>3 DEF LocalInspect
<1> QED
  BY <1>1, <1>2, <1>3, <1>4, <1>5, <1>6 DEF LocalStep

-----------------------------------------------------------------------------
(* The remote stores.                                                      *)

LEMMA BeginMaps ==
  ASSUME IndInv, NEW u \in Users, NEW q \in Requests, Begin(u, q)
  PROVE  Promise!Next
<1>1. Remote /\ MapKept /\ q.op \in Operations
  BY RequestFields DEF Begin, Local, MapKept, ShownKept, Operations
<1>2. CASE BeginUpsert(u, q)
  BY <1>1, <1>2, ToNextCall, ToRaise DEF BeginUpsert, Ends
<1>3. CASE BeginOther(u, q)
  <2>1. CASE q.op # "ensure" /\ ~ready[u]
    <3>1. answer' = <<u, q.op, Offline(q.op)>> /\ q.op # "upsert"
      BY <1>3, <2>1 DEF BeginOther, Ends
    <3>2. ~Connected(u)
      BY <1>1, <2>1 DEF Connected
    <3>3. CASE q.op = "search"
      BY <1>1, <3>1, <3>2, <3>3, RequestFields, ToNoHits DEF Offline
    <3>4. CASE q.op = "len"
      BY <1>1, <3>1, <3>2, <3>4, ToSize DEF Offline
    <3>5. CASE q.op = "delete"
      <4>1. answer' = <<u, "delete", FALSE>> /\ q.id \in Ids
        BY <3>1, <3>5, RequestFields DEF Offline
      <4> QED
        BY <1>1, <3>2, <4>1, ToMiss
    <3>6. CASE q.op = "contains"
      <4>1. answer' = <<u, "contains", FALSE>> /\ q.id \in Ids
        BY <3>1, <3>6, RequestFields DEF Offline
      <4>2. answer' = <<u, "contains", Connected(u) /\ store[q.id] # None>>
        BY <3>2, <4>1
      <4> QED
        BY <1>1, <4>1, <4>2, ToContains
    <3> QED
      BY <1>1, <2>1, <3>1, <3>3, <3>4, <3>5, <3>6 DEF Operations
  <2>2. CASE ~(q.op # "ensure" /\ ~ready[u])
    BY <1>1, <1>3, <2>2, ToNextCall DEF BeginOther
  <2> QED
    BY <2>1, <2>2
<1> QED
  BY <1>2, <1>3 DEF Begin

LEMMA OpeningMaps ==
  ASSUME IndInv, NEW u \in Users,
         OpenOrCreate(u) \/ OpenExisting(u) \/ NotThere(u) \/ Create(u)
  PROVE  Promise!Next
<1>1. Remote /\ ready \in [Users -> BOOLEAN]
  <2>1. At(u) \in {"open", "create"}
    BY DEF OpenOrCreate, OpenExisting, NotThere, Create
  <2> QED
    BY <2>1, AtMeansCall, CallFacts DEF IndInv, TypeInv
<1>2. CASE OpenOrCreate(u) \/ OpenExisting(u) \/ Create(u)
  <2>1. Opened(u) /\ UNCHANGED <<kind, store>> /\ server'.shown = server.shown
    BY <1>2, ExistsFacts, LengthTypes
       DEF OpenOrCreate, OpenExisting, Create, Local, Exists, IndInv, TypeInv, Servers
  <2>2. /\ ready' = [ready EXCEPT ![u] = TRUE]
        /\ answer' = None \/ answer' = <<u, "ensure", "done">>
    BY <2>1 DEF Opened, Ends
  <2> QED
    BY <1>1, <2>1, <2>2, ToMeet DEF ShownKept
<1>3. CASE NotThere(u)
  BY <1>1, <1>3, ToRaise, ToNextCall
     DEF NotThere, Ends, Local, MapKept, ShownKept, Operations
<1> QED
  BY <1>2, <1>3

LEMMA RemoteShown ==
  ASSUME IndInv, Remote
  PROVE  Shown = server.shown
  BY DEF IndInv, StoreInv, ShownIsStored, Remote, Shown

LEMMA RemoteCallMaps ==
  ASSUME IndInv, NEW u \in Users,
         \/ Fetch(u) \/ Write(u) \/ Look(u) \/ Removed(u) \/ NothingToRemove(u)
         \/ Count(u) \/ Query(u) \/ Ask(u) \/ Tally(u) \/ ServerCallFails(u)
  PROVE  Promise!Next
<1>1. CASE Fetch(u)
  BY <1>1, ToNextCall DEF Fetch, Local, MapKept, ShownKept
<1>2. CASE Write(u)
  <2>1. /\ store' = [store EXCEPT ![Req(u).id] = Req(u).entry]
        /\ UNCHANGED <<kind, ready>>
        /\ answer' \in {<<u, "upsert", "done">>, <<u, "upsert", Raised>>}
    BY <1>2 DEF Write, Stores, Ends, Local
  <2>2. ShownKept
    BY <1>2 DEF Write, Stores, ShownKept, IndInv, TypeInv, Servers
  <2> QED
    BY <1>2, <2>1, <2>2, WriteFacts, ToUpsert DEF Connected
<1>3. CASE Look(u)
  <2>1. MapKept /\ At(u) = "look"
    BY <1>3 DEF Look, Local, MapKept, ShownKept
  <2>2. CASE store[Req(u).id] = None
    BY <1>3, <2>1, <2>2, DeleteFacts, ToMiss DEF Look, Ends
  <2>3. CASE store[Req(u).id] # None
    BY <1>3, <2>1, <2>3, ToNextCall DEF Look
  <2> QED
    BY <2>2, <2>3
<1>4. CASE Removed(u)
  <2>1. /\ store' = [store EXCEPT ![Req(u).id] = None]
        /\ UNCHANGED <<kind, ready>>
        /\ answer' \in {<<u, "delete", TRUE>>, <<u, "delete", Raised>>}
        /\ At(u) = "remove"
    BY <1>4 DEF Removed, Stores, Ends, Local
  <2>2. ShownKept
    BY <1>4 DEF Removed, Stores, ShownKept, IndInv, TypeInv, Servers
  <2>3. Remote /\ ready[u] /\ Req(u).id \in Ids
    BY <2>1, DeleteFacts
  <2>4. Sharp => store[Req(u).id] # None
    BY <1>4, <2>3 DEF Removed, Sharp, Remote
  <2> QED
    BY <2>1, <2>2, <2>3, <2>4, ToDelete DEF Connected
<1>5. CASE NothingToRemove(u)
  BY <1>5, DeleteFacts, ToMiss DEF NothingToRemove, Ends, Local, MapKept, ShownKept
<1>6. CASE Count(u)
  <2> DEFINE size == Cardinality(Stored(store))
  <2>1. MapKept /\ At(u) = "count"
    BY <1>6 DEF Count, Local, MapKept, ShownKept
  <2>2. CASE size = 0
    <3>1. IsFiniteSet(Stored(store)) /\ kind = "chroma"
      BY <2>1, AtMeansCall, CallFacts DEF IndInv, StoreInv, Finite
    <3>2. Shown = store /\ Stored(store) = {}
      BY <2>2, <3>1, FS_EmptySet DEF Shown
    <3>3. answer' = <<u, "search", <<>>>>
      BY <1>6, <2>2 DEF Count, Ends
    <3> QED
      BY <2>1, <3>2, <3>3, SearchFacts, ToNoHits
  <2>3. CASE size # 0
    BY <1>6, <2>1, <2>3, ToNextCall DEF Count
  <2> QED
    BY <2>2, <2>3
<1>7. CASE Query(u)
  <2>1. MapKept /\ At(u) = "query"
    BY <1>7 DEF Query, Local, MapKept, ShownKept
  <2>2. Remote /\ ready[u] /\ call[u].n \in 1..MaxK
    BY <2>1, SearchFacts
  <2>3. CASE Ends(u, "search", Raised)
    BY <2>1, <2>2, <2>3, ToRaise DEF Ends, Operations
  <2>4. ASSUME NEW r \in Nearby(server.shown, call[u].n),
               Ends(u, "search", Results(server.shown, server.shown, r))
        PROVE  Promise!Next
    BY <2>1, <2>2, <2>4, RemoteShown, ToSearch DEF Ends, Connected
  <2> QED
    BY <1>7, <2>3, <2>4 DEF Query
<1>8. CASE Ask(u)
  <2>1. MapKept /\ Connected(u) /\ Req(u).id \in Ids
    BY <1>8, AtMeansCall, CallFacts, RequestFields
       DEF Ask, Local, MapKept, ShownKept, Connected, StepFits, Req
  <2>2. answer' = <<u, "contains", Connected(u) /\ store[Req(u).id] # None>>
    BY <1>8, <2>1 DEF Ask, Ends
  <2> QED
    BY <2>1, <2>2, ToContains
<1>9. CASE Tally(u)
  <2>1. MapKept /\ Connected(u) /\ Remote
    BY <1>9, AtMeansCall, CallFacts DEF Tally, Local, MapKept, ShownKept, Connected, StepFits
  <2> QED
    BY <1>9, <2>1, RemoteShown, ToSize DEF Tally, Ends
<1>10. CASE ServerCallFails(u)
  <2>1. Req(u).op \in Operations
    BY <1>10, CallFacts, RequestFields DEF ServerCallFails, Operations
  <2> QED
    BY <1>10, <2>1, ToRaise DEF ServerCallFails, Ends, Local, MapKept, ShownKept
<1> QED
  BY <1>1, <1>2, <1>3, <1>4, <1>5, <1>6, <1>7, <1>8, <1>9, <1>10

LEMMA RestartMaps ==
  ASSUME IndInv, NEW u \in Users, Restart(u)
  PROVE  Promise!Next
<1>1. Promise!Leave(u)
  <2>1. CASE Remote
    <3>1. {v \in Users : ready'[v]} = {v \in Users : ready[v]} \ {u}
      BY DEF Restart, IndInv, TypeInv
    <3> QED
      BY <2>1, <3>1 DEF Restart, Remote, Promise!Leave
  <2>2. CASE ~Remote
    BY <2>2 DEF Restart, Empty, Remote, InProcess, Promise!Leave
  <2> QED
    BY <2>1, <2>2
<1> QED
  BY <1>1 DEF Promise!Next

LEMMA RefreshMaps == IndInv /\ Refresh => Promise!Next
<1> SUFFICES ASSUME IndInv, Refresh PROVE Promise!Next
  OBVIOUS
<1>1. server'.shown = store
  BY DEF Refresh, IndInv, TypeInv, Servers
<1>2. Promise!CatchUp
  BY <1>1 DEF Refresh, Local, Remote, InProcess, Promise!CatchUp
<1> QED
  BY <1>2 DEF Promise!Next

(* All six back ends implement VectorMap: there is one map, searches rank  *)
(* it, and nobody reads anything else, for any number of users, whatever   *)
(* calls of the server fail and whichever processes start again.           *)
THEOREM StoresKeepThePromise == Spec => MapSpec
<1>1. Init => Promise!Init
  <2> SUFFICES ASSUME Init PROVE Promise!Init
    OBVIOUS
  <2>1. ~Remote \/ {u \in Users : ready[u]} = {}
    BY DEF Init
  <2>2. store = [i \in Ids |-> None] /\ server.shown = store /\ answer = None
    BY DEF Init, Empty
  <2> DEFINE traits == [lagging |-> kind = "elastic",
                        sharp |-> kind \in InProcess \cup {"pgvector"},
                        inside |-> ~Remote]
  <2>3. traits \in Promise!Traits
    BY DEF Promise!Traits
  <2>4. (IF Remote THEN {u \in Users : ready[u]} ELSE Users)
        = IF traits.inside THEN Users ELSE {}
    BY <2>1
  <2>5. (IF kind = "elastic" THEN server.shown ELSE store) = store
    BY <2>2
  <2> HIDE DEF traits
  <2> QED
    BY <2>2, <2>3, <2>4, <2>5 DEF Promise!Init, traits
<1>2. IndInv /\ [Next]_vars => [Promise!Next]_(Promise!vars)
  <2> SUFFICES ASSUME IndInv, [Next]_vars PROVE [Promise!Next]_(Promise!vars)
    OBVIOUS
  <2>1. ASSUME NEW u \in Users, RemoteStep(u) PROVE Promise!Next
    BY <2>1, BeginMaps, OpeningMaps, RemoteCallMaps DEF RemoteStep
  <2>2. CASE UNCHANGED vars
    BY <2>2 DEF vars, Remote, Promise!vars
  <2> QED
    BY <2>1, <2>2, LocalMaps, RefreshMaps, RestartMaps DEF Next
<1> QED
  BY <1>1, <1>2, StoresInvariant, PTL DEF Spec, MapSpec, Promise!Spec
=============================================================================
