------------------------------ MODULE Ingestion ------------------------------
(***************************************************************************)
(* data/ingestion/_pipeline.py: IngestionPipeline.ingest, which pulls      *)
(* documents from a connector, parses, chunks and hands each chunk to an   *)
(* upsert callback, and remembers the contents it has seen in a dedup      *)
(* store that may outlive the process.                                     *)
(*                                                                         *)
(* Several runs of ingest may overlap on one event loop.  A run gives up   *)
(* control only while it fetches; from there to the next fetch it runs by  *)
(* itself, but may raise, or the process die, at each call it makes: the   *)
(* parser, the chunker, one upsert.  A step goes up to the next of those.  *)
(* A document is abstracted to its content, which is what is hashed; the   *)
(* counts of the report, which each step only adds to, are left out.       *)
(***************************************************************************)
EXTENDS Naturals, Sequences

CONSTANTS Runs,          \* coroutines that run ingest
          Contents,      \* contents of documents
          Feed,          \* the connector's documents, by increasing cursor
          NumChunks,     \* chunks the chunker makes of each content
          DedupDurable   \* SQLiteDeduplicationStore, not the in-memory one

ASSUME IngestionAssumption == /\ Feed \in Seq(Contents)
                              /\ NumChunks \in [Contents -> Nat]
                              /\ DedupDurable \in BOOLEAN

VARIABLES pc,       \* each run: "idle", "fetch" or "upsert"
          next,     \* each run: position in the feed of the document at hand
          chunk,    \* chunks upserted so far by the run that upserts
          seen,     \* hashes in the dedup store
          upserts,  \* history: calls of the callback per chunk, since reset
          aborted   \* history: contents whose handling was cut short

vars == <<pc, next, chunk, seen, upserts, aborted>>

TypeOK == /\ pc \in [Runs -> {"idle", "fetch", "upsert"}]
          /\ next \in [Runs -> 1..(Len(Feed) + 1)]
          /\ chunk \in Nat
          /\ seen \subseteq Contents
          /\ \A c \in Contents : upserts[c] \in [1..NumChunks[c] -> Nat]
          /\ aborted \subseteq Contents

NoUpserts == [c \in Contents |-> [k \in 1..NumChunks[c] |-> 0]]

Init == /\ pc = [r \in Runs |-> "idle"]
        /\ next = [r \in Runs |-> 1]
        /\ chunk = 0
        /\ seen = {}
        /\ upserts = NoUpserts
        /\ aborted = {}

-----------------------------------------------------------------------------
Content(r) == Feed[next[r]]

(* No run holds the event loop.                                            *)
LoopIsFree == \A r \in Runs : pc[r] # "upsert"

(* The connector yields a document, and the loop resumes the run.          *)
AtDocument(r) == pc[r] = "fetch" /\ next[r] <= Len(Feed) /\ LoopIsFree

Goto(r, l) == pc' = [pc EXCEPT ![r] = l]

Advance(r) == next' = [next EXCEPT ![r] = @ + 1]

(* ingest(since_cursor): the connector starts after the cursor.            *)
Start(r) == /\ pc[r] = "idle" /\ LoopIsFree
            /\ Goto(r, "fetch")
            /\ \E n \in 1..(Len(Feed) + 1) : next' = [next EXCEPT ![r] = n]
            /\ UNCHANGED <<chunk, seen, upserts, aborted>>

FeedExhausted(r) == /\ pc[r] = "fetch" /\ LoopIsFree
                    /\ next[r] > Len(Feed)
                    /\ Goto(r, "idle")
                    /\ UNCHANGED <<next, chunk, seen, upserts, aborted>>

(* The connector raises, or the dedup store does before it has recorded    *)
(* anything, or the coroutine is cancelled while it fetches.               *)
FetchRaises(r) == /\ pc[r] = "fetch" /\ LoopIsFree
                  /\ Goto(r, "idle")
                  /\ UNCHANGED <<next, chunk, seen, upserts, aborted>>

SkipSeen(r) == /\ AtDocument(r)
               /\ Content(r) \in seen
               /\ Advance(r)
               /\ UNCHANGED <<pc, chunk, seen, upserts, aborted>>

(* A parse error is counted and the run goes on; the content is not seen.  *)
ParseFails(r) == /\ AtDocument(r)
                 /\ Content(r) \notin seen
                 /\ Advance(r)
                 /\ UNCHANGED <<pc, chunk, seen, upserts, aborted>>

(* Bug: the hash is not recorded.                                          *)
AcceptUnrecorded(r) == /\ AtDocument(r)
                       /\ Content(r) \notin seen
                       /\ IF NumChunks[Content(r)] = 0
                          THEN Advance(r) /\ UNCHANGED <<pc, chunk>>
                          ELSE Goto(r, "upsert") /\ chunk' = 0 /\ UNCHANGED next
                       /\ UNCHANGED <<seen, upserts, aborted>>

(* Parsed: the hash is recorded first, then the document is chunked.       *)
Accept(r) == /\ AtDocument(r)
             /\ Content(r) \notin seen
             /\ seen' = seen \cup {Content(r)}
             /\ IF NumChunks[Content(r)] = 0
                THEN Advance(r) /\ UNCHANGED <<pc, chunk>>
                ELSE Goto(r, "upsert") /\ chunk' = 0 /\ UNCHANGED next
             /\ UNCHANGED <<upserts, aborted>>

(* The chunker raises: nothing catches it, and the hash is recorded.       *)
ChunkerRaises(r) == /\ AtDocument(r)
                    /\ Content(r) \notin seen
                    /\ seen' = seen \cup {Content(r)}
                    /\ aborted' = aborted \cup {Content(r)}
                    /\ Goto(r, "idle")
                    /\ UNCHANGED <<next, chunk, upserts>>

(* Bug: the last chunk is left out.                                        *)
UpsertStopsEarly(r) ==
    /\ pc[r] = "upsert"
    /\ upserts' = [upserts EXCEPT ![Content(r)][chunk + 1] = @ + 1]
    /\ chunk' = chunk + 1
    /\ IF chunk + 2 >= NumChunks[Content(r)]
       THEN Goto(r, "fetch") /\ Advance(r)
       ELSE UNCHANGED <<pc, next>>
    /\ UNCHANGED <<seen, aborted>>

(* One call of the callback; after the last, the next document.            *)
Upsert(r) ==
    /\ pc[r] = "upsert"
    /\ upserts' = [upserts EXCEPT ![Content(r)][chunk + 1] = @ + 1]
    /\ chunk' = chunk + 1
    /\ IF chunk + 1 = NumChunks[Content(r)]
       THEN Goto(r, "fetch") /\ Advance(r)
       ELSE UNCHANGED <<pc, next>>
    /\ UNCHANGED <<seen, aborted>>

(* The callback raises: the exception leaves ingest, other runs go on.     *)
UpsertRaises(r) == /\ pc[r] = "upsert"
                   /\ Goto(r, "idle")
                   /\ aborted' = aborted \cup {Content(r)}
                   /\ UNCHANGED <<next, chunk, seen, upserts>>

Cut == {Content(r) : r \in {x \in Runs : pc[x] = "upsert"}}

(* The process dies; hashes in memory are lost, committed ones are not.    *)
Crash == /\ pc' = [r \in Runs |-> "idle"]
         /\ IF DedupDurable
            THEN aborted' = aborted \cup Cut /\ UNCHANGED <<seen, upserts>>
            ELSE aborted' = {} /\ seen' = {} /\ upserts' = NoUpserts
         /\ UNCHANGED <<next, chunk>>

(* reset_dedup, also while a run fetches.                                  *)
ResetDedup == /\ LoopIsFree
              /\ seen' = {}
              /\ upserts' = NoUpserts
              /\ aborted' = {}
              /\ UNCHANGED <<pc, next, chunk>>

Step(r) == \/ Start(r) \/ FeedExhausted(r) \/ FetchRaises(r)
           \/ SkipSeen(r) \/ ParseFails(r) \/ Accept(r) \/ ChunkerRaises(r)
           \/ Upsert(r) \/ UpsertRaises(r)

Next == (\E r \in Runs : Step(r)) \/ Crash \/ ResetDedup

Spec == Init /\ [][Next]_vars

-----------------------------------------------------------------------------
(* A chunk is upserted at most once as long as the hashes live, although   *)
(* documents repeat in the feed, runs overlap in what they fetch, upserts  *)
(* raise halfway through a document and the process dies between two.      *)
AtMostOnce ==
    \A c \in Contents : \A k \in 1..NumChunks[c] : upserts[c][k] <= 1

(* A document whose hash is recorded has all its chunks upserted, unless   *)
(* it is the one at hand or its handling was cut short by an exception or  *)
(* a crash; a parse error or a failed fetch leaves nothing behind.         *)
AllUpserted(c) == \A k \in 1..NumChunks[c] : upserts[c][k] > 0

AtHand(c) == \E r \in Runs : pc[r] = "upsert" /\ Content(r) = c

CompleteUnlessCut ==
    \A c \in seen \ aborted :
        IF AtHand(c)
        THEN \A k \in 1..NumChunks[c] : upserts[c][k] > 0 <=> k <= chunk
        ELSE AllUpserted(c)

-----------------------------------------------------------------------------
(* "upsert: Called once for each non-deduplicated chunk", docstring of     *)
(* IngestionPipeline: with no run in progress, a document that the next    *)
(* run would skip as seen has had its chunks upserted.                     *)
SeenIsUpserted ==
    (\A r \in Runs : pc[r] = "idle") => \A c \in seen : AllUpserted(c)
=============================================================================
