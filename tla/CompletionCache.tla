--------------------------- MODULE CompletionCache ---------------------------
(***************************************************************************)
(* infra/cost_latency_optimization/_cache.py: CompletionCache, an LRU      *)
(* cache with lazy expiry, shared by coroutines that run cached_complete.  *)
(*                                                                         *)
(* get, set and clear run without an await and are atomic; cached_complete *)
(* awaits the router between its get and its set, and anything may happen  *)
(* to the cache in between: other calls, clear, the clock, and a change of *)
(* the model behind the router.                                            *)
(*                                                                         *)
(* A request is abstracted to its cache key (requests that differ only in  *)
(* `extra` share one), a response to its key and to the version of the     *)
(* model that produced it, the OrderedDict to a sequence of entries.       *)
(***************************************************************************)
EXTENDS Naturals, SequencesExt

CONSTANTS Keys,        \* values of _cache_key
          Clients,     \* coroutines that use the cache
          TTL,         \* ttl_s
          MaxSize,     \* max_size, or Unbounded for None
          Unbounded,
          Nothing,
          MaxTime,     \* bound of the clock
          MaxVersion   \* bound of the model's versions

Responses == [key : Keys, ver : 0..MaxVersion]
Times == 0..(MaxTime + TTL)
Entries == [key : Keys, resp : Responses, exp : Times]
PendingCalls == [key : Keys, forced : BOOLEAN, since : 0..MaxVersion]
Replies == [key : Keys, resp : Responses, source : {"cache", "router"},
            forced : BOOLEAN]

(* What was last set for a key.                                            *)
Settings == [resp : Responses, exp : Times]

ASSUME CacheAssumption == /\ TTL \in Nat
                          /\ MaxSize \in Nat \cup {Unbounded}
                          /\ MaxTime \in Nat /\ MaxVersion \in Nat
                          /\ Nothing \notin Replies \cup Settings

VARIABLES now,      \* time.monotonic()
          version,  \* version of the model that serves the router now
          store,    \* _store, least recently used entry first
          call,     \* the cached_complete call each client awaits, or Nothing
          reply,    \* the last response returned to a caller
          latest,   \* history: the last set of each key since clear
          recency   \* history: the keys ever used, least recently used first

cacheVars == <<now, version, store, call, reply, latest, recency>>

CacheTypeOK == /\ now \in 0..MaxTime
               /\ version \in 0..MaxVersion
               /\ store \in Seq(Entries)
               /\ call \in [Clients -> PendingCalls \cup {Nothing}]
               /\ reply \in Replies \cup {Nothing}
               /\ latest \in [Keys -> Settings \cup {Nothing}]
               /\ recency \in Seq(Keys)

CacheInit == /\ now = 0
             /\ version = 0
             /\ store = <<>>
             /\ call = [c \in Clients |-> Nothing]
             /\ reply = Nothing
             /\ latest = [k \in Keys |-> Nothing]
             /\ recency = <<>>

-----------------------------------------------------------------------------
(* The OrderedDict.                                                        *)

StoredKeys(s) == {e.key : e \in Range(s)}

PositionOf(s, k) == CHOOSE a \in DOMAIN s : s[a].key = k

EntryOf(s, k) == s[PositionOf(s, k)]

Without(s, k) == IF k \in StoredKeys(s) THEN RemoveAt(s, PositionOf(s, k)) ELSE s

(* Bug: a hit does not count as a use.                                     *)
NoMoveToEnd(s, k) == s

MoveToEnd(s, k) == Append(Without(s, k), EntryOf(s, k))

Assign(s, k, e) == Append(Without(s, k), e)

(* Bug: the limit is taken for the first size that is too large.           *)
EvictOneTooSoon(s) ==
    IF MaxSize = Unbounded \/ Len(s) < MaxSize
    THEN s
    ELSE SubSeq(s, Len(s) - MaxSize + 2, Len(s))

(* Bug: the cache may stay one entry over its limit.                       *)
EvictOneTooLate(s) ==
    IF MaxSize = Unbounded \/ Len(s) <= MaxSize + 1
    THEN s
    ELSE SubSeq(s, Len(s) - MaxSize, Len(s))

EvictOldest(s) ==
    IF MaxSize = Unbounded \/ Len(s) <= MaxSize
    THEN s
    ELSE SubSeq(s, Len(s) - MaxSize + 1, Len(s))

(* Bug: the time-to-live is counted twice.                                 *)
ExpiredTooLate(e) == now > e.exp + TTL

Expired(e) == now > e.exp

-----------------------------------------------------------------------------
(* The operations.                                                         *)

Others(r, k) == IF k \in Range(r)
                THEN RemoveAt(r, CHOOSE a \in DOMAIN r : r[a] = k)
                ELSE r

Used(k) == recency' = Append(Others(recency, k), k)

Hits(k) == k \in StoredKeys(store) /\ ~Expired(EntryOf(store, k))

(* get: a hit moves its entry to the end, an expired entry is deleted.     *)
GetHit(k) == /\ Hits(k)
             /\ store' = MoveToEnd(store, k)
             /\ Used(k)

GetMiss(k) == /\ ~Hits(k)
              /\ store' = Without(store, k)
              /\ UNCHANGED recency

(* set: overwrite, move to the end, then evict while over the limit.       *)
Set(k, r) ==
    LET e == [key |-> k, resp |-> r, exp |-> now + TTL]
    IN  /\ store' = EvictOldest(Assign(store, k, e))
        /\ latest' = [latest EXCEPT ![k] = [resp |-> r, exp |-> e.exp]]
        /\ Used(k)

Clear == /\ store' = <<>>
         /\ latest' = [k \in Keys |-> Nothing]
         /\ UNCHANGED <<now, version, call, reply, recency>>

-----------------------------------------------------------------------------
(* cached_complete, up to its await and after it.                          *)

Answered(k, r, source, forced) ==
    reply' = [key |-> k, resp |-> r, source |-> source, forced |-> forced]

MayUseCache(forced) == ~forced

CompleteFromCache(c, k, forced) ==
    /\ call[c] = Nothing
    /\ MayUseCache(forced)
    /\ GetHit(k)
    /\ Answered(k, EntryOf(store, k).resp, "cache", forced)
    /\ UNCHANGED <<now, version, call, latest>>

CompleteByRouter(c, k, forced) ==
    /\ call[c] = Nothing
    /\ \/ MayUseCache(forced) /\ GetMiss(k)
       \/ ~MayUseCache(forced) /\ UNCHANGED <<store, recency>>
    /\ call' = [call EXCEPT ![c] = [key |-> k, forced |-> forced,
                                    since |-> version]]
    /\ UNCHANGED <<now, version, reply, latest>>

(* The router answers with any version that served while the call waited.  *)
RouterAnswers(c) ==
    /\ call[c] # Nothing
    /\ \E v \in call[c].since..version :
          LET r == [key |-> call[c].key, ver |-> v]
          IN  /\ Set(call[c].key, r)
              /\ Answered(call[c].key, r, "router", call[c].forced)
    /\ call' = [call EXCEPT ![c] = Nothing]
    /\ UNCHANGED <<now, version>>

(* AllProvidersFailedError or a cancellation: nothing is cached.           *)
RouterRaises(c) ==
    /\ call[c] # Nothing
    /\ call' = [call EXCEPT ![c] = Nothing]
    /\ UNCHANGED <<now, version, store, reply, latest, recency>>

(* A caller may use get and set by itself.                                 *)
DirectGet(k) ==
    /\ \/ GetHit(k) /\ Answered(k, EntryOf(store, k).resp, "cache", FALSE)
       \/ GetMiss(k) /\ UNCHANGED reply
    /\ UNCHANGED <<now, version, call, latest>>

DirectSet(k) ==
    /\ Set(k, [key |-> k, ver |-> version])
    /\ UNCHANGED <<now, version, call, reply>>

-----------------------------------------------------------------------------
(* The environment: time passes, the model behind the router changes.      *)
Tick == /\ now < MaxTime
        /\ now' = now + 1
        /\ UNCHANGED <<version, store, call, reply, latest, recency>>

NewVersion == /\ version < MaxVersion
              /\ version' = version + 1
              /\ UNCHANGED <<now, store, call, reply, latest, recency>>

CacheNext == \/ \E c \in Clients :
                   \/ \E k \in Keys, forced \in BOOLEAN :
                         \/ CompleteFromCache(c, k, forced)
                         \/ CompleteByRouter(c, k, forced)
                   \/ RouterAnswers(c)
                   \/ RouterRaises(c)
             \/ \E k \in Keys : DirectGet(k) \/ DirectSet(k)
             \/ Clear
             \/ Tick
             \/ NewVersion

CacheSpec == CacheInit /\ [][CacheNext]_cacheVars

-----------------------------------------------------------------------------
(* The cache never holds more than max_size entries, and never two for one *)
(* key, also between the calls that race for the same key.                 *)
SizeBound ==
    /\ MaxSize = Unbounded \/ Len(store) <= MaxSize
    /\ Cardinality(StoredKeys(store)) = Len(store)

(* The keys used since k was.                                              *)
UsedSince(k) == {j \in Keys : \E a, b \in DOMAIN recency :
                                  recency[a] = k /\ recency[b] = j /\ a < b}

(* An entry disappears only because it expired, because the cache was      *)
(* cleared, or as the least recently used one: all that stay were read or  *)
(* written later.                                                          *)
EvictsLeastRecentlyUsed ==
    [][\A k \in StoredKeys(store) \ StoredKeys(store') :
          \/ Expired(EntryOf(store, k))
          \/ latest' = [j \in Keys |-> Nothing]
          \/ StoredKeys(store') \subseteq UsedSince(k)']_cacheVars

(* No provider call is paid for that the cache could have saved: a key     *)
(* that was set, and neither cleared nor past its time since, is missing   *)
(* only after max_size other keys were used, whatever expired or was       *)
(* deleted, written again or read in between.                              *)
NoNeedlessMiss ==
    \A k \in Keys \ StoredKeys(store) :
        latest[k] # Nothing /\ now <= latest[k].exp =>
            MaxSize # Unbounded /\ Cardinality(UsedSince(k)) >= MaxSize

(* Readers see a map with a time-to-live: the last value set for the key,  *)
(* set since the last clear and not expired.                               *)
Fresh == INSTANCE FreshMap
             WITH served <- IF reply # Nothing /\ reply.source = "cache"
                            THEN [key |-> reply.key, resp |-> reply.resp]
                            ELSE Nothing

FreshSpec == Fresh!Spec

-----------------------------------------------------------------------------
(* docs/infra/cost_latency_optimization.md:199: force_refresh obtains a    *)
(* "guaranteed-fresh response (e.g., after a model version change) while   *)
(* still populating the cache for subsequent callers".  So what a refresh  *)
(* has put in the cache, while it is there and has not expired, gives way  *)
(* to nothing older unless another refresh writes it.                      *)
RefreshStays ==
    [][LET k == reply.key
       IN  reply # Nothing /\ reply.forced =>
              \/ latest[k] = Nothing \/ latest'[k] = Nothing
              \/ Expired(latest[k]) \/ reply'.forced
              \/ latest'[k].resp.ver >= reply.resp.ver]_cacheVars
=============================================================================
