------------------------- MODULE ExistenceCacheStore -------------------------
(* The existence cache (nativelink-store/src/existence_cache_store.rs) over a *)
(* memory store: an EvictingMap of digests known to exist.  Requests look in  *)
(* the cache, ask the inner store and write the cache in separate steps, so   *)
(* evictions and other requests come in between.                              *)
EXTENDS MemoryStore

CONSTANTS Askers,      \* concurrent requests
          CachePolicy  \* the cache's eviction policy; an item weighs its size

VARIABLES cache,       \* the EvictingMap of known digests
          ask,         \* what each request is doing
          evicted,     \* ghost: keys the inner store once held and lost
          acked        \* ghost: keys whose upload was acknowledged

existenceVars == <<memVars, cache, ask, evicted, acked>>

Unasked == [pc |-> "none"]

ExistenceInit ==
    /\ MemoryInit
    /\ cache = EmptyMap
    /\ ask = [c \in Askers |-> Unasked]
    /\ evicted = {} /\ acked = {}

Asking(c, pc) == ask[c].pc = pc

Asks(c, pc, k, upload) == ask' = [ask EXCEPT ![c] = [pc |-> pc, key |-> k, upload |-> upload]]

Proceeds(c, pc) == ask' = [ask EXCEPT ![c].pc = pc]

Answers(c) == ask' = [ask EXCEPT ![c] = Unasked]

Len1(k) == CHOOSE n \in SizesOf[k] : TRUE

\* Every step that runs the inner store may lose keys there.
Loses == evicted' = evicted \cup (KeysOf(mem) \ KeysOf(mem'))

\* exists_in_cache() and the first step of inner_has_with_results(): a peek
\* drops an expired item and promotes nothing.
Peeked(k) == SizesForKeys(CachePolicy, now, cache, k, TRUE, TRUE, Len(cache.lru))

Remember(k) == InsertWithTime(CachePolicy, now, cache, Item(k, k, Len1(k), now))

\* has_with_results() for one key, and the same step inside update(): a key the
\* cache knows is answered at once, and an upload of it is drained.
PeekCache(c, k, upload) ==
    /\ Asking(c, "none")
    /\ cache' = Peeked(k)
    /\ IF Holds(cache', k)
       THEN /\ UNCHANGED ask
            /\ acked' = IF upload THEN acked \cup {k} ELSE acked
       ELSE Asks(c, "inner_has", k, upload) /\ UNCHANGED acked
    /\ UNCHANGED <<memVars, evicted>>

\* Mutant: what was asked for is remembered whether it was found or not.
InnerHasTrusting(c) ==
    /\ Asking(c, "inner_has")
    /\ HasWithResults(ask[c].key)
    /\ IF MemFound(ask[c].key) \/ ~ask[c].upload THEN Proceeds(c, "insert_many")
       ELSE Proceeds(c, "inner_update")
    /\ Loses
    /\ UNCHANGED <<cache, acked>>

InnerHas(c) ==
    /\ Asking(c, "inner_has")
    /\ LET k == ask[c].key IN
       /\ HasWithResults(k)
       /\ IF MemFound(k) THEN Proceeds(c, "insert_many")
          ELSE IF ask[c].upload THEN Proceeds(c, "inner_update")
          ELSE Answers(c)
    /\ Loses
    /\ UNCHANGED <<cache, acked>>

\* insert_many() of what the inner store was found to hold; an upload of it is
\* drained and acknowledged.
InsertMany(c) ==
    /\ Asking(c, "insert_many")
    /\ cache' = Remember(ask[c].key)
    /\ acked' = IF ask[c].upload THEN acked \cup {ask[c].key} ELSE acked
    /\ Answers(c)
    /\ UNCHANGED <<memVars, evicted>>

\* Mutant: a failed upload is remembered.
InnerUpdateIgnoresError(c) ==
    /\ Asking(c, "inner_update")
    /\ \/ Update(ask[c].key) /\ Proceeds(c, "insert")
       \/ UNCHANGED memVars /\ Proceeds(c, "insert")
    /\ Loses
    /\ UNCHANGED <<cache, acked>>

\* The inner update stores the object, or fails and leaves the cache alone.
InnerUpdate(c) ==
    /\ Asking(c, "inner_update")
    /\ \/ Update(ask[c].key) /\ Proceeds(c, "insert")
       \/ UNCHANGED memVars /\ Answers(c)
    /\ Loses
    /\ UNCHANGED <<cache, acked>>

\* Only an upload of exactly known size is remembered.
InsertUploaded(c) ==
    /\ Asking(c, "insert")
    /\ cache' \in {cache, Remember(ask[c].key)}
    /\ acked' = acked \cup {ask[c].key}
    /\ Answers(c)
    /\ UNCHANGED <<memVars, evicted>>

\* get_part(): a read that succeeds proves existence; one that does not leaves
\* a stale cache entry where it is.
InnerGet(c, k) ==
    /\ Asking(c, "none")
    /\ GetPart(k)
    /\ IF MemHit(k) THEN Asks(c, "insert_got", k, FALSE) ELSE UNCHANGED ask
    /\ Loses
    /\ UNCHANGED <<cache, acked>>

InsertGot(c) ==
    /\ Asking(c, "insert_got")
    /\ cache' = Remember(ask[c].key)
    /\ Answers(c)
    /\ UNCHANGED <<memVars, evicted, acked>>

RemoveFromCache(k) ==
    /\ cache' = InnerRemove(CachePolicy, now, cache, k)
    /\ UNCHANGED <<memVars, ask, evicted, acked>>

ExistenceNext ==
    \/ \E c \in Askers, k \in Keys :
          \/ \E upload \in BOOLEAN : PeekCache(c, k, upload)
          \/ InnerGet(c, k)
    \/ \E c \in Askers : \/ InnerHas(c) \/ InsertMany(c) \/ InnerUpdate(c)
                         \/ InsertUploaded(c) \/ InsertGot(c)
    \/ \E k \in Keys : RemoveFromCache(k)
    \/ Tick /\ UNCHANGED <<cache, ask, evicted, acked>>

ExistenceSpec == ExistenceInit /\ [][ExistenceNext]_existenceVars

-----------------------------------------------------------------------------
(* Type invariant of the existence cache.                                     *)
ExistenceTypeOK ==
    /\ evicted \subseteq Keys /\ acked \subseteq Keys /\ KeysOf(cache) \subseteq Keys
    /\ cache.sum = Lengths(cache.lru)
    /\ \A c \in Askers : ~Asking(c, "none") => ask[c].key \in Keys

(* An acknowledged upload is in the inner store unless the inner store lost   *)
(* the object by eviction: the cache only ever skips an upload of something   *)
(* that was really there (existence_cache_store.rs:164, 175).                 *)
AckedIsStored ==
    \A k \in acked : IsZeroDigest(k) \/ Holds(mem, k) \/ k \in evicted

(* What the cache claims was in the inner store when it was asked: a failed   *)
(* upload or lookup never makes a digest look present.                        *)
CachedWasPresent ==
    \A k \in KeysOf(cache) : IsZeroDigest(k) \/ Holds(mem, k) \/ k \in evicted
=============================================================================
