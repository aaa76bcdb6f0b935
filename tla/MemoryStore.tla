----------------------------- MODULE MemoryStore -----------------------------
(* The in-memory store (nativelink-store/src/memory_store.rs): an EvictingMap *)
(* of byte buffers behind the StoreDriver operations.  Every operation takes  *)
(* the map's mutex once, so it is one action.                                 *)
EXTENDS EvictingMap

CONSTANTS Keys,        \* store keys
          ZeroKeys,    \* the keys is_zero_digest() recognises
          SizesOf,     \* the sizes an upload under each key may have
          Policies,    \* the eviction policies a config may give
          MaxNow       \* bound on the seconds that pass

VARIABLES mem,         \* the EvictingMap
          policy,      \* the eviction policy of the configuration
          now,         \* anchor_time.elapsed()
          lastUse,     \* ghost: when each key was last stored, found or read
          served       \* ghost: how long the last item served had been idle

memVars == <<mem, policy, now, lastUse, served>>

NotServed == 0

MemoryInit ==
    /\ mem = EmptyMap
    /\ policy \in Policies
    /\ now = 0
    /\ lastUse = [k \in Keys |-> 0]
    /\ served = NotServed

\* is_zero_digest: the empty object always exists and is never stored.
IsZeroDigest(k) == k \in ZeroKeys

\* Items of a memory store have the default touch(), which cannot fail.
HasIn(m, k) == SizesForKeys(policy, now, m, k, FALSE, TRUE, Len(m.lru))

MemFound(k) == IsZeroDigest(k) \/ Holds(HasIn(mem, k), k)

Used(k, m) ==
    /\ lastUse' = IF Holds(m, k) THEN [lastUse EXCEPT ![k] = now] ELSE lastUse
    /\ UNCHANGED <<policy, now>>

HasWithResults(k) ==
    /\ mem' = HasIn(mem, k)
    /\ served' = IF Holds(mem', k) THEN now - lastUse[k] ELSE NotServed
    /\ Used(k, mem')

\* list(): the first call builds the index.
List ==
    /\ mem' = EnableFiltering(mem)
    /\ served' = NotServed
    /\ UNCHANGED <<policy, now, lastUse>>

\* update() reads the whole stream before it touches the map.
Update(k) ==
    /\ \E len \in SizesOf[k] :
          mem' = InsertWithTime(policy, now, mem, Item(k, k, len, now))
    /\ served' = NotServed
    /\ lastUse' = [lastUse EXCEPT ![k] = now]
    /\ UNCHANGED <<policy, now>>

\* Whether get_part() finds the key: it evicts before it looks.
MemHit(k) == IsZeroDigest(k) \/ Holds(EvictItems(policy, now, mem), k)

GetPart(k) ==
    IF IsZeroDigest(k) THEN UNCHANGED memVars
    ELSE /\ mem' = Get(policy, now, mem, k, TRUE)
         /\ served' = IF Holds(mem', k) THEN now - lastUse[k] ELSE NotServed
         /\ Used(k, mem')

RemoveEntry(k) ==
    /\ mem' = InnerRemove(policy, now, mem, k)
    /\ served' = NotServed
    /\ UNCHANGED <<policy, now, lastUse>>

\* The clock moves on.
Tick ==
    /\ now < MaxNow
    /\ now' = now + 1
    /\ served' = NotServed
    /\ UNCHANGED <<mem, policy, lastUse>>

MemoryNext ==
    \/ \E k \in Keys : HasWithResults(k) \/ Update(k) \/ GetPart(k) \/ RemoveEntry(k)
    \/ List
    \/ Tick

MemorySpec == MemoryInit /\ [][MemoryNext]_memVars

-----------------------------------------------------------------------------
(* The bytes of an object that get_part(offset, length) sends; length None is *)
(* a length no object reaches.                                                *)
Slice(size, offset, length) ==
    LET rest == IF size > offset THEN size - offset ELSE 0 IN
    IF length < rest THEN length ELSE rest

-----------------------------------------------------------------------------
(* Type invariant of the memory store's state.                                *)
MemoryTypeOK ==
    /\ policy \in Policies /\ now \in 0 .. MaxNow /\ served \in 0 .. MaxNow
    /\ lastUse \in [Keys -> 0 .. MaxNow]
    /\ mem.sum \in Nat
    /\ Cardinality(mem.btree) <= 1 /\ UNION mem.btree \subseteq Keys
    /\ \A i \in DOMAIN mem.lru :
          /\ mem.lru[i].key \in Keys /\ mem.lru[i].at \in 0 .. MaxNow
          /\ \A j \in DOMAIN mem.lru : mem.lru[i].key = mem.lru[j].key => i = j

(* sum_store_size is the total length of the items in the map after any mix   *)
(* of inserts, replacements, expiries and removals (evicting_map.rs:130, 434):*)
(* were it to drift, the store would evict everything or nothing.             *)
MemSumExact == mem.sum = Lengths(mem.lru)

(* Every key of the index is still in the map, so the unwrap() in range()     *)
(* (evicting_map.rs:228) cannot panic whatever was evicted since.             *)
MemIndexLive == UNION mem.btree \subseteq KeysOf(mem)

(* With a low watermark above zero the store never ends an operation at or    *)
(* above max_bytes nor beyond max_count items.                                *)
MemBounded ==
    /\ policy.max_bytes > policy.evict_bytes => mem.sum < policy.max_bytes
    /\ policy.max_count # 0 => Len(mem.lru) <= policy.max_count

(* Nothing that had been idle for longer than max_seconds is found or read:   *)
(* the eviction that precedes every lookup reaches it in LRU order.           *)
MemFresh == policy.max_seconds # 0 => served <= policy.max_seconds

(* range() visits every key of the map ("Run the `handler` function on each   *)
(* key-value pair that matches the `prefix_range`", evicting_map.rs:209).     *)
ListComplete == \A index \in mem.btree : index = KeysOf(mem)
=============================================================================
