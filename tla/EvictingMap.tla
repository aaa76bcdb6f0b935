----------------------------- MODULE EvictingMap -----------------------------
(* The bounded LRU map behind the memory store, the filesystem store, the     *)
(* existence cache and the shared action database (nativelink-util/src/       *)
(* evicting_map.rs).  The map is a value and every operation of the           *)
(* EvictingMap a function from maps to maps, so that a store whose items do   *)
(* work when they leave (unref) can interleave that work with other steps.    *)
EXTENDS Integers, FiniteSets, Sequences, SequencesExt

\* btree is an Option<BTreeSet>: the empty set until enable_filtering() or
\* range() builds the index, then the set that holds only it.
NoIndex == {}

\* What the config gives an EvictingMap; a zero turns that limit off.
EvictionPolicy(max_bytes, evict_bytes, max_seconds, max_count) ==
    [max_bytes |-> max_bytes, evict_bytes |-> evict_bytes,
     max_seconds |-> max_seconds, max_count |-> max_count]

\* lru runs from the least to the most recently used item; an item is
\* [key, data, len, seconds_since_anchor].
EmptyMap == [lru |-> <<>>, btree |-> NoIndex, sum |-> 0]

Item(k, d, len, at) == [key |-> k, data |-> d, len |-> len, at |-> at]

KeysOf(m) == {m.lru[i].key : i \in DOMAIN m.lru}

Holds(m, k) == k \in KeysOf(m)

Peek(m, k) == m.lru[CHOOSE i \in DOMAIN m.lru : m.lru[i].key = k]

Lengths(items) == FoldLeft(LAMBDA n, x : n + x.len, 0, items)

Without(items, k) == SelectSeq(items, LAMBDA x : x.key # k)

\* Mutant: a map that is exactly full is not.
ShouldEvictLate(p, now, n, x, sum, max_bytes) ==
    \/ max_bytes # 0 /\ sum > max_bytes
    \/ p.max_seconds # 0 /\ x.at < now - p.max_seconds
    \/ p.max_count # 0 /\ n > p.max_count

ShouldEvict(p, now, n, x, sum, max_bytes) ==
    \/ max_bytes # 0 /\ sum >= max_bytes
    \/ p.max_seconds # 0 /\ x.at < now - p.max_seconds
    \/ p.max_count # 0 /\ n > p.max_count

\* The low watermark, or max_bytes when nothing calls for an eviction.  With
\* evict_bytes >= max_bytes it is 0, which ShouldEvict reads as "no limit".
Watermark(p, now, m) ==
    IF /\ p.max_bytes # 0 /\ p.evict_bytes # 0
       /\ ShouldEvict(p, now, Len(m.lru), Head(m.lru), m.sum, p.max_bytes)
    THEN IF p.max_bytes > p.evict_bytes THEN p.max_bytes - p.evict_bytes ELSE 0
    ELSE p.max_bytes

\* How many items evict_items pops from the LRU end.
EvictCount(p, now, m) ==
    IF m.lru = <<>> THEN 0
    ELSE LET Enough(n) == \/ n = Len(m.lru)
                          \/ ~ShouldEvict(p, now, Len(m.lru) - n, m.lru[n + 1],
                                m.sum - Lengths(SubSeq(m.lru, 1, n)), Watermark(p, now, m))
         IN  CHOOSE n \in 0 .. Len(m.lru) :
                /\ Enough(n)
                /\ \A i \in 0 .. n - 1 : ~Enough(i)

\* Mutant: the index keeps the keys of what is evicted.
ForgetIndexed(m, items) == [m EXCEPT !.sum = @ - Lengths(items)]

\* State::remove for items that have already left the LRU list.
Forget(m, items) ==
    [m EXCEPT !.btree = {index \ {items[i].key : i \in DOMAIN items} : index \in @},
              !.sum = @ - Lengths(items)]

\* The items evict_items unrefs, in the order it does so, and what it leaves.
Victims(p, now, m) == SubSeq(m.lru, 1, EvictCount(p, now, m))

EvictItems(p, now, m) ==
    LET n == EvictCount(p, now, m) IN
    Forget([m EXCEPT !.lru = SubSeq(@, n + 1, Len(@))], SubSeq(m.lru, 1, n))

Replaced(m, k) == SelectSeq(m.lru, LAMBDA x : x.key = k)

\* Mutant: the replaced item's size stays in the sum.
PutUnsubtracted(m, x) ==
    [m EXCEPT !.lru = Append(Without(@, x.key), x),
              !.btree = {index \cup {x.key} : index \in @}]

\* State::put: the key is entered in the index first, and when an old item
\* falls out of the LRU list State::remove takes the key out of it again.
Put(m, x) ==
    Forget([m EXCEPT !.lru = Append(Without(@, x.key), x),
                     !.btree = {index \cup {x.key} : index \in @}],
           Replaced(m, x.key))

Stored(m, x) == LET put == Put(m, x) IN [put EXCEPT !.sum = @ + x.len]

InsertWithTime(p, now, m, x) == EvictItems(p, now, Stored(m, x))

\* Every item an insert unrefs, in order: the one it replaces, then the evicted.
InsertUnrefs(p, now, m, x) == Replaced(m, x.key) \o Victims(p, now, Stored(m, x))

Promote(m, k) == [m EXCEPT !.lru = Append(Without(@, k), Peek(m, k))]

Touch(m, k, now) ==
    [m EXCEPT !.lru = Append(Without(@, k), [Peek(m, k) EXCEPT !.at = now])]

Pop(m, k) == Forget([m EXCEPT !.lru = Without(@, k)], Replaced(m, k))

\* Mutant: nothing is evicted before the lookup.
GetStale(p, now, m, k, touched) ==
    IF ~Holds(m, k) THEN m
    ELSE IF touched THEN Touch(m, k, now)
    ELSE Pop(Promote(m, k), k)

\* get(): evicts, then touches; an item whose touch fails is removed.
Get(p, now, m, k, touched) ==
    LET left == EvictItems(p, now, m) IN
    IF ~Holds(left, k) THEN left
    ELSE IF touched THEN Touch(left, k, now)
    ELSE Pop(Promote(left, k), k)

\* The expiry and count test of sizes_for_keys (sum 0 and u64::MAX).
Expired(p, now, n, x) == ShouldEvict(p, now, n, x, 0, 1)

\* sizes_for_keys() for one key; n is the length of the LRU list when the call
\* began.
SizesForKeys(p, now, m, k, peek, touched, n) ==
    IF ~Holds(m, k) THEN m
    ELSE IF Expired(p, now, n, Peek(m, k)) THEN Pop(m, k)
    ELSE IF peek THEN m
    ELSE IF touched THEN Touch(m, k, now)
    ELSE Pop(m, k)

\* inner_remove(): evicts first, then removes the key if it is still there.
InnerRemove(p, now, m, k) ==
    LET left == EvictItems(p, now, m) IN IF Holds(left, k) THEN Pop(left, k) ELSE left

\* remove_if(): looking the key up promotes it whatever the condition says.
RemoveIf(p, now, m, k, cond) ==
    IF ~Holds(m, k) THEN m
    ELSE IF cond THEN InnerRemove(p, now, Promote(m, k), k)
    ELSE Promote(m, k)

RebuildBtreeIndex(m) == [m EXCEPT !.btree = {KeysOf(m)}]

EnableFiltering(m) == IF m.btree = NoIndex THEN RebuildBtreeIndex(m) ELSE m

\* The keys range() hands to its handler, of those in the requested range.
InRange(m, ks) == UNION EnableFiltering(m).btree \cap ks
=============================================================================
