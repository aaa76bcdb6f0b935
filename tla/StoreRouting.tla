----------------------------- MODULE StoreRouting -----------------------------
(***************************************************************************)
(* The stores that split keys over other stores:                           *)
(* nativelink-store/src/shard_store.rs by the hash of the key and          *)
(* nativelink-store/src/size_partitioning_store.rs by its size.  A lookup  *)
(* of many keys becomes one lookup per store; the stores answer in any     *)
(* order, or fail, and the answers are put back in the order of the keys.  *)
(* A noop store (noop_store.rs) may stand behind either.                   *)
(*                                                                         *)
(* At the end, nativelink-store/src/ref_store.rs: a store that stands for  *)
(* one of another name, found in store_manager.rs.                         *)
(***************************************************************************)
EXTENDS Naturals, Sequences, SequencesExt, FiniteSets, FiniteSetsExt, Functions

CONSTANTS
    RoutedKeys,   \* digests
    SizeOfKey,    \* digest |-> size_bytes
    HashOfKey,    \* digest |-> the 32 bits its hash and size are folded to
    StrKeys,      \* keys that are strings
    Weights,      \* the weights of the shards, one of these tuples
    PartitionSize,
    MaxKeys,      \* most keys of a lookup
    NoopStores,   \* numbers of the stores that are noop stores
    MaxU32        \* u32::MAX

VARIABLES
    kind,      \* "shard" or "size"
    weights,   \* weights of the shards
    held,      \* store |-> digests it has
    lookup,    \* has_with_results(): [pc, keys, results, waits]
    asOf       \* ghost: held when each store answered

routeVars == <<kind, weights, held, lookup, asOf>>

Stores == IF kind = "size" THEN 1..2 ELSE DOMAIN weights

NoLookupYet == [pc |-> "idle", keys |-> <<>>, results |-> <<>>, waits |-> {}]

RouteInit ==
    /\ kind \in {"shard", "size"} /\ weights \in Weights
    /\ held = [s \in Stores |-> {}]
    /\ lookup = NoLookupYet
    /\ asOf = held

-----------------------------------------------------------------------------
(* ShardStore                                                               *)

\* ShardStore::new(): the shares of the 32-bit space, added up, the last one
\* set to the end of the space.
TotalWeight(w) == FoldFunction(LAMBDA a, b : a + b, 0, w)
Share(w, i) == (MaxU32 * w[i]) \div TotalWeight(w)
\* The sums of the shares; in the place of Cumulative, a mutant whose last bound is
\* not raised to the largest key.
CumulativeOpen(w) == [i \in DOMAIN w |-> FoldLeft(LAMBDA n, j : n + Share(w, j), 0, [j \in 1..i |-> j])]

Cumulative(w) == [CumulativeOpen(w) EXCEPT ![Len(w)] = MaxU32]

\* binary_search_by_key(): an index whose weight is the key, or else the first
\* one above it.
StoreIndexes(w, key) ==
    LET c == Cumulative(w)
        equal == {i \in DOMAIN w : c[i] = key}
    IN  IF equal # {} THEN equal ELSE {1 + Cardinality({i \in DOMAIN w : c[i] < key})}

ShardOf(w, key) == Min(StoreIndexes(w, key))

-----------------------------------------------------------------------------
(* SizePartitioningStore                                                    *)

PartitionOf(k) == IF SizeOfKey[k] < PartitionSize THEN 1 ELSE 2

\* get_store() of a shard store; update(), get_part() and inner_store() of both.
StoreOf(k) == IF kind = "size" THEN PartitionOf(k) ELSE ShardOf(weights, HashOfKey[k])

-----------------------------------------------------------------------------
(* update() ends in the store of the key; a noop store drains it.           *)

RouteUpdate(k) ==
    /\ held' = [held EXCEPT ![StoreOf(k)] = IF StoreOf(k) \in NoopStores THEN @ ELSE @ \cup {k}]
    /\ UNCHANGED <<kind, weights, lookup, asOf>>

\* External: a store evicts.
RouteEvict(s) ==
    /\ held[s] # {}
    /\ held' = [held EXCEPT ![s] = {}]
    /\ UNCHANGED <<kind, weights, lookup, asOf>>

Bucket(s) == SelectSeq([i \in DOMAIN lookup.keys |-> i], LAMBDA i : StoreOf(lookup.keys[i]) = s)

\* String keys are refused by a size partitioning store; in a shard store they
\* are hashed, and here they go the way of a digest.
StartLookupOf(keys) ==
    /\ lookup.pc = "idle"
    /\ lookup' = [pc |-> "ask", keys |-> keys, results |-> [i \in DOMAIN keys |-> {}],
                  waits |-> IF kind = "shard" /\ Len(keys) = 1 THEN {StoreOf(keys[1])} ELSE Stores]
    /\ UNCHANGED <<kind, weights, held, asOf>>

RefuseString(k) ==
    /\ lookup.pc = "idle" /\ kind = "size"
    /\ lookup' = [NoLookupYet EXCEPT !.pc = "err"]
    /\ UNCHANGED <<kind, weights, held, asOf>>

Answer(s, k) == IF k \in held[s] THEN {SizeOfKey[k]} ELSE {}

\* Mutant: the answers go to the first places.
ScatteredInOrder(s) ==
    [i \in DOMAIN lookup.keys |->
        IF i <= Len(Bucket(s)) THEN Answer(s, lookup.keys[Bucket(s)[i]]) ELSE lookup.results[i]]

\* The answers of one store go to the places of its keys.
Scattered(s) ==
    [i \in DOMAIN lookup.keys |->
        IF StoreOf(lookup.keys[i]) = s THEN Answer(s, lookup.keys[i]) ELSE lookup.results[i]]

StoreAnswers(s) ==
    /\ lookup.pc = "ask" /\ s \in lookup.waits
    /\ lookup' = [lookup EXCEPT !.results = Scattered(s), !.waits = @ \ {s}]
    /\ asOf' = [asOf EXCEPT ![s] = held[s]]
    /\ UNCHANGED <<kind, weights, held>>

\* An error of a store ends the lookup of a shard store; the other partition is
\* awaited first.
StoreFails(s) ==
    /\ lookup.pc = "ask" /\ s \in lookup.waits
    /\ lookup' = [lookup EXCEPT !.pc = IF kind = "shard" \/ lookup.waits = {s} THEN "err" ELSE "failing",
                                !.waits = @ \ {s}]
    /\ UNCHANGED <<kind, weights, held, asOf>>

FailedLookupEnds ==
    /\ lookup.pc = "failing"
    /\ lookup' = [lookup EXCEPT !.pc = "err", !.waits = {}]
    /\ UNCHANGED <<kind, weights, held, asOf>>

LookupDone ==
    /\ lookup.pc = "ask" /\ lookup.waits = {}
    /\ lookup' = [lookup EXCEPT !.pc = "ok"]
    /\ UNCHANGED <<kind, weights, held, asOf>>

RouteNext ==
    \/ \E k \in RoutedKeys : RouteUpdate(k)
    \/ \E s \in Stores : RouteEvict(s) \/ StoreAnswers(s) \/ StoreFails(s)
    \/ \E n \in 0..MaxKeys : \E keys \in [1..n -> RoutedKeys] : StartLookupOf(keys)
    \/ \E k \in StrKeys : RefuseString(k)
    \/ FailedLookupEnds \/ LookupDone

RouteSpec == RouteInit /\ [][RouteNext]_routeVars

-----------------------------------------------------------------------------
\* A lookup that succeeds answers every key, repeated keys included, with what
\* the store of that key had when it was asked (shard_store.rs:189,
\* size_partitioning_store.rs:80).
AnswersInPlace ==
    lookup.pc = "ok" =>
        \A i \in DOMAIN lookup.keys :
            LET k == lookup.keys[i] IN
            lookup.results[i] = IF k \in asOf[StoreOf(k)] THEN {SizeOfKey[k]} ELSE {}

\* Every hash has a shard, and a shard gets its share of the hashes up to the
\* rounding: "Our last item should always be the max" (shard_store.rs:73).
SharesAreFair ==
    kind = "shard" /\ lookup.pc = "idle" =>
    \A i \in DOMAIN weights :
        LET mine == {h \in 0..MaxU32 : ShardOf(weights, h) = i}
            total == TotalWeight(weights)
        IN  /\ \A h \in 0..MaxU32 : StoreIndexes(weights, h) \subseteq DOMAIN weights
            /\ Cardinality(mine) * total <= MaxU32 * weights[i] + Len(weights) * total
            /\ Cardinality(mine) * total + total >= MaxU32 * weights[i]

(***************************************************************************)
(* RefStore: resolves another store by name in the store manager when it   *)
(* is first used, and keeps it in a cell that is read without the lock.    *)
(* The reference in the cell is two words, written one after the other in  *)
(* either order: a read that races the write sees any mixture of old and   *)
(* new words.                                                              *)
(***************************************************************************)
CONSTANTS Threads, NoThread

VARIABLES
    manager,   \* the stores of the manager by name: whether the named one is there yet
    cell,      \* [data, vtable |-> "unset" | "set"]
    mux,       \* holder of the mutex, or NoThread
    thread,    \* thread |-> pc
    gotStore,       \* thread |-> what its last call returned
    first      \* ghost: whether some call has returned the store

refVars == <<manager, cell, mux, thread, gotStore, first>>

RefInit ==
    /\ manager = FALSE
    /\ cell = [data |-> "unset", vtable |-> "unset"]
    /\ mux = NoThread
    /\ thread = [t \in Threads |-> "idle"]
    /\ gotStore = [t \in Threads |-> "none"]
    /\ first = FALSE

GotoStep(t, pc) == thread' = [thread EXCEPT ![t] = pc]
ReturnsStore(t, what) == gotStore' = [gotStore EXCEPT ![t] = what] /\ GotoStep(t, "idle")

\* StoreManager::add_store(), while the configured stores are built.
AddStore ==
    /\ ~manager /\ manager' = TRUE
    /\ UNCHANGED <<cell, mux, thread, gotStore, first>>

\* The cell is Some when its data word is set; the caller then uses both words.
ReadCell(t) ==
    /\ thread[t] = "idle"
    /\ IF cell.data = "set"
       THEN /\ ReturnsStore(t, IF cell.vtable = "set" THEN "store" ELSE "torn")
            /\ first' = (first \/ cell.vtable = "set")
       ELSE GotoStep(t, "lock") /\ UNCHANGED <<gotStore, first>>
    /\ UNCHANGED <<manager, cell, mux>>

LockMux(t) ==
    /\ thread[t] = "lock" /\ mux = NoThread
    /\ mux' = t
    /\ GotoStep(t, "find")
    /\ UNCHANGED <<manager, cell, gotStore, first>>

FindStore(t) ==
    /\ thread[t] = "find"
    /\ IF manager THEN GotoStep(t, "write") /\ UNCHANGED <<mux, gotStore>>
       ELSE ReturnsStore(t, "error") /\ mux' = NoThread
    /\ UNCHANGED <<manager, cell, first>>

\* Mutant: the cell is emptied before it is written.
WriteCleared(t, word) == cell' = [w \in DOMAIN cell |-> IF w = word THEN "set" ELSE "unset"]

\* The cell is written whether or not another thread wrote it meanwhile.  The
\* drop of what it held before leaves the words alone.
WriteWord(t, word) == cell' = [cell EXCEPT ![word] = "set"]

WriteFirst(t, word) ==
    /\ thread[t] = "write"
    /\ WriteWord(t, word)
    /\ GotoStep(t, IF word = "data" THEN "vtable" ELSE "data")
    /\ UNCHANGED <<manager, mux, gotStore, first>>

WriteSecond(t) ==
    /\ thread[t] \in {"data", "vtable"}
    /\ cell' = [cell EXCEPT ![thread[t]] = "set"]
    /\ mux' = NoThread
    /\ ReturnsStore(t, "store")
    /\ first' = TRUE
    /\ UNCHANGED manager

RefNext ==
    \/ AddStore
    \/ \E t \in Threads :
        \/ ReadCell(t) \/ LockMux(t) \/ FindStore(t) \/ WriteSecond(t)
        \/ \E word \in DOMAIN cell : WriteFirst(t, word)

RefSpec == RefInit /\ [][RefNext]_refVars

-----------------------------------------------------------------------------
\* "It would only happen on the very first call of the function (after first call
\* we are safe)" (ref_store.rs:64): once a call returned the store, every later
\* call returns it whole, although the cell is written again by threads that
\* looked before.
SafeAfterFirst ==
    [][\A t \in Threads : first /\ gotStore'[t] # gotStore[t] => gotStore'[t] = "store"]_refVars

\* The same when no store was returned before: a read racing the very first write
\* sees nothing or the whole store.  "It should only happen on platforms that are
\* < 64 bit address space" (ref_store.rs:65), but the cell is two words wide.
NeverTorn == \A t \in Threads : gotStore[t] # "torn"
=============================================================================
