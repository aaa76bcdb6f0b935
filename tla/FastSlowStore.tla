---------------------------- MODULE FastSlowStore ----------------------------
(* The fast/slow store (nativelink-store/src/fast_slow_store.rs) over a       *)
(* memory store and a slow store.  Uploads are multiplexed to both stores,    *)
(* reads that miss the fast store copy the stream into it on the way.  The    *)
(* slow store is external: it keeps whole objects and may lose or refuse them.*)
EXTENDS MemoryStore

CONSTANTS Clients,     \* concurrent requests on the store
          Layouts      \* which optimisations the two configured stores report

VARIABLES slow,        \* keys the slow store holds
          layout,      \* a member of Layouts
          call,        \* what each request is doing
          fssReported, \* ghost: keys of which some upload returned an error
          mirrored     \* ghost: keys the slow store has accepted

fastSlowVars == <<memVars, slow, layout, call, fssReported, mirrored>>

\* optimized_for(): NoopUpdates/NoopDownloads or FileUpdates of either store.
Layout(fast, slow_) == [fast |-> fast, slow |-> slow_]

Done == [pc |-> "done"]

FastSlowInit ==
    /\ MemoryInit
    /\ slow = {} /\ fssReported = {} /\ mirrored = {}
    /\ layout \in Layouts
    /\ call = [c \in Clients |-> Done]

InCall(c, pc) == call[c].pc = pc

\* got counts the chunks the requester has received; fast and slow are what the
\* two inner updates have come to.
Calls(c, pc, k) ==
    call' = [call EXCEPT ![c] = [pc |-> pc, key |-> k, got |-> 0, eof |-> FALSE,
                                 fast |-> "open", slow |-> "open"]]

Moves(c, pc) == call' = [call EXCEPT ![c].pc = pc]

Returns(c) == call' = [call EXCEPT ![c] = Done]

\* Content-addressed keys: every upload under one has the same bytes.
CasKeys == {k \in Keys : Cardinality(SizesOf[k]) = 1}

SizeOf(k) == CHOOSE n \in SizesOf[k] : TRUE

KeepsMem == UNCHANGED memVars

FastPut(k, len) ==
    /\ mem' = InsertWithTime(policy, now, mem, Item(k, k, len, now))
    /\ lastUse' = [lastUse EXCEPT ![k] = now]
    /\ served' = NotServed
    /\ UNCHANGED <<policy, now>>

-----------------------------------------------------------------------------
(* update(): the reader's buffers go to both stores; when the reader or       *)
(* either store fails, both channels are dropped without an EOF and neither   *)
(* store keeps anything.                                                      *)

UpdatePath ==
    CASE layout.slow = "noop" -> "fast_only"
      [] layout.fast = "noop" /\ layout.slow # "noop" -> "slow_only"
      [] OTHER -> "multiplex"

Upload(c, k) ==
    /\ InCall(c, "done")
    /\ Calls(c, UpdatePath, k)
    /\ UNCHANGED <<slow, layout, fssReported, mirrored>> /\ KeepsMem

Reports(k) == fssReported' = fssReported \cup {k}

StreamBreaks(c) ==
    /\ call[c].pc \in {"multiplex", "fast_only", "slow_only", "file_slow", "file_fast"}
    /\ Returns(c) /\ Reports(call[c].key)
    /\ UNCHANGED <<slow, layout, mirrored>> /\ KeepsMem

FastOnly(c) ==
    /\ InCall(c, "fast_only")
    /\ FastPut(call[c].key, SizeOf(call[c].key))
    /\ Returns(c)
    /\ UNCHANGED <<slow, layout, fssReported, mirrored>>

SlowOnly(c) ==
    /\ InCall(c, "slow_only")
    /\ slow' = slow \cup {call[c].key} /\ mirrored' = mirrored \cup {call[c].key}
    /\ Returns(c)
    /\ UNCHANGED <<layout, fssReported>> /\ KeepsMem

\* Both EOFs are out: the two stores finish in either order.
BothEof(c) ==
    /\ InCall(c, "multiplex")
    /\ Moves(c, "joining")
    /\ UNCHANGED <<slow, layout, fssReported, mirrored>> /\ KeepsMem

FastFinishes(c) ==
    /\ InCall(c, "joining") /\ call[c].fast = "open"
    /\ \/ /\ FastPut(call[c].key, SizeOf(call[c].key))
          /\ call' = [call EXCEPT ![c].fast = "ok"]
       \/ KeepsMem /\ call' = [call EXCEPT ![c].fast = "err"]
    /\ UNCHANGED <<slow, layout, fssReported, mirrored>>

SlowFinishes(c) ==
    /\ InCall(c, "joining") /\ call[c].slow = "open"
    /\ \/ /\ slow' = slow \cup {call[c].key} /\ mirrored' = mirrored \cup {call[c].key}
          /\ call' = [call EXCEPT ![c].slow = "ok"]
       \/ call' = [call EXCEPT ![c].slow = "err"] /\ UNCHANGED <<slow, mirrored>>
    /\ UNCHANGED <<layout, fssReported>> /\ KeepsMem

\* Mutant: the slow store's result is dropped.
MergeDropsSlow(c) ==
    /\ InCall(c, "joining") /\ "open" \notin {call[c].fast, call[c].slow}
    /\ IF call[c].fast = "err" THEN Reports(call[c].key) ELSE UNCHANGED fssReported
    /\ Returns(c)
    /\ UNCHANGED <<slow, layout, mirrored>> /\ KeepsMem

\* data_stream_res.merge(fast_res).merge(slow_res): any error is returned.
MergeResults(c) ==
    /\ InCall(c, "joining") /\ "open" \notin {call[c].fast, call[c].slow}
    /\ IF "err" \in {call[c].fast, call[c].slow} THEN Reports(call[c].key) ELSE UNCHANGED fssReported
    /\ Returns(c)
    /\ UNCHANGED <<slow, layout, mirrored>> /\ KeepsMem

(* update_with_whole_file(): the store that can take the file as it is goes   *)
(* last, the other one is uploaded to first.                                  *)
UploadFile(c, k) ==
    /\ InCall(c, "done")
    /\ Calls(c, IF layout.fast = "files"
                THEN IF layout.slow = "noop" THEN "file_fast" ELSE "file_slow"
                ELSE IF layout.slow = "files"
                THEN IF layout.fast = "noop" THEN "file_slow" ELSE "file_fast"
                ELSE UpdatePath, k)
    /\ UNCHANGED <<slow, layout, fssReported, mirrored>> /\ KeepsMem

FileToSlow(c) ==
    /\ InCall(c, "file_slow")
    /\ slow' = slow \cup {call[c].key} /\ mirrored' = mirrored \cup {call[c].key}
    /\ IF layout.fast = "files" THEN Moves(c, "file_fast") ELSE Returns(c)
    /\ UNCHANGED <<layout, fssReported>> /\ KeepsMem

FileToFast(c) ==
    /\ InCall(c, "file_fast")
    /\ FastPut(call[c].key, SizeOf(call[c].key))
    /\ IF layout.fast # "files" /\ layout.slow = "files" THEN Moves(c, "file_slow") ELSE Returns(c)
    /\ UNCHANGED <<slow, layout, fssReported, mirrored>>

-----------------------------------------------------------------------------
(* get_part(): the fast store when it has the key, else the slow store's      *)
(* stream, copied to the requester and to the fast store buffer by buffer.    *)

Download(c, k) ==
    /\ InCall(c, "done")
    /\ HasWithResults(k)
    /\ Calls(c, IF MemFound(k) THEN "fast_get" ELSE "slow_has", k)
    /\ UNCHANGED <<slow, layout, fssReported, mirrored>>

\* populate_fast_store(): the same, except that a hit is enough.
PopulateFastStore(c, k) ==
    /\ InCall(c, "done")
    /\ HasWithResults(k)
    /\ IF MemFound(k) THEN UNCHANGED call ELSE Calls(c, "populate", k)
    /\ UNCHANGED <<slow, layout, fssReported, mirrored>>

\* The get() inside populate_fast_store asks the fast store again.
PopulateGet(c) ==
    /\ InCall(c, "populate")
    /\ HasWithResults(call[c].key)
    /\ Moves(c, IF MemFound(call[c].key) THEN "fast_get" ELSE "slow_has")
    /\ UNCHANGED <<slow, layout, fssReported, mirrored>>

\* The item may have been evicted since has(): then the read fails, although
\* the slow store may hold the object.
FastGet(c) ==
    /\ InCall(c, "fast_get")
    /\ GetPart(call[c].key)
    /\ IF MemHit(call[c].key)
       THEN call' = [call EXCEPT ![c].pc = "got", ![c].got = SizeOf(call[c].key), ![c].eof = TRUE]
       ELSE Returns(c)
    /\ UNCHANGED <<slow, layout, fssReported, mirrored>>

SlowHas(c) ==
    /\ InCall(c, "slow_has")
    /\ IF call[c].key \in slow THEN Moves(c, "stream") ELSE Returns(c)
    /\ UNCHANGED <<slow, layout, fssReported, mirrored>> /\ KeepsMem

\* One buffer of one byte: join!(fast_tx.send(..), writer.send(..)).
StreamBuffer(c) ==
    /\ InCall(c, "stream") /\ call[c].got < SizeOf(call[c].key)
    /\ call' = [call EXCEPT ![c].got = @ + 1]
    /\ UNCHANGED <<slow, layout, fssReported, mirrored>> /\ KeepsMem

\* Mutant: the fast store is told that the broken stream is complete.
StreamFailsWithEof(c) ==
    /\ InCall(c, "stream")
    /\ FastPut(call[c].key, call[c].got)
    /\ Returns(c)
    /\ UNCHANGED <<slow, layout, fssReported, mirrored>>

\* Mutant: the requester is.
StreamFailsQuietly(c) ==
    /\ InCall(c, "stream")
    /\ call' = [call EXCEPT ![c].pc = "got", ![c].eof = TRUE]
    /\ UNCHANGED <<slow, layout, fssReported, mirrored>> /\ KeepsMem

\* The slow store's stream breaks, the fast store refuses a buffer or the
\* requester has gone: fast_tx is dropped without EOF.
StreamFails(c) ==
    /\ InCall(c, "stream")
    /\ Returns(c)
    /\ UNCHANGED <<slow, layout, fssReported, mirrored>> /\ KeepsMem

\* EOF from the slow store goes to the fast store first; the requester's EOF is
\* sent last, and only after the fast store's update has come back.
StreamEof(c) ==
    /\ InCall(c, "stream") /\ call[c].got = SizeOf(call[c].key)
    /\ \/ /\ FastPut(call[c].key, call[c].got)
          /\ call' = [call EXCEPT ![c].pc = "got", ![c].eof = TRUE]
       \/ KeepsMem /\ call' = [call EXCEPT ![c].pc = "got"]
    /\ UNCHANGED <<slow, layout, fssReported, mirrored>>

Delivered(c) ==
    /\ InCall(c, "got")
    /\ Returns(c)
    /\ UNCHANGED <<slow, layout, fssReported, mirrored>> /\ KeepsMem

\* has_with_results(): asks the slow store only, unless that one is a noop.
FastSlowHas(k) ==
    /\ IF layout.slow = "noop" THEN HasWithResults(k) ELSE KeepsMem
    /\ UNCHANGED <<slow, layout, call, fssReported, mirrored>>

FoundBySlowHas(k) == IF layout.slow = "noop" THEN MemFound(k) ELSE k \in slow

\* The slow store loses an object of its own accord.
SlowEvicts(k) ==
    /\ k \in slow /\ slow' = slow \ {k}
    /\ UNCHANGED <<layout, call, fssReported, mirrored>> /\ KeepsMem

FastSlowNext ==
    \/ \E c \in Clients, k \in CasKeys :
          Upload(c, k) \/ UploadFile(c, k) \/ Download(c, k) \/ PopulateFastStore(c, k)
    \/ \E c \in Clients :
          \/ StreamBreaks(c) \/ FastOnly(c) \/ SlowOnly(c)
          \/ BothEof(c) \/ FastFinishes(c) \/ SlowFinishes(c) \/ MergeResults(c)
          \/ FileToSlow(c) \/ FileToFast(c)
          \/ PopulateGet(c) \/ FastGet(c) \/ SlowHas(c) \/ StreamBuffer(c)
          \/ StreamFails(c) \/ StreamEof(c) \/ Delivered(c)
    \/ \E k \in CasKeys : FastSlowHas(k) \/ SlowEvicts(k)

FastSlowSpec == FastSlowInit /\ [][FastSlowNext]_fastSlowVars

-----------------------------------------------------------------------------
(* Type invariant of the fast/slow store.                                     *)
FastSlowTypeOK ==
    /\ slow \subseteq Keys /\ fssReported \subseteq Keys /\ mirrored \subseteq Keys
    /\ layout \in Layouts
    /\ \A c \in Clients : ~InCall(c, "done") => call[c].key \in Keys /\ call[c].got \in Nat

(* The fast store never holds part of an object: a copy that breaks off in    *)
(* the middle leaves nothing behind (fast_slow_store.rs:342).                 *)
FastHoldsWhole ==
    \A i \in DOMAIN mem.lru :
        mem.lru[i].key \in CasKeys => mem.lru[i].len = SizeOf(mem.lru[i].key)

(* A requester that sees the end of the stream has the whole object, whether  *)
(* it came from the fast store or through the copy.                           *)
EofMeansWhole ==
    \A c \in Clients : InCall(c, "got") /\ call[c].eof => call[c].got = SizeOf(call[c].key)

(* An object that only the fast store ever got, so that has() denies it, is   *)
(* one whose upload was reported as failed or is still running ("it assumes   *)
(* that if an object exists `fast` store it will exist in `slow` store").     *)
MirroredOrReported ==
    layout.slow # "noop" =>
        \A k \in KeysOf(mem) :
            \/ k \in mirrored \cup fssReported
            \/ \E c \in Clients : ~InCall(c, "done") /\ call[c].key = k
=============================================================================
