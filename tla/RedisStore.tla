------------------------------ MODULE RedisStore ------------------------------
(***************************************************************************)
(* The blobs of redis_store.rs: an update writes its chunks, in any order  *)
(* and a few at a time, at their offsets of a temporary key, checks the    *)
(* length and renames the key; a read fetches a range chunk by chunk, each *)
(* with its own command, while other updates go on.  A Redis value is a    *)
(* sequence of bytes; a byte that was never written is 0.                  *)
(***************************************************************************)
EXTENDS Naturals, Sequences, FiniteSets, FiniteSetsExt, SequencesExt

CONSTANTS
    Writers, Readers,
    Blob,            \* the bytes of the key's content, none of them 0
    RedisChunks,     \* the sizes of the chunks a writer may be handed
    InFlight,        \* max_chunk_uploads_per_update
    ReadChunk,       \* read_chunk_size
    Asked            \* the <<offset, length>> a reader may ask for; length {} or {n}

VARIABLES
    redis,           \* the final key: {} or {value}
    temp,            \* a writer's temporary key: {} or {value}
    wr,              \* the updates
    rangeRead,       \* the reads
    present          \* ghost: the key was there when the read started, and since

redisVars == <<redis, temp, wr, rangeRead, present>>

NewWrite == [pc |-> "stream", taken |-> 0, flying |-> {}, total |-> 0]
NewRangeRead == [pc |-> "idle", ask |-> <<0, {}>>, start |-> 0, got |-> <<>>]

RedisInit ==
    /\ redis = {}
    /\ temp = [w \in Writers |-> {}]
    /\ wr = [w \in Writers |-> NewWrite]
    /\ rangeRead = [r \in Readers |-> NewRangeRead]
    /\ present = [r \in Readers |-> FALSE]

(***************************************************************************)
(* Redis                                                                   *)
(***************************************************************************)
ValueOf(key) == IF key = {} THEN <<>> ELSE CHOOSE v \in key : TRUE
StrLen(key) == Len(ValueOf(key))

\* has_with_results(): STRLEN is 0 without a key too, so EXISTS decides.
HasRedis(key) == IF key = {} THEN {} ELSE {StrLen(key)}

\* SETRANGE pads with zeros up to the offset.
SetRange(key, offset, bytes) ==
    LET old == ValueOf(key)
        len == Max({Len(old), offset + Len(bytes)}) IN
    {[i \in 1..len |->
        IF i \in offset + 1 .. offset + Len(bytes) THEN bytes[i - offset]
        ELSE IF i <= Len(old) THEN old[i] ELSE 0]}

\* GETRANGE, inclusive at both ends.
GetRange(key, first, last) == SubSeq(ValueOf(key), first + 1, Min({last + 1, StrLen(key)}))

(***************************************************************************)
(* update()                                                                *)
(***************************************************************************)
\* The stream hands the next chunk to one of the concurrent uploads.
TakeChunk(w) ==
    \E n \in RedisChunks :
        /\ wr[w].pc = "stream" /\ Cardinality(wr[w].flying) < InFlight
        /\ wr[w].taken + n <= Len(Blob)
        /\ wr' = [wr EXCEPT ![w].flying = @ \cup {<<wr[w].taken, n>>},
                            ![w].taken = @ + n]
        /\ UNCHANGED <<redis, temp, rangeRead, present>>

\* Mutant: chunks are appended as they arrive.
LandedAppended(w, chunk) ==
    {ValueOf(temp[w]) \o SubSeq(Blob, chunk[1] + 1, chunk[1] + chunk[2])}

Landed(w, chunk) ==
    SetRange(temp[w], chunk[1], SubSeq(Blob, chunk[1] + 1, chunk[1] + chunk[2]))

ChunkLands(w) ==
    \E chunk \in wr[w].flying :
        /\ wr[w].pc = "stream"
        /\ temp' = [temp EXCEPT ![w] = Landed(w, chunk)]
        /\ wr' = [wr EXCEPT ![w].flying = @ \ {chunk},
                            ![w].total = Max({@, chunk[1] + chunk[2]})]
        /\ UNCHANGED <<redis, rangeRead, present>>

\* Mutant: the stream is taken to be over while chunks are being written.
StreamOverEarly(w) == wr[w].taken = Len(Blob)

StreamOver(w) == wr[w].taken = Len(Blob) /\ wr[w].flying = {}

\* "a safety check to ensure that ... we reject the data".
CheckLength(w) ==
    /\ wr[w].pc = "stream" /\ StreamOver(w)
    /\ wr' = [wr EXCEPT ![w].pc =
                IF StrLen(temp[w]) = wr[w].total THEN "rename" ELSE "error"]
    /\ UNCHANGED <<redis, temp, rangeRead, present>>

\* RENAME fails when there is no such key: no chunk was ever written.
RenameKey(w) ==
    /\ wr[w].pc = "rename"
    /\ IF temp[w] = {}
       THEN wr' = [wr EXCEPT ![w].pc = "error"] /\ UNCHANGED <<redis, temp>>
       ELSE /\ redis' = temp[w] /\ temp' = [temp EXCEPT ![w] = {}]
            /\ wr' = [wr EXCEPT ![w].pc = "done"]
    /\ UNCHANGED <<rangeRead, present>>

\* The reader of the update fails, or a command does; the temporary key stays.
RedisUpdateFails(w) ==
    /\ wr[w].pc \in {"stream", "rename"}
    /\ wr' = [wr EXCEPT ![w] = [NewWrite EXCEPT !.pc = "error"]]
    /\ UNCHANGED <<redis, temp, rangeRead, present>>

(***************************************************************************)
(* get_part()                                                              *)
(***************************************************************************)
\* data_end, with its saturating subtraction.
DataEnd(ask) ==
    LET end == ask[1] + (IF ask[2] = {} THEN 1000 ELSE CHOOSE n \in ask[2] : TRUE)
    IN  IF end = 0 THEN 0 ELSE end - 1

ChunkEnd(r) == Min({rangeRead[r].start + ReadChunk - 1, DataEnd(rangeRead[r].ask)})

StartRead(r) ==
    \E ask \in Asked :
        /\ rangeRead[r].pc = "idle"
        /\ rangeRead' = [rangeRead EXCEPT ![r] = [pc |-> "read", ask |-> ask, start |-> ask[1], got |-> <<>>]]
        /\ present' = [present EXCEPT ![r] = HasRedis(redis) # {}]
        /\ UNCHANGED <<redis, temp, wr>>

\* Mutant: the chunk's last byte is read again.
NextStartOverlaps(r) == ChunkEnd(r)
NextStart(r) == ChunkEnd(r) + 1

ReadChunkAt(r) ==
    LET chunk == GetRange(redis, rangeRead[r].start, ChunkEnd(r))
        over == Len(chunk) < ReadChunk \/ ChunkEnd(r) = DataEnd(rangeRead[r].ask) IN
    /\ rangeRead[r].pc = "read"
    /\ rangeRead' = [rangeRead EXCEPT ![r].got = @ \o chunk,
                        ![r].pc = IF over THEN "sent" ELSE "read",
                        ![r].start = IF over THEN @ ELSE NextStart(r)]
    /\ UNCHANGED <<redis, temp, wr, present>>

\* Nothing was written: the key may not exist.
ReadEnds(r) ==
    /\ rangeRead[r].pc = "sent"
    /\ rangeRead' = [rangeRead EXCEPT ![r].pc =
                IF rangeRead[r].got = <<>> /\ redis = {} THEN "not_found" ELSE "eof"]
    /\ UNCHANGED <<redis, temp, wr, present>>

\* Redis drops the key: the store sets no expiry, the server's maxmemory
\* policy may.
Evicted ==
    /\ redis # {}
    /\ redis' = {}
    /\ present' = [r \in Readers |-> FALSE]
    /\ UNCHANGED <<temp, wr, rangeRead>>

RedisNext ==
    \/ \E w \in Writers :
          TakeChunk(w) \/ ChunkLands(w) \/ CheckLength(w) \/ RenameKey(w) \/ RedisUpdateFails(w)
    \/ \E r \in Readers : StartRead(r) \/ ReadChunkAt(r) \/ ReadEnds(r)
    \/ Evicted

RedisSpec == RedisInit /\ [][RedisNext]_redisVars

(***************************************************************************)
(* Properties                                                              *)
(***************************************************************************)
\* Type correctness.
RedisTypeOK ==
    /\ \A w \in Writers : wr[w].taken <= Len(Blob) /\ Cardinality(wr[w].flying) <= InFlight
    /\ \A r \in Readers : rangeRead[r].pc \in {"idle", "read", "sent", "eof", "not_found"}
    /\ Cardinality(redis) <= 1

\* The final key never holds a blob with bytes missing, misplaced or left over,
\* whatever the order in which the chunks of concurrent updates land and
\* wherever they fail.
KeyIsWhole == redis # {} => redis = {Blob}

\* A read that ended well gave exactly the bytes "from `offset` to `offset +
\* length`", and one whose key stays is not told that it is missing, although
\* every chunk is a command of its own and updates replace the key in between.
\* A read of no bytes at offset 0 gets the first byte: the saturating subtraction
\* makes its inclusive end 0.
ReadIsRange ==
    \A r \in Readers :
        LET ask == rangeRead[r].ask
            end == IF ask[2] = {} THEN Len(Blob)
                   ELSE Min({Len(Blob), ask[1] + (CHOOSE n \in ask[2] : TRUE)}) IN
        /\ (rangeRead[r].pc = "eof" /\ present[r]) =>
             rangeRead[r].got = SubSeq(Blob, ask[1] + 1, IF ask = <<0, {0}>> THEN 1 ELSE end)
        /\ rangeRead[r].pc = "not_found" => ~present[r]
=============================================================================
