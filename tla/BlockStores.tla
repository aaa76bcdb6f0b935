------------------------------ MODULE BlockStores -----------------------------
(***************************************************************************)
(* The two stores that keep a blob in pieces of their own making: the      *)
(* dedup store, as frames found by content, and the compression store, as  *)
(* blocks of a fixed size.                                                 *)
(***************************************************************************)
EXTENDS Naturals, Sequences, SequencesExt, FiniteSets

(***************************************************************************)
(* nativelink-store/src/dedup_store.rs and the content-defined chunking of *)
(* nativelink-util/src/fastcdc.rs.  An upload arrives in pieces of any     *)
(* size, is cut into frames, the frames are stored concurrently under      *)
(* their own digests unless the content store has them already, and at the *)
(* end an index of the frames is stored under the key.  Reads find the     *)
(* frames that cover a range through the index.  The content store may     *)
(* evict a frame at any time.                                              *)
(***************************************************************************)

CONSTANTS
    Uploads,              \* the data that may be uploaded
    PieceSizes,           \* sizes of the pieces the data arrives in
    MinSize, AvgSize, MaxSize,
    Table,                \* byte |-> TABLE[byte]
    Window,               \* max_concurrent_fetch_per_get
    ReadRanges,           \* <<offset, length>> of reads; NoLength for no length
    NoLength,
    MaxEvictions          \* bound on evictions

ASSUME FastCDCAssumption == 0 < MinSize /\ MinSize < AvgSize /\ AvgSize < MaxSize

VARIABLES
    data,      \* what is uploaded
    arrived,   \* how many of its bytes arrived
    taken,     \* how many of them are in frames
    cdc,       \* State of the decoder: [hash, position]
    work,      \* frames in order: [frame, st]
    content,   \* frames the content store has; a frame is its own digest
    index,     \* {} or {entries}: what the index store has
    get,       \* get_part(): [pc, range, rest, skip, left, out]
    evictions

dedupVars == <<data, arrived, taken, cdc, work, content, index, get, evictions>>

FreshState == [hash |-> 0, position |-> 0]
NoGet == [pc |-> "idle", range |-> <<0, NoLength>>, rest |-> <<>>, skip |-> 0, left |-> 0, out |-> <<>>]

DedupInit ==
    /\ data \in Uploads
    /\ arrived = 0 /\ taken = 0 /\ cdc = FreshState /\ work = <<>>
    /\ content = {} /\ index = {} /\ get = NoGet /\ evictions = 0

-----------------------------------------------------------------------------
(* FastCDC                                                                  *)

\* FastCDC::new()
NormSize == LET offset == MinSize + (MinSize + 1) \div 2
            IN  AvgSize - (IF offset > AvgSize THEN AvgSize ELSE offset)

\* The rounded base-2 logarithm of the average size.
Bits == CHOOSE b \in 1..32 : 2 ^ (2 * b - 1) <= AvgSize ^ 2 /\ AvgSize ^ 2 < 2 ^ (2 * b + 1)

\* hash & mask = 0, with the harder mask below the norm size.
Masked(hash, i) == hash % 2 ^ (IF i < NormSize THEN Bits + 1 ELSE Bits - 1) = 0

\* Mutant: a scan that forgets where the previous one stopped and hashes bytes twice.
StartPointAgain(st) == MinSize
StartPoint(st) == IF st.position > MinSize THEN st.position ELSE MinSize

\* Mutant: the largest size is exceeded by one.
BoundaryLate(hash, i) == Masked(hash, i) \/ i > MaxSize

Boundary(hash, i) == Masked(hash, i) \/ i >= MaxSize

\* decode(): the size of the frame at the front of buf, 0 for none, and the
\* state the decoder is left in.
Decode(buf, st) ==
    LET first == StartPoint(st)
        hash[i \in (first - 1)..(Len(buf) - 1)] ==
            IF i < first THEN st.hash ELSE hash[i - 1] \div 2 + Table[buf[i + 1]]
        splits == {i \in first..(Len(buf) - 1) : Boundary(hash[i], i)}
    IN  IF Len(buf) <= MinSize THEN [size |-> 0, state |-> st]
        ELSE IF splits # {} THEN [size |-> CHOOSE i \in splits : \A j \in splits : i <= j, state |-> FreshState]
        ELSE [size |-> 0, state |-> [hash |-> IF first < Len(buf) THEN hash[Len(buf) - 1] ELSE st.hash,
                                     position |-> Len(buf)]]

Buffer == SubSeq(data, taken + 1, arrived)

Running == Cardinality({i \in DOMAIN work : work[i].st # "done"})

Framed(size) ==
    /\ work' = Append(work, [frame |-> SubSeq(data, taken + 1, taken + size), st |-> "has"])
    /\ taken' = taken + size

\* FramedRead: the buffer is decoded until there is no frame, then grows.  Frames
\* are pulled while fewer than Window are being stored.
DecodeFrame ==
    /\ index = {} /\ Running < Window
    /\ LET d == Decode(Buffer, cdc) IN
       /\ d.size > 0
       /\ Framed(d.size)
       /\ cdc' = d.state
    /\ UNCHANGED <<data, arrived, content, index, get, evictions>>

PieceArrives(n) ==
    /\ Running < Window /\ arrived + n <= Len(data)
    /\ LET d == Decode(Buffer, cdc) IN
       /\ d.size = 0
       /\ cdc' = d.state
    /\ arrived' = arrived + n
    /\ UNCHANGED <<data, taken, work, content, index, get, evictions>>

\* decode_eof(): the rest is the last frame.
DecodeEof ==
    /\ arrived = Len(data) /\ taken < arrived /\ Running < Window
    /\ Decode(Buffer, cdc).size = 0
    /\ Framed(arrived - taken)
    /\ cdc' = FreshState
    /\ UNCHANGED <<data, arrived, content, index, get, evictions>>

-----------------------------------------------------------------------------
(* DedupStore                                                               *)

\* A frame the content store has is not uploaded.
HasFrame(i) ==
    /\ work[i].st = "has"
    /\ work' = [work EXCEPT ![i].st = IF work[i].frame \in content THEN "done" ELSE "update"]
    /\ UNCHANGED <<data, arrived, taken, cdc, content, index, get, evictions>>

UploadFrame(i) ==
    /\ work[i].st = "update"
    /\ content' = content \cup {work[i].frame}
    /\ work' = [work EXCEPT ![i].st = "done"]
    /\ UNCHANGED <<data, arrived, taken, cdc, index, get, evictions>>

IndexEntries(w) == [i \in DOMAIN w |-> w[i].frame]

WriteIndex ==
    /\ index = {} /\ taken = Len(data) /\ arrived = taken /\ Running = 0
    /\ index' = {IndexEntries(work)}
    /\ UNCHANGED <<data, arrived, taken, cdc, work, content, get, evictions>>

EndsAt(entries) == [i \in 0..Len(entries) |-> FoldLeft(LAMBDA n, e : n + Len(e), 0, SubSeq(entries, 1, i))]

\* Mutant: missing entries are left out of the sum.
HasKeyPartly(entries) ==
    {FoldLeft(LAMBDA n, e : IF e \in content THEN n + Len(e) ELSE n, 0, entries)}

\* The sum of what is there.
\* has(): the sum of the sizes, or nothing when a frame is missing.
HasKey(entries) == IF \E i \in DOMAIN entries : entries[i] \notin content THEN {}
                   ELSE {EndsAt(entries)[Len(entries)]}

\* Mutant: an entry that ends at the offset is kept.
BeforeInclusive(end, offset) == end < offset

\* Entries that end before the offset, or start after the range, are left out.
Before(end, offset) == end <= offset

StartGet(range) ==
    /\ get.pc = "idle" /\ index # {}
    /\ LET entries == CHOOSE e \in index : TRUE
           offset == range[1]
           ends == EndsAt(entries)
           skipped == {i \in DOMAIN entries : Before(ends[i], offset)}
           wanted == {i \in DOMAIN entries \ skipped :
                          range[2] = NoLength \/ ends[i - 1] < offset + range[2]}
       IN  get' = IF range[2] = 0 THEN [NoGet EXCEPT !.pc = "eof", !.range = range]
                  ELSE [pc |-> "read", range |-> range,
                        rest |-> SubSeq(entries, Cardinality(skipped) + 1, Cardinality(skipped \cup wanted)),
                        skip |-> offset - ends[Cardinality(skipped)],
                        left |-> IF range[2] = NoLength THEN Len(data) + 1 ELSE range[2],
                        out |-> <<>>]
    /\ UNCHANGED <<data, arrived, taken, cdc, work, content, index, evictions>>

MinOf(a, b) == IF a < b THEN a ELSE b

\* The next frame, without what precedes the offset or follows the range.  A
\* frame that was evicted fails the read, and so does sending an empty chunk.
SendFrame ==
    /\ get.pc = "read" /\ get.rest # <<>>
    /\ LET frame == Head(get.rest)
           end == MinOf(Len(frame), get.left + get.skip)
       IN  get' = IF frame \notin content \/ get.skip >= end THEN [get EXCEPT !.pc = "err"]
                  ELSE [get EXCEPT !.rest = Tail(@), !.out = @ \o SubSeq(frame, get.skip + 1, end),
                                   !.left = @ - (end - get.skip), !.skip = 0]
    /\ UNCHANGED <<data, arrived, taken, cdc, work, content, index, evictions>>

EndGet ==
    /\ get.pc = "read" /\ get.rest = <<>>
    /\ get' = [get EXCEPT !.pc = "eof"]
    /\ UNCHANGED <<data, arrived, taken, cdc, work, content, index, evictions>>

\* External: the content store evicts a frame.
EvictFrame(f) ==
    /\ evictions < MaxEvictions
    /\ content' = content \ {f}
    /\ evictions' = evictions + 1
    /\ UNCHANGED <<data, arrived, taken, cdc, work, index, get>>

DedupNext ==
    \/ DecodeFrame \/ DecodeEof \/ \E n \in PieceSizes : PieceArrives(n)
    \/ \E i \in DOMAIN work : HasFrame(i) \/ UploadFrame(i)
    \/ WriteIndex
    \/ \E range \in ReadRanges : StartGet(range)
    \/ SendFrame \/ EndGet
    \/ \E f \in content : EvictFrame(f)

DedupSpec == DedupInit /\ [][DedupNext]_dedupVars

-----------------------------------------------------------------------------
\* Where the frames of the data end when all of it is there at once.
WholeFrames(d) ==
    LET from[p \in 0..Len(d)] ==
            IF p = Len(d) THEN <<>>
            ELSE LET n == Decode(SubSeq(d, p + 1, Len(d)), FreshState).size
                     size == IF n = 0 THEN Len(d) - p ELSE n
                 IN  <<SubSeq(d, p + 1, p + size)>> \o from[p + size]
    IN  from[0]

\* The frames do not depend on how the data arrived, or nothing would be found
\* twice: the decoder resumes its scan and its hash exactly (fastcdc.rs:97).
FramesAreContentDefined == IsPrefix(IndexEntries(work), WholeFrames(data))

\* All frames but the last have between MinSize and MaxSize bytes
\* (fastcdc.rs:118), the last at most MaxSize.
FrameSizes ==
    \A i \in DOMAIN work :
        /\ Len(work[i].frame) <= MaxSize
        /\ (i < Len(work) \/ taken < arrived) => Len(work[i].frame) >= MinSize

WantedRange(range) ==
    LET last == IF range[2] = NoLength THEN Len(data) ELSE MinOf(Len(data), range[1] + range[2])
    IN  SubSeq(data, range[1] + 1, last)

\* A read that ends with EOF gave exactly the range of the data, whatever was
\* evicted between the lookup of the index and of its frames; one that fails gave
\* a prefix of it, and fails only for an evicted frame.  The skip stays within the first frame: "Formula above must be
\* wrong" (dedup_store.rs:328).
ReadIsSlice ==
    /\ IsPrefix(get.out, WantedRange(get.range))
    /\ get.pc = "eof" => get.out = WantedRange(get.range)
    /\ get.pc = "err" => evictions > 0
    /\ get.pc = "read" /\ get.rest # <<>> => get.skip <= Len(Head(get.rest))

\* has() of an indexed key is the size of the data, or nothing once a frame is
\* gone; never the size of a part.
HasIsWhole ==
    \A entries \in index : HasKey(entries) \subseteq {Len(data)}

-----------------------------------------------------------------------------
(***************************************************************************)
(* nativelink-store/src/compression_store.rs: an upload is stored as a     *)
(* header, compressed blocks of a fixed uncompressed size and a footer.  A *)
(* read takes all of it from the inner store, sends the part asked for and *)
(* ends the stream only after the footer agreed with what was read.  The   *)
(* inner store may hand out less than was stored.  A compressed block is   *)
(* the block: what LZ4 does to bytes is not modelled.                      *)
(***************************************************************************)

CONSTANTS
    Inputs,        \* lengths of uploads; byte number i is i
    StatedSizes,   \* upload_size of an upload, exact or maximal
    BlockSizes,    \* block_size of the writing store
    MaxDecode,     \* max_decode_block_size of the reading store
    Parts,         \* <<offset, length>> of reads; <<offset>> without a length
    MaxU64         \* u64::MAX

VARIABLES
    input,     \* bytes to upload
    stated,
    blockSize,
    up,        \* write_fut: [pc, pos, count]
    storedFrames,    \* frames the inner store received
    partRead,      \* read_fut: [pc, part, next, size, left, chunks, out]
    cut        \* how many frames the inner store hands out before it ends

compVars == <<input, stated, blockSize, up, storedFrames, partRead, cut>>

NoPart == [pc |-> "idle", part |-> <<0>>, next |-> 1, size |-> 0, left |-> 0, chunks |-> 0, out |-> <<>>]

CompInit ==
    /\ \E n \in Inputs : input = [i \in 1..n |-> i]
    /\ stated \in StatedSizes /\ blockSize \in BlockSizes
    /\ up = [pc |-> "header", pos |-> 0, count |-> 0]
    /\ storedFrames = <<>> /\ partRead = NoPart /\ cut = 0

-----------------------------------------------------------------------------
(* update()                                                                 *)

Header == [type |-> "header", block_size |-> blockSize]
Block(bytes) == [type |-> "block", data |-> bytes]
Footer(count, size) == [type |-> "footer", index_count |-> count, size |-> size]

\* Mutant: no block for the remainder.
MaxIndexCountShort == stated \div blockSize

\* UploadState::new(): how many blocks are taken at most.
MaxIndexCount == stated \div blockSize + 1

WriteHeader ==
    /\ up.pc = "header"
    /\ storedFrames' = <<Header>>
    /\ up' = [up EXCEPT !.pc = "blocks"]
    /\ UNCHANGED <<input, stated, blockSize, partRead, cut>>

\* consume(block_size): fewer bytes only at the end.
NextBlock == SubSeq(input, up.pos + 1, MinOf(up.pos + blockSize, Len(input)))

WriteBlock ==
    /\ up.pc = "blocks" /\ up.count < MaxIndexCount /\ NextBlock # <<>>
    /\ IF up.pos + Len(NextBlock) > stated
       THEN up' = [up EXCEPT !.pc = "err"] /\ UNCHANGED storedFrames
       ELSE /\ up' = [up EXCEPT !.pos = @ + Len(NextBlock), !.count = @ + 1]
            /\ storedFrames' = Append(storedFrames, Block(NextBlock))
    /\ UNCHANGED <<input, stated, blockSize, partRead, cut>>

Saturating(a, b) == IF a > b THEN a - b ELSE 0

\* Mutant: an index for every block.
IndexesAll(n) == n

\* The first block needs no index.
Indexes(n) == Saturating(n, 1)

WriteFooter ==
    /\ up.pc = "blocks" /\ (up.count = MaxIndexCount \/ NextBlock = <<>>)
    /\ storedFrames' = Append(storedFrames, Footer(Indexes(up.count), up.pos))
    /\ up' = [up EXCEPT !.pc = "ok"]
    /\ UNCHANGED <<input, stated, blockSize, partRead, cut>>

-----------------------------------------------------------------------------
(* get_part()                                                               *)

Length(part) == IF Len(part) = 1 THEN MaxU64 ELSE part[2]

\* External: the inner store sends the first n frames, then ends.
StartPart(part, n) ==
    /\ up.pc = "ok" /\ partRead.pc = "idle"
    /\ cut' = n
    /\ partRead' = IF input = <<>> THEN [NoPart EXCEPT !.pc = "eof", !.part = part]
               ELSE [NoPart EXCEPT !.pc = "header", !.part = part, !.left = Length(part)]
    /\ UNCHANGED <<input, stated, blockSize, up, storedFrames>>

Comes == partRead.next <= cut
Frame == storedFrames[partRead.next]

ReadHeader ==
    /\ partRead.pc = "header"
    /\ partRead' = IF ~Comes \/ Frame.block_size > MaxDecode THEN [partRead EXCEPT !.pc = "err"]
               ELSE [partRead EXCEPT !.pc = "frames", !.next = @ + 1]
    /\ UNCHANGED <<input, stated, blockSize, up, storedFrames, cut>>

\* usize addition of the build without overflow checks.
Wrapping(n) == n % (MaxU64 + 1)

\* Mutant: the whole rest of the block is sent.
EndPosWhole(start, n) == n

\* The slice of a block that is sent: from the offset, as long as bytes are asked for.
EndPos(start, n) == MinOf(Wrapping(start + partRead.left), n)

ReadBlock ==
    /\ partRead.pc = "frames" /\ Comes /\ Frame.type = "block"
    /\ LET n == Len(Frame.data)
           start == Saturating(partRead.part[1], partRead.size)
           end == EndPos(start, n)
           seen == [partRead EXCEPT !.next = @ + 1, !.size = @ + n, !.chunks = @ + 1]
       IN  partRead' = IF partRead.size + n < partRead.part[1] \/ partRead.left = 0 THEN seen
                   ELSE IF end < start THEN [partRead EXCEPT !.pc = "panic"]
                   ELSE [seen EXCEPT !.left = @ - (end - start),
                                     !.out = @ \o SubSeq(Frame.data, start + 1, end)]
    /\ UNCHANGED <<input, stated, blockSize, up, storedFrames, cut>>

\* The counts of the footer have to be those of the frames read.
FooterAgrees == Frame.index_count = Saturating(partRead.chunks, 1) /\ Frame.size = partRead.size

ReadFooter ==
    /\ partRead.pc = "frames" /\ Comes /\ Frame.type = "footer"
    /\ partRead' = [partRead EXCEPT !.pc = IF FooterAgrees THEN "eof" ELSE "err"]
    /\ UNCHANGED <<input, stated, blockSize, up, storedFrames, cut>>

\* The stream ends, or fails, before the footer.
ReadShort ==
    /\ partRead.pc = "frames" /\ ~Comes
    /\ partRead' = [partRead EXCEPT !.pc = "err"]
    /\ UNCHANGED <<input, stated, blockSize, up, storedFrames, cut>>

CompNext ==
    \/ WriteHeader \/ WriteBlock \/ WriteFooter
    \/ \E part \in Parts, n \in 0..Len(storedFrames) : StartPart(part, n)
    \/ ReadHeader \/ ReadBlock \/ ReadFooter \/ ReadShort

CompSpec == CompInit /\ [][CompNext]_compVars

-----------------------------------------------------------------------------
AskedPart(part) ==
    SubSeq(input, part[1] + 1, IF Len(part) = 1 THEN Len(input) ELSE MinOf(part[1] + part[2], Len(input)))

\* An upload that is accepted is stored whole: the number of blocks the size
\* allows for is never what ends it (compression_store.rs:168).
AcceptedIsWhole == up.pc = "ok" => up.pos = Len(input) /\ Len(input) <= stated

\* A read that ends with EOF sent exactly the part asked for, and read all the
\* inner store had; while it runs it sent a beginning of the part.
PartIsExact ==
    /\ IsPrefix(partRead.out, AskedPart(partRead.part))
    /\ partRead.pc = "eof" => partRead.out = AskedPart(partRead.part) /\ (input = <<>> \/ cut = Len(storedFrames))

\* A stored upload handed out whole is readable by a store that allows its block
\* size, empty, partial and last blocks included.
WholeIsReadable ==
    partRead.pc = "err" => cut < Len(storedFrames) \/ blockSize > MaxDecode

\* "trying to read part of the data will result in the entire contents being read
\* from the inner store but will only send the contents requested"
\* (compression_store.rs:210): a part is sent, whether or not a length is given.
PartIsSent == partRead.pc # "panic"
=============================================================================
