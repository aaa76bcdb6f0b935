------------------------------ MODULE BufStream ------------------------------
(* A writer that sends the bytes 1, 2, ... in chunks, and a reader that makes *)
(* the calls of its half in any order.                                        *)
EXTENDS BufChannel

CONSTANTS StreamBytes, \* how many bytes the writer has to send
          ChunkSizes,  \* the sizes of the chunks it sends
          MaxRecents,  \* the values of max_recent_data_size tried
          ResetsFreely \* whether the reader rewinds again, or with chunks put back

\* send() refuses an empty chunk.
ASSUME StreamAssumption ==
    StreamBytes \in Nat /\ ChunkSizes \subseteq Nat \ {0} /\ MaxRecents \subseteq Nat

VARIABLES ch,          \* the channel
          sent,        \* how many bytes it accepted
          eat,         \* the consume() that is running, or NotConsuming
          out,         \* ghost: bytes handed to the reader since it started over
          said,        \* ghost: what the last read told the reader
          resets       \* ghost: rewinds so far

bufVars == <<ch, sent, eat, out, said, resets>>

NotConsuming == [want |-> 0, bytes |-> <<>>, peeked |-> FALSE]

Everything == StreamBytes + 1

BufInit ==
    /\ \E max \in MaxRecents : ch = MakeBufChannelPair(max)
    /\ sent = 0 /\ eat = NotConsuming
    /\ out = <<>> /\ said = "open" /\ resets = 0

ReaderKeeps == UNCHANGED <<eat, out, said, resets>>

Send(n) ==
    /\ CanSend(ch) /\ sent + n <= StreamBytes
    /\ ch' = SendTo(ch, [i \in 1 .. n |-> sent + i])
    /\ sent' = IF ch.rx THEN sent + n ELSE sent
    /\ ReaderKeeps

WriterEnds ==
    /\ ch.tx /\ ch' \in {SendEof(ch), DropTx(ch)}
    /\ UNCHANGED sent /\ ReaderKeeps

ReaderLeaves ==
    /\ ch.rx /\ ch' = DropRx(ch)
    /\ UNCHANGED sent /\ ReaderKeeps

Told(got) == said' = IF ~got.ok THEN "err" ELSE IF got.chunk = Eof THEN "eof" ELSE "open"

\* Its callers stop reading at the end of the stream.
Reading == ch.rx /\ eat = NotConsuming /\ said # "eof" /\ Ready(ch)

ReceiveChunk ==
    /\ Reading
    /\ LET got == Recv(ch) IN ch' = got.ch /\ out' = out \o got.chunk /\ Told(got)
    /\ UNCHANGED <<sent, eat, resets>>

PeekNext ==
    /\ Reading
    /\ LET got == Peek1(ch) IN ch' = got.ch /\ said' = IF got.ok THEN said ELSE "err"
    /\ UNCHANGED <<sent, eat, out, resets>>

\* consume(size): the first chunk may answer it alone.
ConsumeFirst(size) ==
    /\ Reading
    /\ LET got == Recv(ch) IN
       IF Len(got.chunk) > size
       THEN /\ ch' = PushFront(got.ch, SubSeq(got.chunk, size + 1, Len(got.chunk)))
            /\ out' = out \o SubSeq(got.chunk, 1, size) /\ said' = "open"
            /\ UNCHANGED eat
       ELSE /\ ch' = got.ch /\ UNCHANGED out
            /\ IF got.chunk = Eof THEN Told(got) /\ UNCHANGED eat
               ELSE eat' = [want |-> size, bytes |-> got.chunk, peeked |-> FALSE] /\ UNCHANGED said
    /\ UNCHANGED <<sent, resets>>

ConsumeReturns(bytes) == out' = out \o bytes /\ eat' = NotConsuming /\ said' = "open"

ConsumeFails == said' = "err" /\ eat' = NotConsuming /\ UNCHANGED out

\* It peeks after the first chunk, so that a stream that breaks there is noticed.
ConsumePeek ==
    /\ ch.rx /\ eat.want > 0 /\ ~eat.peeked /\ Ready(ch)
    /\ LET got == Peek1(ch) IN
       /\ ch' = got.ch
       /\ IF ~got.ok THEN ConsumeFails
          ELSE IF got.chunk = Eof \/ Len(eat.bytes) = eat.want THEN ConsumeReturns(eat.bytes)
          ELSE eat' = [eat EXCEPT !.peeked = TRUE] /\ UNCHANGED <<out, said>>
    /\ UNCHANGED <<sent, resets>>

\* Then it puts chunks together until it has enough or the stream ends.
ConsumeMore ==
    /\ ch.rx /\ eat.peeked /\ Ready(ch)
    /\ LET got == Recv(ch)
           all == eat.bytes \o got.chunk
       IN  IF Len(all) > eat.want
           THEN /\ ch' = PushFront(got.ch, SubSeq(all, eat.want + 1, Len(all)))
                /\ ConsumeReturns(SubSeq(all, 1, eat.want))
           ELSE /\ ch' = got.ch
                /\ IF ~got.ok THEN ConsumeFails
                   ELSE IF got.chunk = Eof \/ Len(all) = eat.want THEN ConsumeReturns(all)
                   ELSE eat' = [eat EXCEPT !.bytes = all] /\ UNCHANGED <<out, said>>
    /\ UNCHANGED <<sent, resets>>

\* try_reset_stream() after the reader consumed what it received; freely, also
\* a second time or with a chunk it only peeked at.
Reset ==
    /\ ch.rx /\ eat = NotConsuming /\ ~ch.err /\ CanReset(ch)
    /\ IF ResetsFreely THEN resets < 2 ELSE resets = 0 /\ ch.queued = <<>>
    /\ ch' = TryResetStream(ch)
    /\ out' = <<>> /\ said' = "open" /\ resets' = resets + 1
    /\ UNCHANGED <<sent, eat>>

BufNext ==
    \/ \E n \in ChunkSizes : Send(n)
    \/ WriterEnds \/ ReaderLeaves
    \/ ReceiveChunk \/ PeekNext
    \/ \E size \in ChunkSizes \cup {Everything} : ConsumeFirst(size)
    \/ ConsumePeek \/ ConsumeMore
    \/ Reset

BufSpec == BufInit /\ [][BufNext]_bufVars

-----------------------------------------------------------------------------

\* Chunks are runs of the bytes sent, the counter of received bytes never runs
\* ahead of the writer, and recent_data stays within its limit.
BufTypeOK ==
    /\ sent \in 0 .. StreamBytes /\ resets \in 0 .. 2
    /\ Len(ch.q) <= ChannelSize /\ Eof \notin {ch.q[i] : i \in DOMAIN ch.q}
    /\ ch.received <= sent /\ LengthOf(ch.recent) <= ch.max
    /\ said \in {"open", "eof", "err"}

\* The channel as its users may think of it: what was accepted, what the reader
\* was given, and how each half stands.
Queue == INSTANCE ByteQueue WITH
    written <- sent, got <- out, reader <- said,
    writer <- IF ch.tx THEN "open" ELSE IF ch.eof_sent THEN "ended" ELSE "gone"

\* The channel with its queue, its peeks, its partial chunks and one rewind is a
\* byte queue: the reader gets every byte in order, and EOF only at the end. This is
\* for a reader that rewinds once and has put no chunk back then. The S3 store is
\* not such a reader; S3Store models its rewinds without this restriction.
ImplementsByteQueue == Queue!QueueSpec

\* "Attempts to reset the stream to before any data was received": whenever a
\* rewind succeeded, the reader is at the start and gets the stream again.
ResetRestores == said # "err" => out = [i \in 1 .. Len(out) |-> i] /\ (said = "eof" => Len(out) = sent)
=============================================================================
