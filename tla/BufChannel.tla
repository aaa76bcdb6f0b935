------------------------------ MODULE BufChannel ------------------------------
(* The buffer channel every stream of the system goes through                 *)
(* (nativelink-util/src/buf_channel.rs): a bounded mpsc channel of chunks,    *)
(* with peeking, rewinding and end-of-stream detection in the reader's half.  *)
(* A channel is a value and each call on one of its halves a function of it,  *)
(* so that components joining several channels can share the definitions.     *)
EXTENDS Integers, Sequences, SequencesExt

\* mpsc::channel(2)
ChannelSize == 2

\* A chunk is a sequence of bytes; the empty one stands for EOF.
Eof == <<>>

\* make_buf_channel_pair(), with recent_data kept up to max bytes.
MakeBufChannelPair(max) ==
    [q |-> <<>>, tx |-> TRUE, rx |-> TRUE, eof_sent |-> FALSE,
     queued |-> <<>>, recent |-> <<>>, received |-> 0, err |-> FALSE, max |-> max]

LengthOf(chunks) == FoldLeft(LAMBDA n, c : n + Len(c), 0, chunks)

-----------------------------------------------------------------------------
(* The writer's half.                                                         *)

\* Mutant: send() does not wait for room.
CanSendAlways(c) == c.tx

\* send() waits for room; to a dropped receiver it fails and closes the half.
CanSend(c) == c.tx /\ (~c.rx \/ Len(c.q) < ChannelSize)

SendTo(c, chunk) == IF c.rx THEN [c EXCEPT !.q = Append(@, chunk)] ELSE [c EXCEPT !.tx = FALSE]

\* send_eof(): sets the shared flag and closes the half; repeating it is harmless.
SendEof(c) == IF c.eof_sent THEN c ELSE [c EXCEPT !.eof_sent = TRUE, !.tx = FALSE]

DropTx(c) == [c EXCEPT !.tx = FALSE]

DropRx(c) == [c EXCEPT !.rx = FALSE, !.q = <<>>]

-----------------------------------------------------------------------------
(* The reader's half.                                                         *)

\* Whether recv() returns rather than waits.
Ready(c) == c.err \/ c.queued # <<>> \/ c.q # <<>> \/ ~c.tx

MaybePopulateRecentData(c, chunk) ==
    CASE c.max = 0 -> c
      [] c.max # 0 /\ c.received > c.max -> [c EXCEPT !.recent = <<>>]
      [] OTHER -> [c EXCEPT !.recent = Append(@, chunk)]

\* Mutant: an empty chunk is taken for EOF whatever the writer said.
RecvInnerIgnoresFlag(c, chunk) ==
    [ch |-> MaybePopulateRecentData([c EXCEPT !.received = @ + Len(chunk)], chunk),
     ok |-> TRUE, chunk |-> chunk]

\* recv_inner(): an empty chunk is EOF only if the writer said so.
RecvInner(c, chunk) ==
    IF chunk # Eof
    THEN [ch |-> MaybePopulateRecentData([c EXCEPT !.received = @ + Len(chunk)], chunk),
          ok |-> TRUE, chunk |-> chunk]
    ELSE IF c.eof_sent
    THEN [ch |-> MaybePopulateRecentData(c, Eof), ok |-> TRUE, chunk |-> Eof]
    ELSE [ch |-> [c EXCEPT !.queued = <<>>, !.recent = <<>>, !.received = 0, !.err = TRUE],
          ok |-> FALSE, chunk |-> Eof]

\* try_recv() and recv(): the error is sticky, queued chunks come before the
\* channel's and are not counted again.
Recv(c) ==
    IF c.err THEN [ch |-> c, ok |-> FALSE, chunk |-> Eof]
    ELSE IF c.queued # <<>>
    THEN [ch |-> [c EXCEPT !.queued = Tail(@)], ok |-> TRUE, chunk |-> Head(c.queued)]
    ELSE IF c.q # <<>> THEN RecvInner([c EXCEPT !.q = Tail(@)], Head(c.q))
    ELSE RecvInner(c, Eof)

PushFront(c, chunk) == [c EXCEPT !.queued = <<chunk>> \o @]

\* peek(): receives one chunk ahead and puts it back in front.
Peek1(c) ==
    IF c.queued # <<>> THEN [ch |-> c, ok |-> TRUE, chunk |-> Head(c.queued)]
    ELSE LET got == Recv(c) IN
         IF got.ok THEN [got EXCEPT !.ch = PushFront(@, got.chunk)] ELSE got

\* try_reset_stream()
CanReset(c) == c.received <= c.max /\ LengthOf(c.recent) = c.received

TryResetStream(c) ==
    [c EXCEPT !.queued = c.recent \o @, !.recent = <<>>, !.received = 0]

=============================================================================
