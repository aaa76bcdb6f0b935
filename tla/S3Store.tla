------------------------------- MODULE S3Store -------------------------------
(* The S3 store (nativelink-store/src/s3_store.rs): one call on it, against   *)
(* an S3 service whose every request may fail, or take effect and lose its    *)
(* answer. A small upload of known size is one put whose body is fed from the *)
(* client's stream through a second buffer channel, and is retried by         *)
(* rewinding the client's stream; any other upload goes in parts; a download  *)
(* resumes where it broke.                                                    *)
EXTENDS BufChannel, Retrier

CONSTANTS S3Bytes,     \* the size of the object, in bytes and in parts
          S3Retry,     \* the Retry configuration
          S3Buffers,   \* the values of max_retry_buffer_per_request tried
          S3Concurrent,\* multipart_max_concurrent_uploads
          S3Offsets,   \* offsets of a download
          S3Lengths    \* lengths of a download: {} is none, {n} is n

VARIABLES s3,          \* the call: its operation, where it is, and its attempt
          src,         \* the channel the client's bytes come through
          fed,         \* how many of them it sent
          body,        \* the channel put_object reads its body from
          bind,        \* where bind_buffered() is, and the chunk it holds
          got,         \* the bytes the service has of the running put
          parts,       \* a multipart upload
          written,     \* bytes a download has handed to its caller
          object       \* the object the service has, or NoObject

s3Vars == <<s3, src, fed, body, bind, got, parts, written, object>>

NoObject == <<>>

TheStream == [i \in 1 .. S3Bytes |-> i]

NoParts == [read |-> 0, eof |-> FALSE, queue |-> <<>>, flying |-> [k \in 1 .. S3Bytes |-> 0],
            done |-> <<>>, open |-> FALSE]

Unbound == [at |-> "off", chunk |-> <<>>]

Call(op) == [op |-> op, st |-> "start", attempt |-> 1, offset |-> 0, length |-> {}, zero |-> FALSE]

S3Init ==
    /\ \E max \in S3Buffers : src = MakeBufChannelPair(max)
    /\ fed = 0 /\ body = MakeBufChannelPair(0) /\ bind = Unbound /\ got = <<>>
    /\ parts = NoParts /\ written = <<>>
    /\ \/ /\ s3 \in {Call("put"), Call("multi")}
          /\ object = NoObject
       \/ /\ s3 \in {[Call("get") EXCEPT !.offset = o, !.length = n, !.zero = z]
                        : o \in S3Offsets, n \in S3Lengths, z \in BOOLEAN}
          /\ object \in {NoObject, TheStream}
       \/ s3 = Call("has") /\ object \in {NoObject, TheStream}

\* The code of a call goes on, starts its next attempt, or returns.
S3Goes(st) == s3' = [s3 EXCEPT !.st = st]

After(result, next) ==
    LET verdict == Verdict(S3Retry, s3.attempt, result) IN
    s3' = CASE verdict = "again"  -> [s3 EXCEPT !.st = "start", !.attempt = @ + 1]
            [] verdict = "ok"     -> [s3 EXCEPT !.st = next, !.attempt = IF next = "ok" THEN @ ELSE 1]
            [] verdict = "failed" -> [s3 EXCEPT !.st = "failed"]

-----------------------------------------------------------------------------
(* update() of a small object of known size.                                  *)

\* The client at the other end of the stream.
Feed ==
    /\ s3.op = "put" /\ src.tx
    /\ \/ /\ fed < S3Bytes /\ CanSend(src)
          /\ src' = SendTo(src, <<fed + 1>>) /\ fed' = IF src.rx THEN fed + 1 ELSE fed
       \/ fed = S3Bytes /\ src' = SendEof(src) /\ UNCHANGED fed
       \/ src' = DropTx(src) /\ UNCHANGED fed
    /\ UNCHANGED <<s3, body, bind, got, parts, written, object>>

PutAttempt ==
    /\ s3.op = "put" /\ s3.st = "start" /\ S3Goes("sending")
    /\ body' = MakeBufChannelPair(0) /\ bind' = [Unbound EXCEPT !.at = "recv"] /\ got' = <<>>
    /\ UNCHANGED <<src, fed, parts, written, object>>

BindKeeps == UNCHANGED <<s3, fed, got, parts, written, object>>

\* bind_buffered(): takes a chunk, ...
BindRecv ==
    /\ bind.at = "recv" /\ Ready(src)
    /\ LET c == Recv(src) IN
       /\ src' = c.ch
       /\ bind' = [at |-> IF ~c.ok THEN "failed" ELSE IF c.chunk = Eof THEN "ok" ELSE "peek",
                   chunk |-> c.chunk]
       /\ body' = IF ~c.ok THEN DropTx(body) ELSE IF c.chunk = Eof THEN SendEof(body) ELSE body
    /\ BindKeeps

\* ... looks one ahead, so that a broken stream never looks complete, ...
BindPeek ==
    /\ bind.at = "peek" /\ Ready(src)
    /\ LET c == Peek1(src) IN
       /\ src' = c.ch
       /\ bind' = [bind EXCEPT !.at = IF c.ok THEN "send" ELSE "failed"]
       /\ body' = IF c.ok THEN body ELSE DropTx(body)
    /\ BindKeeps

\* ... and passes the chunk on, or puts it back when nobody takes it.
BindSend ==
    /\ bind.at = "send" /\ CanSend(body)
    /\ body' = SendTo(body, bind.chunk)
    /\ IF body.rx
       THEN bind' = [Unbound EXCEPT !.at = "recv"] /\ UNCHANGED src
       ELSE bind' = [bind EXCEPT !.at = "failed"] /\ src' = PushFront(src, bind.chunk)
    /\ BindKeeps

\* The service reads the body, and stores an object of the announced length; it
\* may fail at any moment, also after storing it.
ServicePut ==
    /\ s3.op = "put" /\ s3.st = "sending"
    /\ \/ /\ Ready(body)
          /\ LET c == Recv(body) IN
             IF c.chunk # Eof
             THEN got' = got \o c.chunk /\ body' = c.ch /\ UNCHANGED <<s3, object>>
             ELSE /\ body' = DropRx(body) /\ UNCHANGED got
                  /\ IF c.ok /\ Len(got) = S3Bytes
                     THEN object' = got /\ \E st \in {"stored", "refused"} : S3Goes(st)
                     ELSE UNCHANGED object /\ S3Goes("refused")
       \/ S3Goes("refused") /\ body' = DropRx(body) /\ UNCHANGED <<got, object>>
    /\ UNCHANGED <<src, fed, bind, parts, written>>

\* Both futures joined: on an error the client's stream is rewound for another try.
PutDone ==
    /\ s3.op = "put" /\ s3.st \in {"stored", "refused"} /\ bind.at \in {"ok", "failed"}
    /\ IF s3.st = "stored" /\ bind.at = "ok" THEN After(RetryOk, "ok") /\ UNCHANGED src
       ELSE IF CanReset(src) THEN After(RetryAgain("Aborted"), "ok") /\ src' = TryResetStream(src)
       ELSE After(RetryErr("Aborted"), "ok") /\ UNCHANGED src
    /\ bind' = Unbound
    /\ UNCHANGED <<fed, body, got, parts, written, object>>

-----------------------------------------------------------------------------
(* update() in parts. A part stands for bytes_per_upload_part bytes.          *)

PartsKeep == UNCHANGED <<src, fed, body, bind, got, written>>

Multi(st) == s3.op = "multi" /\ s3.st = st

CreateMultipartUpload ==
    /\ Multi("start")
    /\ \E r \in {RetryOk, RetryAgain("Aborted"), RetryErr("Internal")} :
         After(r, "parts") /\ parts' = [parts EXCEPT !.open = r = RetryOk]
    /\ UNCHANGED object /\ PartsKeep

\* read_stream_fut: consumes a part and queues its upload, waiting for room.
ReadPart ==
    /\ Multi("parts") /\ ~parts.eof
    /\ \/ /\ parts.read < S3Bytes /\ Len(parts.queue) < S3Concurrent
          /\ parts' = [parts EXCEPT !.read = @ + 1, !.queue = Append(@, parts.read + 1)]
          /\ UNCHANGED s3
       \/ parts.read = S3Bytes /\ parts' = [parts EXCEPT !.eof = TRUE] /\ UNCHANGED s3
       \/ S3Goes("abort") /\ UNCHANGED parts
    /\ UNCHANGED object /\ PartsKeep

StartUploadPart ==
    /\ Multi("parts") /\ parts.queue # <<>>
    /\ parts' = [parts EXCEPT !.queue = Tail(@), !.flying[Head(parts.queue)] = 1]
    /\ UNCHANGED <<s3, object>> /\ PartsKeep

UploadPart(k) ==
    /\ Multi("parts") /\ parts.flying[k] > 0
    /\ \E r \in {RetryOk, RetryAgain("Aborted")} :
         LET verdict == Verdict(S3Retry, parts.flying[k], r) IN
         CASE verdict = "ok" -> /\ parts' = [parts EXCEPT !.flying[k] = 0, !.done = Append(@, k)]
                                /\ UNCHANGED s3
           [] verdict = "again" -> parts' = [parts EXCEPT !.flying[k] = @ + 1] /\ UNCHANGED s3
           [] verdict = "failed" -> S3Goes("abort") /\ UNCHANGED parts
    /\ UNCHANGED object /\ PartsKeep

\* Mutant: the loop ends with the stream, not with the last upload.
PartsUploadedEarly ==
    /\ Multi("parts") /\ parts.eof /\ parts.queue = <<>>
    /\ S3Goes("complete") /\ parts' = [parts EXCEPT !.done = SortSeq(@, LAMBDA a, b : a < b)]
    /\ UNCHANGED object /\ PartsKeep

\* The loop ends when nothing is read, queued or in flight; the parts are sorted.
PartsUploaded ==
    /\ Multi("parts") /\ parts.eof /\ parts.queue = <<>>
    /\ \A k \in 1 .. S3Bytes : parts.flying[k] = 0
    /\ S3Goes("complete") /\ parts' = [parts EXCEPT !.done = SortSeq(@, LAMBDA a, b : a < b)]
    /\ UNCHANGED object /\ PartsKeep

\* A completion whose answer was lost is refused when it is tried again.
CompleteMultipartUpload ==
    /\ Multi("complete")
    /\ \E effect \in {TRUE, FALSE}, r \in {RetryOk, RetryAgain("Aborted")} :
         /\ effect => parts.open
         /\ r = RetryOk => effect
         /\ object' = IF effect THEN parts.done ELSE object
         /\ parts' = IF effect THEN [parts EXCEPT !.open = FALSE] ELSE parts
         /\ LET verdict == Verdict(S3Retry, s3.attempt, r) IN
            CASE verdict = "ok" -> S3Goes("ok")
              [] verdict = "again" -> s3' = [s3 EXCEPT !.attempt = @ + 1]
              [] verdict = "failed" -> S3Goes("abort")
    /\ PartsKeep

\* A best effort, made once.
AbortMultipartUpload ==
    /\ Multi("abort") /\ S3Goes("failed")
    /\ \E ok \in BOOLEAN : parts' = [parts EXCEPT !.open = @ /\ ~ok]
    /\ UNCHANGED object /\ PartsKeep

-----------------------------------------------------------------------------
(* get_part() and has().                                                      *)

GetKeeps == UNCHANGED <<src, fed, body, bind, got, parts, object>>

\* Mutant: a retry asks for the range from its beginning.
ResumeFromStart == s3.offset

\* The range asked for starts behind what the caller already has, ...
ResumeAt == s3.offset + Len(written)

\* ... and its end is inclusive: bytes=first-last.
RangeEnd == IF s3.length = {} THEN Len(object)
            ELSE LET last == s3.offset + CHOOSE n \in s3.length : TRUE IN
                 IF last < Len(object) THEN last + 1 ELSE Len(object)

GetObject ==
    /\ s3.op = "get" /\ s3.st = "start"
    /\ IF s3.zero THEN S3Goes("ok") /\ UNCHANGED got
       ELSE \/ object = NoObject /\ After(RetryErr("NotFound"), "ok") /\ UNCHANGED got
            \/ After(RetryAgain("Unavailable"), "ok") /\ UNCHANGED got
            \/ /\ ResumeAt < RangeEnd
               /\ S3Goes("stream") /\ got' = SubSeq(object, ResumeAt + 1, RangeEnd)
    /\ UNCHANGED <<src, fed, body, bind, parts, object, written>>

\* Copying what arrives to the caller, who may be gone; the stream may break.
GetStream ==
    /\ s3.op = "get" /\ s3.st = "stream"
    /\ \/ /\ got # <<>> /\ written' = Append(written, Head(got)) /\ got' = Tail(got)
          /\ UNCHANGED s3
       \/ got = <<>> /\ After(RetryOk, "ok") /\ UNCHANGED <<got, written>>
       \/ After(RetryErr("Aborted"), "ok") /\ UNCHANGED <<got, written>>
       \/ After(RetryAgain("Aborted"), "ok") /\ UNCHANGED <<got, written>>
    /\ UNCHANGED <<src, fed, body, bind, parts, object>>

\* has(): an object that is too old, or of unknown length, is not there.
HeadObject ==
    /\ s3.op = "has" /\ s3.st = "start"
    /\ \/ object # NoObject /\ After(RetryOk, "found")
       \/ After(RetryOk, "missing")
       \/ After(RetryErr("InvalidArgument"), "ok")
       \/ After(RetryAgain("Unavailable"), "ok")
    /\ UNCHANGED written /\ GetKeeps

S3Next ==
    \/ Feed \/ PutAttempt \/ BindRecv \/ BindPeek \/ BindSend \/ ServicePut \/ PutDone
    \/ CreateMultipartUpload \/ ReadPart \/ StartUploadPart
    \/ \E k \in 1 .. S3Bytes : UploadPart(k)
    \/ PartsUploaded \/ CompleteMultipartUpload \/ AbortMultipartUpload
    \/ GetObject \/ GetStream \/ HeadObject

S3Spec == S3Init /\ [][S3Next]_s3Vars

\* The runtime polls every future that can proceed, requests are answered, and a
\* client feeds its stream or is disconnected.
S3FairSpec == S3Spec /\ WF_s3Vars(S3Next)

-----------------------------------------------------------------------------

S3TypeOK ==
    /\ s3.attempt \in 1 .. S3Retry.max_retries + 1 /\ fed \in 0 .. S3Bytes
    /\ Len(src.q) <= ChannelSize /\ Len(body.q) <= ChannelSize
    /\ Len(parts.queue) <= S3Concurrent
    /\ bind.at \in {"off", "recv", "peek", "send", "ok", "failed"}

\* Whatever was retried, lost or reordered on the way, an acknowledged upload is
\* there, and an object the service has is as long as the client's stream and, if
\* it came in parts or in the first attempt, that stream, whole and in order. What a
\* later attempt at a single request stores depends on the rewind: RewoundIsStream.
StoredIsStream ==
    /\ object = NoObject \/ Len(object) = S3Bytes
    /\ s3.op = "multi" \/ s3.attempt = 1 => object \in {NoObject, TheStream}
    /\ s3.op \in {"put", "multi"} /\ s3.st = "ok" => object # NoObject

\* "Attempts to reset the stream to before any data was received"
\* (buf_channel.rs:275): after a rewind that succeeded, the next attempt of update()
\* sends the client's stream from its start.
RewoundIsStream == object \in {NoObject, TheStream}

\* A download that broke and resumed hands its caller consecutive bytes from the
\* offset it asked for, and succeeds only with all of them, or one byte more: the
\* end of the range in the request is inclusive.
ResumedIsSeamless ==
    s3.op = "get" =>
      /\ written = [i \in 1 .. Len(written) |-> s3.offset + i]
      /\ s3.st = "ok" /\ ~s3.zero =>
           \/ s3.offset + Len(written) = S3Bytes
           \/ \E n \in s3.length : Len(written) \in {n, n + 1}

\* The call has returned.
S3Ended == s3.st \in {"ok", "failed", "found", "missing"}
=============================================================================
