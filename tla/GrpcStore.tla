------------------------------ MODULE GrpcStore ------------------------------
(* The gRPC store (nativelink-store/src/grpc_store.rs) with the resumable     *)
(* write stream of nativelink-util/src/proto_stream_utils.rs: one call on the *)
(* store, forwarded to a remote ByteStream, CAS or action cache service over  *)
(* connections that break. The remote service is external: it accepts the     *)
(* bytes of an upload in order, remembers an interrupted upload by its UUID   *)
(* for a while, and streams reads.                                            *)
EXTENDS Retrier, Sequences

CONSTANTS WriteMessages, \* messages of an upload; the last one finishes it
          RemoteBytes,   \* size of the object a read asks for
          GrpcRetry,     \* the Retry configuration
          ReadLimits     \* read_limit of a read; 0 is none

VARIABLES gcall,         \* the call: operation, place, attempt, answer
          ws,            \* WriteState
          wire,          \* messages the transport has taken and the server has not
          remote,        \* messages of the upload the server has accepted
          refused,       \* ghost: the messages the server refused for a gap before them
          rd             \* a read: offset, limit, bytes on their way and delivered

grpcVars == <<gcall, ws, wire, remote, refused, rd>>

\* Operations that are one request and its answer, with our instance name put
\* in; the first ones are refused by a store of type ac.
CasCalls == {"find_missing_blobs", "batch_update_blobs", "batch_read_blobs", "get_tree",
             "query_write_status"}

AcCalls == {"get_action_result", "update_action_result"}

NoMessage == 0

WriteState == [taken |-> 0, cached |-> <<NoMessage, NoMessage>>,
               queue |-> <<NoMessage, NoMessage>>, resumed |-> FALSE, err |-> FALSE, ended |-> FALSE]

NewCall(op, type) == [op |-> op, type |-> type, st |-> "start", attempt |-> 1]

GrpcInit ==
    /\ \E op \in CasCalls \cup AcCalls \cup {"write", "get_part", "has"}, type \in {"cas", "ac"} :
         gcall = NewCall(op, type)
    /\ ws = WriteState /\ wire = <<>> /\ remote = 0 /\ refused = {}
    /\ \E limit \in ReadLimits :
         rd = [offset |-> 0, limit |-> limit, coming |-> 0, out |-> 0]

\* Mutant: a retry is not counted.
GrpcAfterUncounted(result) ==
    LET verdict == Verdict(GrpcRetry, gcall.attempt, result) IN
    gcall' = IF verdict = "again" THEN [gcall EXCEPT !.st = "start"]
             ELSE [gcall EXCEPT !.st = verdict]

GrpcAfter(result) ==
    LET verdict == Verdict(GrpcRetry, gcall.attempt, result) IN
    gcall' = IF verdict = "again" THEN [gcall EXCEPT !.st = "start", !.attempt = @ + 1]
             ELSE [gcall EXCEPT !.st = verdict]

\* What a request may come back with, a lost connection included.
GrpcAnswers == {RetryOk, RetryAgain("Unavailable"), RetryAgain("NotFound")}

\* perform_request(), used by every unary call.
PerformRequest ==
    /\ gcall.op \in CasCalls \cup AcCalls \cup {"has"} /\ gcall.st = "start"
    /\ IF gcall.op \in CasCalls /\ gcall.type = "ac" THEN GrpcAfter(RetryErr("InvalidArgument"))
       ELSE \E answer \in GrpcAnswers : GrpcAfter(answer)
    /\ UNCHANGED <<ws, wire, remote, refused, rd>>

-----------------------------------------------------------------------------
(* write() and update(). Message k carries the byte at offset k - 1, and the  *)
(* last one only the end.                                                     *)

WritePhase == gcall.op = "write" /\ gcall.type = "cas"

StartWrite ==
    /\ gcall.op = "write" /\ gcall.st = "start"
    /\ IF gcall.type = "ac" THEN GrpcAfter(RetryErr("InvalidArgument"))
       ELSE gcall' = [gcall EXCEPT !.st = "writing"]
    /\ wire' = <<>> /\ ws' = [ws EXCEPT !.ended = FALSE]
    /\ UNCHANGED <<remote, refused, rd>>

Swap(pair) == <<pair[2], pair[1]>>

\* Mutant: only the last message is kept.
PushMessageAlone(w, k) == [w EXCEPT !.cached = <<k, NoMessage>>, !.taken = k]

\* push_message()
PushMessage(w, k) == [w EXCEPT !.cached = <<k, w.cached[1]>>, !.taken = k]

\* resumed_message(): the message is the first of the swapped queue, which it leaves.
ResumedMessage(w) == IF w.resumed THEN w.queue[2] ELSE NoMessage

AfterResumed(w) ==
    LET q == IF w.resumed THEN Swap(w.queue) ELSE w.queue IN
    [w EXCEPT !.queue = IF w.resumed THEN <<NoMessage, q[2]>> ELSE q,
              !.resumed = w.resumed /\ q[1] # NoMessage]

\* WriteStateWrapper::poll_next(), called by the transport, which takes up to two
\* messages before it notices an error.
PollNext ==
    /\ WritePhase /\ gcall.st = "writing" /\ ~ws.ended /\ Len(wire) < 2
    /\ LET w == AfterResumed(ws)
           cached == ResumedMessage(ws)
       IN  IF cached # NoMessage THEN wire' = Append(wire, cached) /\ ws' = w
           ELSE \/ /\ w.taken < WriteMessages
                   /\ wire' = Append(wire, w.taken + 1) /\ ws' = PushMessage(w, w.taken + 1)
                \/ /\ w.taken = WriteMessages
                   /\ ws' = [w EXCEPT !.ended = TRUE] /\ UNCHANGED wire
                \/ /\ w.taken < WriteMessages
                   /\ ws' = [w EXCEPT !.err = TRUE, !.ended = TRUE] /\ UNCHANGED wire
    /\ UNCHANGED <<gcall, remote, refused, rd>>

\* can_resume(): nothing taken yet, or something to send again.
CanResume == ~ws.err /\ (ws.cached[1] # NoMessage \/ ws.taken = 0)

\* The remote call failed: the upload is resumed with the messages kept, unless
\* it was the client's own stream that failed.
WriteFailed(code) ==
    /\ IF ws.err THEN GrpcAfter(RetryErr(code)) /\ ws' = [ws EXCEPT !.err = FALSE]
       ELSE IF CanResume
       THEN GrpcAfter(RetryAgain(code)) /\ ws' = [ws EXCEPT !.queue = ws.cached, !.resumed = TRUE]
       ELSE GrpcAfter(RetryErr(code)) /\ UNCHANGED ws
    /\ wire' = <<>>

\* The server takes a message it has not, skips one it has, and refuses a gap.
ServerTakes ==
    /\ WritePhase /\ gcall.st = "writing" /\ wire # <<>>
    /\ LET k == Head(wire) IN
       IF k > remote + 1
       THEN refused' = refused \cup {k} /\ WriteFailed("InvalidArgument") /\ UNCHANGED <<remote>>
       ELSE /\ remote' = IF k = remote + 1 THEN k ELSE remote
            /\ IF k = WriteMessages THEN GrpcAfter(RetryOk) ELSE UNCHANGED gcall
            /\ wire' = Tail(wire) /\ UNCHANGED <<ws, refused>>
    /\ UNCHANGED rd

\* The stream ended without a message that says so.
ServerSeesEnd ==
    /\ WritePhase /\ gcall.st = "writing" /\ wire = <<>> /\ ws.ended
    /\ WriteFailed("InvalidArgument")
    /\ UNCHANGED <<remote, refused, rd>>

\* The connection breaks and the messages on it are lost; the server keeps what
\* it accepted under the UUID.
ConnectionBreaks ==
    /\ WritePhase /\ gcall.st = "writing"
    /\ WriteFailed("Unavailable")
    /\ UNCHANGED <<remote, refused, rd>>

-----------------------------------------------------------------------------
(* get_part() of a CAS store.                                                 *)

\* read_internal(): the first response is awaited with the request.
ReadInternal ==
    /\ gcall.op = "get_part" /\ gcall.st = "start"
    /\ \/ gcall.type = "ac" /\ \E a \in GrpcAnswers : GrpcAfter(a) /\ UNCHANGED rd
       \/ /\ gcall.type = "cas"
          /\ \/ GrpcAfter(RetryAgain("Unavailable")) /\ UNCHANGED rd
             \/ gcall' = [gcall EXCEPT !.st = "reading"]
                /\ LET left == RemoteBytes - rd.offset IN
                   rd' = [rd EXCEPT !.coming = IF rd.limit = 0 \/ rd.limit > left THEN left ELSE rd.limit]
    /\ UNCHANGED <<ws, wire, remote, refused>>

\* Mutant: the next attempt asks for the same range again.
ForwardNoOffset(r) == [r EXCEPT !.coming = @ - 1, !.out = @ + 1]

\* A chunk reaches the caller, and the next attempt would start behind it.
Forward(r) == [r EXCEPT !.coming = @ - 1, !.out = @ + 1, !.offset = @ + 1]

ReadMessage ==
    /\ gcall.op = "get_part" /\ gcall.st = "reading"
    /\ \/ rd.coming > 0 /\ rd' = Forward(rd) /\ UNCHANGED gcall
       \/ rd.coming = 0 /\ GrpcAfter(RetryOk) /\ UNCHANGED rd
       \/ GrpcAfter(RetryAgain("Unavailable")) /\ UNCHANGED rd
       \/ GrpcAfter(RetryErr("Internal")) /\ UNCHANGED rd
    /\ UNCHANGED <<ws, wire, remote, refused>>

GrpcNext ==
    \/ PerformRequest \/ StartWrite \/ PollNext \/ ServerTakes \/ ServerSeesEnd \/ ConnectionBreaks
    \/ ReadInternal \/ ReadMessage

GrpcSpec == GrpcInit /\ [][GrpcNext]_grpcVars

\* Transports make progress or break, and retries are bounded.
GrpcFairSpec == GrpcSpec /\ WF_grpcVars(GrpcNext)

-----------------------------------------------------------------------------

GrpcTypeOK ==
    /\ gcall.attempt \in 1 .. GrpcRetry.max_retries + 1
    /\ ws.taken \in 0 .. WriteMessages /\ remote \in 0 .. WriteMessages
    /\ Len(wire) <= 2 /\ rd.offset \in 0 .. RemoteBytes

\* The messages kept are the last two taken, so whatever the transport had taken
\* when it broke is sent again. "If this is the first or second call after a
\* failure and we have cached messages, then use the cached write requests": the
\* server sees no gap, except before the second message. (When only one message was
\* kept, the swapped queue of resumed_message starts with the empty place, which
\* ends the resumption, and the kept message is not sent.)
NoGapAfterResume == refused \subseteq {2}

\* A read gives its caller each byte once, however often it was resumed, and all
\* that was asked for; no more than that unless a read with a limit was retried.
\* (The next attempt asks for the whole read_limit again, behind the bytes that were
\* already forwarded.)
ReadOnce ==
    LET asked == IF rd.limit = 0 \/ rd.limit > RemoteBytes THEN RemoteBytes ELSE rd.limit IN
    /\ rd.out = rd.offset
    /\ gcall.op = "get_part" /\ gcall.type = "cas" /\ gcall.st = "ok" =>
         rd.out >= asked /\ (gcall.attempt = 1 => rd.out = asked)

\* The call has returned.
GrpcEnded == gcall.st \in {"ok", "failed"}
=============================================================================
