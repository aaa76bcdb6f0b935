--------------------------- MODULE ByteStreamServer ---------------------------
(* The ByteStream service (nativelink-service/src/bytestream_server.rs):      *)
(* uploads that outlive their connection for a while, and reads. Connections  *)
(* upload one object under one UUID; a connection may break at any moment and *)
(* the next one joins the stream it left, or starts over when the idle stream *)
(* has timed out. The store behind it is external: it reads the stream and    *)
(* keeps what it read when it sees EOF, or fails.                             *)
EXTENDS BufChannel

CONSTANTS Conns,       \* the connections of one client, in any order or at once
          ObjectBytes, \* size of the object
          MaxStreams   \* how often an upload may start from nothing

VARIABLES uploads,     \* the entry of active_uploads: its byte counter, its idle stream
          fired,       \* idle timers whose sleep is over, waiting for the lock
          streams,     \* every StreamState made so far
          bsConn,        \* what each connection is doing
          stored,      \* what the store has
          read,        \* a read: its channel, its get_part and its responses
          orphaned     \* ghost: a guard was dropped and its upload was not in the map

bsVars == <<uploads, fired, streams, bsConn, stored, read, orphaned>>

Object == [i \in 1 .. ObjectBytes |-> i]

\* Counters and streams are numbered by the upload they were made for.
NoUpload == [counter |-> 0, idle |-> 0]

\* StreamState, with the counter that was made for it.
NewStream == [ch |-> MakeBufChannelPair(0), bytes |-> 0, counted |-> 0, fut |-> "running", read |-> <<>>]

NewConn == [st |-> "new", offset |-> 0, stream |-> 0, counter |-> 0]

NewRead == [ch |-> MakeBufChannelPair(0), fut |-> "running", sent |-> 0, out |-> <<>>, st |-> "reading"]

NoRead == [NewRead EXCEPT !.st = "none", !.fut = "none"]

BsInit ==
    /\ uploads = NoUpload /\ fired = 0 /\ streams = <<>>
    /\ \/ bsConn = [c \in Conns |-> NewConn] /\ read = NoRead
       \/ bsConn = [c \in Conns |-> [NewConn EXCEPT !.st = "none"]] /\ read = NewRead
    /\ stored = <<>> /\ orphaned = FALSE

Others == UNCHANGED <<fired, stored, read, orphaned>>

-----------------------------------------------------------------------------
(* Uploads.                                                                   *)

\* query_write_status(): an upload in the map is never complete.
QueryWriteStatus(c) ==
    /\ bsConn[c].st = "new"
    /\ bsConn' = [bsConn EXCEPT ![c].offset = IF uploads # NoUpload THEN streams[uploads.counter].counted
                                          ELSE Len(stored),
                            ![c].st = IF uploads = NoUpload /\ stored # <<>> THEN "complete" ELSE "asked"]
    /\ UNCHANGED <<uploads, streams>> /\ Others

\* create_or_join_upload_stream(): taking the idle stream aborts its timer, unless
\* that one is past its sleep.
CreateOrJoin(c) ==
    /\ bsConn[c].st \in {"new", "asked"}
    /\ \/ /\ uploads # NoUpload /\ uploads.idle = 0
          /\ bsConn' = [bsConn EXCEPT ![c].st = "refused"]
          /\ UNCHANGED <<uploads, streams>>
       \/ /\ uploads.idle # 0
          /\ uploads' = [uploads EXCEPT !.idle = 0]
          /\ bsConn' = [bsConn EXCEPT ![c].st = "writing", ![c].stream = uploads.idle,
                                  ![c].counter = uploads.counter]
          /\ UNCHANGED streams
       \/ /\ uploads = NoUpload /\ Len(streams) < MaxStreams
          /\ streams' = Append(streams, NewStream)
          /\ LET g == Len(streams) + 1 IN
             /\ uploads' = [counter |-> g, idle |-> 0]
             /\ bsConn' = [bsConn EXCEPT ![c].st = "writing", ![c].stream = g, ![c].counter = g]
    /\ Others

Stream(c) == streams[bsConn[c].stream]

\* ActiveStreamGuard::drop(): the stream goes idle and a timer is started.
GuardDropped(c, st) ==
    /\ bsConn' = [bsConn EXCEPT ![c].st = st]
    /\ uploads' = IF uploads = NoUpload THEN NoUpload ELSE [uploads EXCEPT !.idle = bsConn[c].stream]
    /\ orphaned' = (orphaned \/ uploads = NoUpload)
    /\ UNCHANGED <<fired, stored, read>>

\* Mutant: what the client sends again is written again.
FreshDataRepeats(s, offset, n) == [i \in 1 .. n |-> offset + i]

\* The part of the n bytes at offset that the stream does not have yet.
FreshData(s, offset, n) == [i \in 1 .. offset + n - s.bytes |-> s.bytes + i]

\* process_client_stream(): one message of the client, the last one marked as such.
WriteMessage(c, n) ==
    /\ bsConn[c].st = "writing" /\ Stream(c).fut = "running"
    /\ LET s == Stream(c)
           o == bsConn[c].offset
           finish == o + n = ObjectBytes
           data == FreshData(s, o, n)
           sent == IF data = <<>> THEN s.ch ELSE SendTo(s.ch, data)
       IN  /\ o + n <= ObjectBytes
           /\ IF o > s.bytes \/ (o + n < s.bytes /\ finish)
              THEN GuardDropped(c, "error") /\ UNCHANGED streams
              ELSE IF o + n < s.bytes
              THEN bsConn' = [bsConn EXCEPT ![c].offset = o + n] /\ UNCHANGED <<uploads, streams>> /\ Others
              ELSE /\ data # <<>> => CanSend(s.ch)
                   /\ streams' = [streams EXCEPT
                        ![bsConn[c].stream].bytes = o + n,
                        ![bsConn[c].stream].ch = IF finish THEN SendEof(sent) ELSE sent,
                        ![bsConn[c].counter].counted = IF data = <<>> THEN @ ELSE o + n]
                   /\ bsConn' = [bsConn EXCEPT ![c].offset = o + n,
                                           ![c].st = IF finish THEN "sent" ELSE "writing"]
                   /\ UNCHANGED uploads /\ Others

\* The handler is dropped, or the client's stream fails or ends too early.
WriterDisconnects(c) ==
    /\ bsConn[c].st \in {"writing", "sent"}
    /\ GuardDropped(c, "error") /\ UNCHANGED streams

\* The store's update future, polled while a connection holds the stream.
StoreUpdate(c) ==
    /\ bsConn[c].st \in {"writing", "sent"} /\ Stream(c).fut = "running"
    /\ LET s == Stream(c)
           r == Recv(s.ch)
           g == bsConn[c].stream
       IN  \/ /\ Ready(s.ch) /\ r.ok /\ r.chunk # Eof
              /\ streams' = [streams EXCEPT ![g] = [s EXCEPT !.ch = r.ch, !.read = @ \o r.chunk]]
              /\ UNCHANGED stored
           \/ /\ Ready(s.ch) /\ r.ok /\ r.chunk = Eof
              /\ streams' = [streams EXCEPT ![g] = [s EXCEPT !.ch = r.ch, !.fut = "ok"]]
              /\ stored' = s.read
           \/ /\ streams' = [streams EXCEPT ![g] = [s EXCEPT !.ch = DropRx(@), !.fut = "failed"]]
              /\ UNCHANGED stored
    /\ UNCHANGED <<uploads, fired, bsConn, read, orphaned>>

\* The update failed, or it had finished in an earlier connection and polling it
\* again panics: either way the guard goes.
UpdateFails(c) ==
    /\ \/ bsConn[c].st \in {"writing", "sent"} /\ Stream(c).fut = "failed"
       \/ bsConn[c].st = "writing" /\ Stream(c).fut = "ok"
    /\ GuardDropped(c, "error") /\ UNCHANGED streams

\* graceful_finish() removes whatever the map has under the UUID.
GracefulFinish(c) ==
    /\ bsConn[c].st = "sent" /\ Stream(c).fut = "ok"
    /\ bsConn' = [bsConn EXCEPT ![c].st = "acked"] /\ uploads' = NoUpload
    /\ UNCHANGED streams /\ Others

\* The timer of an idle stream ends its sleep ...
TimerFires ==
    /\ uploads.idle # 0 /\ fired = 0 /\ fired' = 1
    /\ UNCHANGED <<uploads, streams, bsConn, stored, read, orphaned>>

\* Mutant: the timer takes an idle stream for one that has come back to life.
TimerRemovesActive ==
    /\ fired > 0 /\ fired' = 0
    /\ uploads' = IF uploads.idle = 0 THEN NoUpload ELSE uploads
    /\ UNCHANGED <<streams, bsConn, stored, read, orphaned>>

\* ... and, once it has the lock, removes what the map has under the UUID by then.
TimerRemoves ==
    /\ fired > 0 /\ fired' = 0 /\ uploads' = NoUpload
    /\ UNCHANGED <<streams, bsConn, stored, read, orphaned>>

\* A connection that ended is followed by another one of the client.
Reconnect(c) ==
    /\ bsConn[c].st \in {"refused", "error"}
    /\ bsConn' = [bsConn EXCEPT ![c] = NewConn]
    /\ UNCHANGED <<uploads, streams>> /\ Others

-----------------------------------------------------------------------------
(* inner_read(): the store's get_part feeds a channel while responses are     *)
(* consumed from it; whichever of the two ends first.                         *)

ReadKeeps == UNCHANGED <<uploads, fired, streams, bsConn, stored, orphaned>>

StoreGetPart ==
    /\ read.fut = "running"
    /\ \/ /\ read.sent < ObjectBytes /\ CanSend(read.ch)
          /\ read' = [read EXCEPT !.ch = SendTo(@, <<read.sent + 1>>), !.sent = @ + 1]
       \/ /\ read.sent = ObjectBytes
          /\ read' = [read EXCEPT !.ch = SendEof(@), !.fut = "ok"]
       \/ /\ read.sent = 0 /\ read' = [read EXCEPT !.ch = DropTx(@), !.fut = "not_found"]
       \/ read' = [read EXCEPT !.ch = DropTx(@), !.fut = "failed"]
    /\ ReadKeeps

\* Mutant: the reader's own error hides the store's.
ReadStatusOfChannel(fut) == "failed"

\* A broken channel is explained by what get_part returned.
ReadStatus(fut) == IF fut = "not_found" THEN "not_found" ELSE "failed"

ReadResponse ==
    /\ read.st = "reading" /\ Ready(read.ch)
    /\ LET r == Recv(read.ch) IN
       IF ~r.ok THEN /\ read.fut # "running"
                     /\ read' = [read EXCEPT !.ch = r.ch, !.st = ReadStatus(read.fut)]
       ELSE read' = [read EXCEPT !.ch = r.ch, !.out = @ \o r.chunk,
                                 !.st = IF r.chunk = Eof THEN "ended" ELSE "reading"]
    /\ ReadKeeps

WriteNext ==
    \/ \E c \in Conns :
         \/ QueryWriteStatus(c) \/ CreateOrJoin(c) \/ WriterDisconnects(c)
         \/ StoreUpdate(c) \/ UpdateFails(c) \/ GracefulFinish(c) \/ Reconnect(c)
         \/ \E n \in 0 .. 2 : WriteMessage(c, n)
    \/ TimerFires \/ TimerRemoves

BsNext == WriteNext \/ StoreGetPart \/ ReadResponse

BsSpec == BsInit /\ [][BsNext]_bsVars

\* Timers fire and get the lock.
BsFairSpec == BsSpec /\ WF_bsVars(TimerFires) /\ WF_bsVars(TimerRemoves)

-----------------------------------------------------------------------------

BsTypeOK ==
    /\ {uploads.counter, uploads.idle} \subseteq 0 .. Len(streams) /\ fired \in 0 .. 1
    /\ Len(streams) <= MaxStreams
    /\ \A g \in DOMAIN streams : Len(streams[g].ch.q) <= ChannelSize /\ streams[g].bytes <= ObjectBytes
    /\ \A c \in Conns : bsConn[c].offset <= ObjectBytes

\* However often the connection broke and whatever was sent again, an upload the
\* client was told is finished is the whole object.
AckedIsWhole ==
    /\ stored \in {<<>>, Object}
    /\ \A c \in Conns : bsConn[c].st \in {"acked", "complete"} => stored = Object

\* A read that ends without an error gave every byte, in order, and one that ends
\* with NotFound says what the store said.
ReadIsTruthful ==
    /\ read.out = [i \in 1 .. Len(read.out) |-> i]
    /\ read.st = "ended" => read.out = Object
    /\ read.st = "not_found" <=> (read.fut = "not_found" /\ read.st # "reading")

\* "Failed to find active upload. This should never happen.": the stream a dropped
\* guard puts back is still in active_uploads.
GuardFindsUpload == ~orphaned
=============================================================================
