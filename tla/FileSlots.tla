------------------------------- MODULE FileSlots -------------------------------
(***************************************************************************)
(* The limit on open files of nativelink-util/src/fs.rs and the files that *)
(* close while they are idle.  Copies stream a range of one file into a    *)
(* new file: the reading end is get_part of a filesystem store, or a       *)
(* read_buf_cb; the writing end is update_file.  Each end needs a permit   *)
(* for the time its file is open, both ends of all copies compete for the  *)
(* permits, and each end waits for the other through a buffer channel.     *)
(***************************************************************************)
EXTENDS Naturals, Sequences, SequencesExt, FiniteSets

CONSTANTS
    Copies,        \* the copies running at the same time
    FilePermits,   \* DEFAULT_OPEN_FILE_PERMITS
    MorePermits,   \* set_open_file_limit() of the configuration, minus the default
    SourceBytes,   \* size of the source file; its byte number i is i
    Ranges,        \* <<offset, limit>> of the reads
    ReadBuffer,    \* most bytes of a read
    ChannelSlots,  \* chunks a buffer channel holds
    IdleTimeout    \* whether an idle file descriptor timeout is configured

ASSUME SlotsAssumption == FilePermits \in Nat \ {0} /\ ReadBuffer \in Nat \ {0} /\ ChannelSlots \in Nat \ {0}

VARIABLES
    free,     \* available permits of OPEN_FILE_SEMAPHORE
    total,    \* TOTAL_FILE_SEMAPHORES
    queue,    \* ends waiting for a permit: the semaphore is first come, first served
    holds,    \* ends that hold a permit
    range,    \* copy |-> its range
    source,      \* copy |-> reading end: [st, pos, left, buf]
    dst,      \* copy |-> writing end: [st, pos, buf]
    chan,     \* copy |-> chunks in the channel; <<>> as a chunk is the end
    outBytes       \* copy |-> contents of the new file

slotVars == <<free, total, queue, holds, range, source, dst, chan, outBytes>>

SlotsInit ==
    /\ free = FilePermits /\ total = FilePermits /\ queue = <<>> /\ holds = {}
    /\ range \in [Copies -> Ranges]
    /\ source = [c \in Copies |-> [st |-> "start", pos |-> range[c][1], left |-> range[c][2], buf |-> <<>>]]
    /\ dst = [c \in Copies |-> [st |-> "start", pos |-> 0, buf |-> <<>>]]
    /\ chan = [c \in Copies |-> <<>>]
    /\ outBytes = [c \in Copies |-> <<>>]

Side(c, end) == <<c, end>>
Open(c, end) == Side(c, end) \in holds

\* get_permit(), and as_reader() of a closed file: wait for a permit.
Enqueue(c, end) == queue' = Append(queue, Side(c, end))

\* External: the semaphore serves the queue in order.
GrantPermit ==
    /\ free > 0 /\ queue # <<>>
    /\ free' = free - 1
    /\ queue' = Tail(queue)
    /\ holds' = holds \cup {Head(queue)}
    /\ UNCHANGED <<total, range, source, dst, chan, outBytes>>

\* Mutant: the permit is not returned.
DropLeaks(c, end) == holds' = holds \ {Side(c, end)} /\ UNCHANGED free

\* Dropping a FileSlot, or the end of call_with_permit(), returns its permit.
DropSlot(c, end) == holds' = holds \ {Side(c, end)} /\ free' = free + 1

\* set_open_file_limit(): the limit only grows.
SetOpenFileLimit(limit) ==
    /\ total = FilePermits /\ limit > total
    /\ total' = limit
    /\ free' = free + (limit - total)
    /\ UNCHANGED <<queue, holds, range, source, dst, chan, outBytes>>

-----------------------------------------------------------------------------
(* The reading end.                                                         *)

OpenFile(c) ==
    /\ source[c].st = "start"
    /\ source' = [source EXCEPT ![c].st = "opening"]
    /\ Enqueue(c, "src")
    /\ UNCHANGED <<free, total, holds, range, dst, chan, outBytes>>

\* read_buf() of a Take: at most what is left of the range and of the file.
Readable(c) == LET n == SourceBytes - source[c].pos IN
               IF source[c].pos > SourceBytes THEN 0 ELSE IF n < source[c].left THEN n ELSE source[c].left

ReadFileChunk(c) ==
    /\ source[c].st = "opening" /\ Open(c, "src")
    /\ IF Readable(c) = 0
       THEN /\ source' = [source EXCEPT ![c].st = "eof"]
            /\ DropSlot(c, "src")
       ELSE \E n \in 1..ReadBuffer :
              /\ n <= Readable(c)
              /\ source' = [source EXCEPT ![c] = [st |-> "sending", pos |-> @.pos + n, left |-> @.left - n,
                                            buf |-> [i \in 1..n |-> @.pos + i]]]
              /\ UNCHANGED <<free, holds>>
    /\ UNCHANGED <<total, queue, range, dst, chan, outBytes>>

\* The chunk is sent; the file is opened again if it was closed meanwhile.
SendChunk(c) ==
    /\ source[c].st = "sending" /\ Len(chan[c]) < ChannelSlots
    /\ chan' = [chan EXCEPT ![c] = Append(@, source[c].buf)]
    /\ source' = [source EXCEPT ![c].st = "opening", ![c].buf = <<>>]
    /\ IF Open(c, "src") THEN UNCHANGED queue ELSE Enqueue(c, "src")
    /\ UNCHANGED <<free, total, holds, range, dst, outBytes>>

EndOfFile(c) ==
    /\ source[c].st = "eof" /\ Len(chan[c]) < ChannelSlots
    /\ chan' = [chan EXCEPT ![c] = Append(@, <<>>)]
    /\ source' = [source EXCEPT ![c].st = "done"]
    /\ UNCHANGED <<free, total, queue, holds, range, dst, outBytes>>

\* close_file(): the position and what is left of the range are kept.
Kept(c) == source[c]

IdleReader(c) ==
    /\ IdleTimeout
    /\ source[c].st = "sending" /\ Len(chan[c]) = ChannelSlots /\ Open(c, "src")
    /\ source' = [source EXCEPT ![c] = Kept(c)]
    /\ DropSlot(c, "src")
    /\ UNCHANGED <<total, queue, range, dst, chan, outBytes>>

-----------------------------------------------------------------------------
(* The writing end.                                                         *)

CreateFile(c) ==
    /\ dst[c].st = "start"
    /\ dst' = [dst EXCEPT ![c].st = "creating"]
    /\ Enqueue(c, "dst")
    /\ UNCHANGED <<free, total, holds, range, source, chan, outBytes>>

FileCreated(c) ==
    /\ dst[c].st = "creating" /\ Open(c, "dst")
    /\ dst' = [dst EXCEPT ![c].st = "receiving"]
    /\ UNCHANGED <<free, total, queue, holds, range, source, chan, outBytes>>

\* A chunk, or the end, after which the file is synced.
RecvChunk(c) ==
    /\ dst[c].st = "receiving" /\ chan[c] # <<>>
    /\ chan' = [chan EXCEPT ![c] = Tail(@)]
    /\ dst' = [dst EXCEPT ![c].st = IF Head(chan[c]) = <<>> THEN "syncing" ELSE "writing",
                          ![c].buf = Head(chan[c])]
    /\ IF Open(c, "dst") THEN UNCHANGED queue ELSE Enqueue(c, "dst")
    /\ UNCHANGED <<free, total, holds, range, source, outBytes>>

\* Mutant: the reopened file is read from its start.
SeekStart(c) == 0

\* as_reader() seeks a file that was closed to where it was.
Seek(c) == dst[c].pos

WriteChunk(c) ==
    /\ dst[c].st = "writing" /\ Open(c, "dst")
    /\ outBytes' = [outBytes EXCEPT ![c] = SubSeq(@, 1, Seek(c)) \o dst[c].buf]
    /\ dst' = [dst EXCEPT ![c] = [st |-> "receiving", pos |-> @.pos + Len(@.buf), buf |-> <<>>]]
    /\ UNCHANGED <<free, total, queue, holds, range, source, chan>>

IdleWriter(c) ==
    /\ IdleTimeout
    /\ dst[c].st = "receiving" /\ chan[c] = <<>> /\ Open(c, "dst")
    /\ DropSlot(c, "dst")
    /\ UNCHANGED <<total, queue, range, source, dst, chan, outBytes>>

\* sync_all(), the slot is dropped, and the rename takes a permit for itself.
SyncFile(c) ==
    /\ dst[c].st = "syncing" /\ Open(c, "dst")
    /\ DropSlot(c, "dst")
    /\ dst' = [dst EXCEPT ![c].st = "renaming"]
    /\ Enqueue(c, "dst")
    /\ UNCHANGED <<total, range, source, chan, outBytes>>

RenameFile(c) ==
    /\ dst[c].st = "renaming" /\ Open(c, "dst")
    /\ DropSlot(c, "dst")
    /\ dst' = [dst EXCEPT ![c].st = "done"]
    /\ UNCHANGED <<total, queue, range, source, chan, outBytes>>

CopyStep(c) ==
    \/ OpenFile(c) \/ ReadFileChunk(c) \/ SendChunk(c) \/ EndOfFile(c) \/ IdleReader(c)
    \/ CreateFile(c) \/ FileCreated(c) \/ RecvChunk(c) \/ WriteChunk(c) \/ IdleWriter(c)
    \/ SyncFile(c) \/ RenameFile(c)

SlotsNext ==
    \/ GrantPermit
    \/ \E c \in Copies : CopyStep(c)
    \/ SetOpenFileLimit(FilePermits + MorePermits)

SlotsSpec == SlotsInit /\ [][SlotsNext]_slotVars

\* Both ends of a copy are futures that are polled, timers fire, and the
\* semaphore wakes its waiters.
SlotsFairSpec ==
    /\ SlotsSpec
    /\ WF_slotVars(GrantPermit)
    /\ \A c \in Copies : WF_slotVars(CopyStep(c))

-----------------------------------------------------------------------------
\* Every permit is free or held by one open file, whatever is closed by a
\* timeout and opened again.
SlotsConserved == free + Cardinality(holds) = total

\* The new file is the range of the source, byte for byte, however often either
\* end was closed and resumed (fs.rs:122).
CopyIsRange ==
    \A c \in Copies :
        LET first == range[c][1]
            wanted == [i \in 1..(IF first > SourceBytes THEN 0
                                 ELSE IF SourceBytes - first < range[c][2] THEN SourceBytes - first
                                 ELSE range[c][2]) |-> first + i]
        IN  /\ IsPrefix(outBytes[c], wanted)
            /\ dst[c].st = "done" => outBytes[c] = wanted

\* All copies have ended.
CopiesEnded == \A c \in Copies : dst[c].st = "done"
=============================================================================
