------------------------------ MODULE ByteQueue ------------------------------
(* What a buffer channel promises its two users: the reader gets the bytes    *)
(* the writer wrote, in order, none lost and none twice; it sees the end only *)
(* when the writer declared it and nothing is left, and an error instead of   *)
(* an end when the writer went away without a word. Bytes are numbered in the *)
(* order in which they are written.                                           *)
EXTENDS Naturals, Sequences

VARIABLES written,     \* how many bytes were accepted from the writer
          got,         \* what the reader has been given since it started over
          writer,      \* "open", "ended" by an EOF, or "gone" without one
          reader       \* "open", "eof" or "err": what the last read said

queueVars == <<written, got, writer, reader>>

QueueInit == written = 0 /\ got = <<>> /\ writer = "open" /\ reader = "open"

Write ==
    /\ writer = "open" /\ written' > written
    /\ UNCHANGED <<got, writer, reader>>

CloseWriter ==
    /\ writer = "open" /\ writer' \in {"ended", "gone"}
    /\ UNCHANGED <<written, got, reader>>

Take ==
    /\ reader # "err" /\ reader' = "open"
    /\ \E n \in Len(got) + 1 .. written : got' = [i \in 1 .. n |-> i]
    /\ UNCHANGED <<written, writer>>

ReadEof ==
    /\ reader # "err" /\ writer = "ended" /\ Len(got) = written
    /\ reader' = "eof"
    /\ UNCHANGED <<written, got, writer>>

\* A read that wants several chunks loses the ones it had when the error came.
ReadError ==
    /\ writer = "gone" /\ reader' = "err"
    /\ UNCHANGED <<written, got, writer>>

\* The reader starts over.
Rewind ==
    /\ reader # "err" /\ got' = <<>> /\ reader' = "open"
    /\ UNCHANGED <<written, writer>>

QueueNext == Write \/ CloseWriter \/ Take \/ ReadEof \/ ReadError \/ Rewind

QueueSpec == QueueInit /\ [][QueueNext]_queueVars
=============================================================================
