----------------------------- MODULE StoreDriver -----------------------------
(***************************************************************************)
(* What every store gets from its trait (nativelink-util/src/              *)
(* store_trait.rs): an upload of bytes or of a file, a read into memory,   *)
(* and the health check built from them, which the health service          *)
(* (health_utils.rs, health_server.rs) makes for one store after another.  *)
(*                                                                         *)
(* Each call joins two futures over a buffer channel, and what one does    *)
(* when the other fails is the point.  The store below is external: its    *)
(* update() takes the stream to its end and then commits, its get_part()   *)
(* sends what it held when it began, and both may fail at any point.       *)
(***************************************************************************)
EXTENDS BufChannel, FiniteSets, FiniteSetsExt

CONSTANTS
    StoreUsers,     \* health requests, and users of the trait, at the same time
    StoreKinds,     \* the stores of the configuration, in order: their kinds
    ProbeBytes,     \* the bytes of a health check, the same for every check
    FileBytes,      \* the contents of a file that is uploaded
    DriverPieces,   \* sizes of the chunks of a file or of get_part()
    DriverRanges,   \* <<offset, {length}>> of reads into memory
    DriverFaults    \* failures and evictions in one behaviour

VARIABLES
    inStore,        \* store, object |-> {} or {bytes}
    duty,           \* caller |-> what it is doing
    join,           \* caller |-> its two futures and their channel
    upset           \* ghost: faults so far

driverVars == <<inStore, duty, join, upset>>

\* register_health(): only these kinds enter themselves.
Registering == {"redis", "filesystem"}

\* store_factory() registers the stores named in the configuration, not the ones
\* inside them; build() takes the indicators in the order of its map.
Indicators == {s \in DOMAIN StoreKinds : StoreKinds[s] \in Registering}

\* The bytes of a health check are drawn from the store's name, so that its checks
\* share one object; a file is another one.
Objects == (DOMAIN StoreKinds) \X {"probe", "file"}

NoJoin == [dir |-> "none", ch |-> MakeBufChannelPair(0), rest |-> <<>>, got |-> <<>>,
           want |-> {}, w |-> "off", r |-> "off", open |-> FALSE]

\* A health request goes through the indicators; another user makes one call.
NoDuty == [job |-> "none", pc |-> "none", object |-> <<>>, left |-> {}, failed |-> {}, since |-> 0,
           saw |-> {}, range |-> <<>>]

DriverInit ==
    /\ inStore = [o \in Objects |-> {}]
    /\ duty = [c \in StoreUsers |-> NoDuty]
    /\ join = [c \in StoreUsers |-> NoJoin]
    /\ upset = 0

\* update_oneshot() and slow_update_store_with_file(): the caller's future writes,
\* the store's reads.
UploadOf(bytes, file) ==
    [NoJoin EXCEPT !.dir = IF file THEN "file" ELSE "oneshot", !.rest = bytes, !.w = "send",
                   !.r = "first", !.open = file]

\* The bytes of a range; no length means all.
RangeOf(bytes, range) ==
    LET last == IF range[2] = {} THEN Len(bytes) ELSE Min({range[1] + CHOOSE n \in range[2] : TRUE, Len(bytes)})
    IN  SubSeq(bytes, range[1] + 1, last)

\* get_part_unchunked(): the store's future writes, consume() reads.
Read(o, range) ==
    [NoJoin EXCEPT !.dir = "down", !.want = range[2], !.r = "first",
                   !.w = IF inStore[o] = {} THEN "missing" ELSE "send",
                   !.rest = FoldSet(LAMBDA bytes, none : RangeOf(bytes, range), <<>>, inStore[o])]

-----------------------------------------------------------------------------
(* The two futures of a call.                                               *)

Unfinished(c, f) == join[c].dir # "none" /\ join[c][f] \notin {"ok", "err", "off"}

\* A chunk: all the bytes of update_oneshot(), a read of a file, a part of a store.
Pieces(c) == IF join[c].dir = "oneshot" THEN {Len(join[c].rest)}
             ELSE {n \in DriverPieces : n <= Len(join[c].rest)}

WriterSends(c) ==
    /\ Unfinished(c, "w") /\ join[c].w = "send" /\ join[c].rest # <<>> /\ CanSend(join[c].ch)
    /\ \E n \in Pieces(c) :
         join' = [join EXCEPT ![c].ch = SendTo(@, SubSeq(join[c].rest, 1, n)),
                              ![c].rest = SubSeq(@, n + 1, Len(@)),
                              ![c].w = IF join[c].ch.rx THEN "send" ELSE "err"]
    /\ UNCHANGED <<inStore, duty, upset>>

\* Nothing is sent for no bytes: an empty chunk would be an error.
WriterFinishes(c) ==
    /\ Unfinished(c, "w") /\ join[c].w = "send" /\ join[c].rest = <<>>
    /\ join' = [join EXCEPT ![c].ch = SendEof(@), ![c].w = "ok"]
    /\ UNCHANGED <<inStore, duty, upset>>

\* Mutant: the end is sent on the way out, error or not.
BreakOffWithEof(ch) == SendEof(ch)

\* The future ends with its error, and its half of the channel is dropped.
BreakOff(ch) == DropTx(ch)

\* get_part() of a missing object, and a file or a store that fails to read.
WriterFails(c) ==
    /\ Unfinished(c, "w") /\ join[c].dir # "oneshot"
    /\ \/ join[c].w = "missing" /\ UNCHANGED upset
       \/ upset < DriverFaults /\ upset' = upset + 1
    /\ join' = [join EXCEPT ![c].ch = BreakOff(@), ![c].w = "err"]
    /\ UNCHANGED <<inStore, duty>>

\* update() of the store: it commits what it received when the stream has ended.
UpdateTakes(c) ==
    /\ Unfinished(c, "r") /\ join[c].dir # "down" /\ Ready(join[c].ch)
    /\ LET take == Recv(join[c].ch) IN
       IF take.ok /\ take.chunk # Eof
       THEN /\ join' = [join EXCEPT ![c].ch = take.ch, ![c].got = @ \o take.chunk]
            /\ UNCHANGED inStore
       ELSE /\ join' = [join EXCEPT ![c].ch = DropRx(take.ch), ![c].r = IF take.ok THEN "ok" ELSE "err"]
            /\ inStore' = IF take.ok THEN [inStore EXCEPT ![duty[c].object] = {join[c].got}] ELSE inStore
    /\ UNCHANGED <<duty, upset>>

DriverUpdateFails(c) ==
    /\ Unfinished(c, "r") /\ join[c].dir # "down"
    /\ upset < DriverFaults /\ upset' = upset + 1
    /\ join' = [join EXCEPT ![c].ch = DropRx(@), ![c].r = "err"]
    /\ UNCHANGED <<inStore, duty>>

\* Mutant: one chunk is enough.
EnoughAny(c, n) == TRUE

Enough(c, n) == n \in join[c].want

\* consume(): the first chunk, a look ahead, then chunks until there are enough
\* bytes or the stream ends; what is too much goes back.
ConsumeTakes(c) ==
    /\ Unfinished(c, "r") /\ join[c].dir = "down" /\ join[c].r # "peek" /\ Ready(join[c].ch)
    /\ LET take == Recv(join[c].ch)
           all  == join[c].got \o take.chunk
           over == {n \in join[c].want : n < Len(all)}
           size == IF over = {} THEN Len(all) ELSE CHOOSE n \in over : TRUE
       IN  join' = [join EXCEPT
             ![c].ch = IF over = {} THEN take.ch ELSE PushFront(take.ch, SubSeq(all, size + 1, Len(all))),
             ![c].got = SubSeq(all, 1, size),
             ![c].r = IF ~take.ok THEN "err"
                      ELSE IF take.chunk = Eof \/ over # {} THEN "ok"
                      ELSE IF @ = "first" THEN "peek"
                      ELSE IF Enough(c, size) THEN "ok" ELSE @]
    /\ UNCHANGED <<inStore, duty, upset>>

ConsumePeeks(c) ==
    /\ Unfinished(c, "r") /\ join[c].r = "peek" /\ Ready(join[c].ch)
    /\ LET take == Peek1(join[c].ch) IN
       join' = [join EXCEPT ![c].ch = take.ch,
                            ![c].r = IF ~take.ok THEN "err"
                                     ELSE IF take.chunk = Eof \/ Enough(c, Len(join[c].got)) THEN "ok"
                                     ELSE "more"]
    /\ UNCHANGED <<inStore, duty, upset>>

\* The file is read to its end and the store is slow: it is closed meanwhile.
IdleFile(c) ==
    /\ join[c].dir = "file" /\ join[c].open
    /\ join[c].w \in {"ok", "err"} /\ Unfinished(c, "r")
    /\ join' = [join EXCEPT ![c].open = FALSE]
    /\ UNCHANGED <<inStore, duty, upset>>

-----------------------------------------------------------------------------
(* How the two results become one.                                          *)

Both(c) == {join[c].w, join[c].r}

Ended == {"ok", "err"}

\* Mutant: the caller's own future ends the call.
SettledEarly(c) == join[c].w \in Ended

\* try_join! ends with the first error and drops the other future; select(), which
\* goes on with the other one, and join! wait for both.
Settled(c) == Both(c) \subseteq Ended \/ (join[c].dir = "oneshot" /\ "err" \in Both(c))

\* merge(): both have to be right.
Good(c) == Both(c) = {"ok"}

-----------------------------------------------------------------------------
(* The callers.                                                             *)

Use(job, o) == [NoDuty EXCEPT !.job = job, !.pc = job, !.object = o, !.since = upset, !.saw = inStore[o]]

\* Another user of a store: update_with_whole_file() of a store that has no way of
\* its own, or a read into memory.
UserCalls(c) ==
    /\ duty[c] = NoDuty
    /\ \E s \in DOMAIN StoreKinds : LET o == <<s, "file">> IN
         \/ /\ duty' = [duty EXCEPT ![c] = Use("file", o)]
            /\ join' = [join EXCEPT ![c] = UploadOf(FileBytes, TRUE)]
         \/ \E range \in DriverRanges :
              /\ duty' = [duty EXCEPT ![c] = [Use("read", o) EXCEPT !.range = range]]
              /\ join' = [join EXCEPT ![c] = Read(o, range)]
    /\ UNCHANGED <<inStore, upset>>

UserReturns(c) ==
    /\ duty[c].pc \in {"file", "read"} /\ Settled(c)
    /\ duty' = [duty EXCEPT ![c].pc = "done", ![c].failed = IF Good(c) THEN {} ELSE {duty[c].object}]
    /\ UNCHANGED <<inStore, join, upset>>

\* HealthServer::call()
HealthCall(c) ==
    /\ duty[c] = NoDuty /\ Indicators # {}
    /\ duty' = [duty EXCEPT ![c] = [NoDuty EXCEPT !.job = "health", !.pc = "next", !.left = Indicators,
                                                !.since = upset]]
    /\ UNCHANGED <<inStore, join, upset>>

\* health_status_report(): the next indicator; check_health() uploads first.
NextIndicator(c) ==
    /\ duty[c].pc = "next" /\ duty[c].left # {}
    /\ \E s \in duty[c].left :
         duty' = [duty EXCEPT ![c].left = @ \ {s}, ![c].object = <<s, "probe">>, ![c].pc = "update"]
    /\ join' = [join EXCEPT ![c] = UploadOf(ProbeBytes, FALSE)]
    /\ UNCHANGED <<inStore, upset>>

Reported(c, ok) == IF ok THEN duty[c].failed ELSE duty[c].failed \cup {duty[c].object}

CheckUpdate(c) ==
    /\ duty[c].pc = "update" /\ Settled(c)
    /\ duty' = [duty EXCEPT ![c].pc = IF Good(c) THEN "has" ELSE "next", ![c].failed = Reported(c, Good(c))]
    /\ join' = [join EXCEPT ![c] = NoJoin]
    /\ UNCHANGED <<inStore, upset>>

\* has() may fail, find nothing, or find another size.
CheckHas(c) ==
    /\ duty[c].pc = "has"
    /\ \E ok \in {\E bytes \in inStore[duty[c].object] : Len(bytes) = Len(ProbeBytes), FALSE} :
         /\ ok \/ inStore[duty[c].object] = {} \/ upset < DriverFaults
         /\ upset' = IF ok \/ inStore[duty[c].object] = {} THEN upset ELSE upset + 1
         /\ duty' = [duty EXCEPT ![c].pc = IF ok THEN "get" ELSE "next", ![c].failed = Reported(c, ok)]
         /\ join' = [join EXCEPT ![c] = IF ok THEN Read(duty[c].object, <<0, {Len(ProbeBytes)}>>) ELSE NoJoin]
    /\ UNCHANGED inStore

CheckGet(c) ==
    /\ duty[c].pc = "get" /\ Settled(c)
    /\ duty' = [duty EXCEPT ![c].pc = "next", ![c].failed = Reported(c, Good(c) /\ join[c].got = ProbeBytes)]
    /\ join' = [join EXCEPT ![c] = NoJoin]
    /\ UNCHANGED <<inStore, upset>>

\* The answer is 503 when any indicator failed, 200 otherwise.
HealthAnswer(c) ==
    /\ duty[c].pc = "next" /\ duty[c].left = {}
    /\ duty' = [duty EXCEPT ![c].pc = "done"]
    /\ UNCHANGED <<inStore, join, upset>>

\* External: the store forgets an object.
ForgetObject(o) ==
    /\ inStore[o] # {} /\ upset < DriverFaults
    /\ upset' = upset + 1
    /\ inStore' = [inStore EXCEPT ![o] = {}]
    /\ UNCHANGED <<duty, join>>

DriverStep(c) ==
    \/ WriterSends(c) \/ WriterFinishes(c) \/ WriterFails(c)
    \/ UpdateTakes(c) \/ DriverUpdateFails(c) \/ ConsumeTakes(c) \/ ConsumePeeks(c) \/ IdleFile(c)
    \/ UserReturns(c) \/ NextIndicator(c) \/ CheckUpdate(c) \/ CheckHas(c) \/ CheckGet(c) \/ HealthAnswer(c)

DriverNext ==
    \/ \E c \in StoreUsers : UserCalls(c) \/ HealthCall(c) \/ DriverStep(c)
    \/ \E o \in Objects : ForgetObject(o)

DriverSpec == DriverInit /\ [][DriverNext]_driverVars

-----------------------------------------------------------------------------
\* Whatever fails on either side of the channel, a store never commits a part of
\* what the caller meant to upload: a future that fails leaves no end of stream.
NeverTruncated ==
    \A o \in Objects : inStore[o] \subseteq {IF o[2] = "probe" THEN ProbeBytes ELSE FileBytes}

\* A call fails, and a store is called unhealthy, only for a cause: something
\* failed or was forgotten since the call began, or was never there.
FailureHadCause ==
    \A c \in StoreUsers :
        duty[c].failed # {} => upset > duty[c].since \/ (duty[c].job = "read" /\ duty[c].saw = {})

\* A read into memory that succeeds returns the bytes of the range it was asked
\* for, however the store cut them into chunks.
UnchunkedIsRange ==
    \A c \in StoreUsers :
        duty[c].job = "read" /\ duty[c].pc = "done" /\ duty[c].failed = {} =>
            \E bytes \in duty[c].saw : join[c].got = RangeOf(bytes, duty[c].range)

\* Every caller has its answer.
DriverEnded == \A c \in StoreUsers : duty[c].pc = "done"
=============================================================================
