------------------------------ MODULE MCProgress ------------------------------
(***************************************************************************)
(* What must eventually happen, part by part, on instances small enough    *)
(* for TLC's liveness checking.  `part` says which part a behaviour is     *)
(* about; the others stay in one initial state.  Since only one part       *)
(* moves, the fair tasks of different parts share a fairness condition:    *)
(* weak fairness of Task(n) is weak fairness of the n-th task of the part  *)
(* the behaviour is about.                                                 *)
(***************************************************************************)
EXTENDS LocalWorker, FilesystemStore, S3Store, ByteStreamServer, ConnectionManager,
        GrpcStore, StoreAwaitedActionDb, NativelinkMain, CheckingStores,
        RelaySchedulers, FileSlots, StoreDriver

VARIABLE part

MCParts == {"worker", "filesystem", "s3", "bytestream", "connections", "grpc_store",
            "shared_db", "process", "completeness", "cache_lookup", "grpc_scheduler",
            "files", "verify", "driver"}

(***************************************************************************)
(* Instances                                                               *)
(***************************************************************************)
MCStrategies == {<<"success_only", "failures_only">>}
MCEntrySize == [e \in Entries |-> e]
MCFsPolicy == EvictionPolicy(3, 1, 0, 0)
MCRetry == [max_retries |-> 1, delay |-> 1, retry_on_errors |-> {}]
MCLengths == {{}, {1}}
MCOperations == {<<"id", 1>>}
MCTreeFiles == [d \in {"t"} |-> {"g"}]
MCActionResults == {[files |-> {"f"}, trees |-> {}]}
MCKeyOf == [r \in Requests |-> "k"]
MCRanges == {<<0, 9>>}
MCContent == <<1>>
MCUploadChunks == {<<1>>}
MCStoreKinds == <<"filesystem">>
MCDriverBytes == <<1, 2>>
MCDriverRanges == {<<0, {}>>, <<0, {1}>>}

(***************************************************************************)
(* Composition                                                             *)
(***************************************************************************)
\* A part's free initial values range over their set only where it is chosen.
Rests(p, rest) == part = p \/ rest

Init ==
    /\ part \in MCParts
    /\ WorkerInit /\ FsInit /\ CmInit /\ SharedInit /\ MainInit
    /\ S3Init /\ Rests("s3", s3 = Call("put"))
    /\ BsInit /\ Rests("bytestream", read = NoRead)
    /\ GrpcInit /\ Rests("grpc_store", gcall = NewCall("write", "cas") /\ rd.limit = 0)
    /\ CcInit /\ Rests("completeness", cas = {} /\ \A k \in AcKeys : ac[k] = {})
    /\ ClInit /\ Rests("cache_lookup", cached = {})
    /\ GsInit /\ Rests("grpc_scheduler", gs.op = "execute" /\ props = {})
    /\ SlotsInit /\ DriverInit
    /\ VerifyInit /\ Rests("verify", checks.size /\ checks.hash /\ claimed = NoSize)

Only(p) ==
    /\ part = p
    /\ UNCHANGED part
    /\ p # "worker" => UNCHANGED workerVars
    /\ p # "filesystem" => UNCHANGED fsVars
    /\ p # "s3" => UNCHANGED s3Vars
    /\ p # "bytestream" => UNCHANGED bsVars
    /\ p # "connections" => UNCHANGED cmVars
    /\ p # "grpc_store" => UNCHANGED grpcVars
    /\ p # "shared_db" => UNCHANGED storeVars
    /\ p # "process" => UNCHANGED mainVars
    /\ p # "completeness" => UNCHANGED ccVars
    /\ p # "cache_lookup" => UNCHANGED clVars
    /\ p # "grpc_scheduler" => UNCHANGED gsVars
    /\ p # "files" => UNCHANGED slotVars
    /\ p # "verify" => UNCHANGED verifyVars
    /\ p # "driver" => UNCHANGED driverVars

Next ==
    \/ Only("worker") /\ WorkerNext
    \/ Only("filesystem") /\ FsNext
    \/ Only("s3") /\ S3Next
    \/ Only("bytestream") /\ BsNext
    \/ Only("connections") /\ CmNext
    \/ Only("grpc_store") /\ GrpcNext
    \/ Only("shared_db") /\ SharedNext
    \/ Only("process") /\ MainNext
    \/ Only("completeness") /\ CcNext
    \/ Only("cache_lookup") /\ ClNext
    \/ Only("grpc_scheduler") /\ GsNext
    \/ Only("files") /\ SlotsNext
    \/ Only("verify") /\ VerifyNext
    \/ Only("driver") /\ DriverNext

allVars == <<part, workerVars, fsVars, s3Vars, bsVars, cmVars, grpcVars, storeVars, mainVars,
             ccVars, clVars, gsVars, slotVars, verifyVars, driverVars>>

(***************************************************************************)
(* Fairness                                                                *)
(***************************************************************************)
\* Tokio polls every task that can go on; Process(i) is the i-th of several
\* tasks of one kind.
Process(i) ==
    \/ Only("worker") /\ i \in Tasks /\ LocalStep(i)
    \/ /\ Only("filesystem") /\ i \in FsProcs
       /\ \/ UpdateFile(i) \/ EmplaceLock(i) \/ Unref(i) \/ EmplaceRename(i)
          \/ Missing(i) \/ TouchFile(i)
    \/ Only("connections") /\ i \in Requesters /\ DropConnection(i)
    \/ Only("shared_db") /\ i \in SharedClients /\ ClientStep(i)
    \/ Only("process") /\ i \in Locals /\ (Receive(i) \/ WorkerStops(i))
    \/ Only("cache_lookup") /\ i \in Requests /\ LookupStep(i)
    \/ Only("files") /\ i \in Copies /\ CopyStep(i)
    \/ Only("driver") /\ i \in StoreUsers /\ (UserCalls(i) \/ HealthCall(i) \/ DriverStep(i))

Task1 ==
    \/ Only("worker") /\ (DrainTransit \/ KillAll \/ Killed)
    \/ Only("s3") /\ S3Next
    \/ Only("bytestream") /\ TimerFires
    \/ Only("connections") /\ HandleWorker
    \/ Only("grpc_store") /\ GrpcNext
    \/ Only("shared_db") /\ \E o \in Operations : DeliverNotice(o)
    \/ Only("process") /\ (MainWaits \/ MainExits)
    \/ Only("completeness") /\ CallStep
    \/ Only("grpc_scheduler") /\ StreamState
    \/ Only("files") /\ GrantPermit
    \/ Only("verify") /\ CallerEnds

Task2 ==
    \/ Only("bytestream") /\ TimerRemoves
    \/ Only("connections") /\ HandleConnection
    \/ Only("shared_db") /\ (FlagAll \/ Resubscribe)
    \/ Only("process") /\ HandleBatch
    \/ Only("grpc_scheduler") /\ CopyState
    \/ Only("verify") /\ (StartUpdate \/ CheckRecv \/ CheckPeek \/ CheckPass)

Task3 ==
    \/ /\ Only("connections")
       /\ \E id \in connecting : HandleConnected(id) /\ connecting' # connecting
    \/ Only("shared_db") /\ MatchStart
    \/ Only("process") /\ PublisherWaits
    \/ Only("grpc_scheduler") /\ ClientChanged
    \/ Only("verify") /\ InnerRecv

Task4 ==
    \/ Only("shared_db") /\ (Borrow(Matcher) \/ UpdateAwaitedAction(Matcher) \/ PublishUpdate(Matcher))
    \/ Only("grpc_scheduler") /\ UpstreamAdvances

Task5 ==
    \/ Only("shared_db") /\ (Borrow(Finisher) \/ UpdateAwaitedAction(Finisher) \/ PublishUpdate(Finisher))
    \/ Only("grpc_scheduler") /\ UpstreamSends

\* A select! picks a branch that is ready again and again, and a conditional
\* update that is retried without interference succeeds.
Choice1 ==
    \/ Only("shared_db") /\ \E c \in SharedClients : SelectChanged(c)
    \/ Only("process") /\ PublisherReceives

Choice2 ==
    \/ /\ Only("shared_db")
       /\ UpdateAwaitedAction(Matcher) /\ VersionMatches(sched[Matcher].op, Matcher)
    \/ Only("process") /\ PublisherEnds

Choice3 ==
    /\ Only("shared_db")
    /\ UpdateAwaitedAction(Finisher) /\ VersionMatches(sched[Finisher].op, Finisher)

Spec ==
    /\ Init /\ [][Next]_allVars
    /\ \A i \in 1..2 : WF_allVars(Process(i))
    /\ WF_allVars(Task1) /\ WF_allVars(Task2) /\ WF_allVars(Task3)
    /\ WF_allVars(Task4) /\ WF_allVars(Task5)
    /\ SF_allVars(Choice1) /\ SF_allVars(Choice2) /\ SF_allVars(Choice3)

-----------------------------------------------------------------------------
(***************************************************************************)
(* Only one part moves, so that "waits leads to done" of different parts   *)
(* can share one formula.  Requests and requesters are interchangeable: in *)
(* Init, in Next and in the fairness of Process(i).  The formula is about  *)
(* number 1, and so about each of them.                                    *)
(***************************************************************************)
CallWaits ==
    \/ part \in {"s3", "grpc_store", "files", "verify", "driver"}
    \/ part = "completeness" /\ ccCall.pc = "check"
    \/ part = "grpc_scheduler" /\ gs.st = "listen"
    \/ part = "filesystem" /\ mutex # NoOne
    \/ part = "cache_lookup" /\ answer[1] = "waiting"
    \/ part = "connections" /\ user[1].st = "waits"

CallDone ==
    \/ part = "s3" /\ S3Ended
    \/ part = "grpc_store" /\ GrpcEnded
    \/ part = "files" /\ CopiesEnded
    \/ part = "verify" /\ UploadEnded
    \/ part = "driver" /\ DriverEnded
    \/ part = "completeness" /\ ccCall.pc \in {"returned", "error"}
    \/ part = "grpc_scheduler" /\ gs.st \in {"ended", "dropped"}
    \/ part = "filesystem" /\ mutex = NoOne
    \/ part = "cache_lookup" /\ answer[1] # "waiting"
    \/ part = "connections" /\ user[1].st # "waits"

(* Every call comes to its end.  A call of the S3 store: no retry goes on for    *)
(* ever and no two of its futures wait for each other.  A call of the gRPC       *)
(* store, which resumes after a break.  An upload through the verifying store,   *)
(* whose two futures join!() waits for.  A call of the trait's own methods, with *)
(* two futures over one channel.  Copies that share the file permits: an end     *)
(* that waits for the other gives up its permit, since "failing to do so might   *)
(* cause deadlocks if the receiver is unable to receive data because it is       *)
(* waiting for a file descriptor to open" (filesystem_store.rs:1023).  A         *)
(* completeness check: the last notification reaches the checker, whatever was   *)
(* queued between its last look and the flag.  A client that listens to an       *)
(* upstream scheduler.  The holder of the filesystem store's mutex: it waits for *)
(* no path lock that is only released by someone who needs the mutex.  A request *)
(* that joins a lookup when it is resolved.  A request that waits for a          *)
(* connection.                                                                   *)
CallsReturn == CallWaits ~> CallDone

(* Nobody waits for a change that has happened: clients and the matching engine  *)
(* learn of it although messages of the shared store are lost.                   *)
ChangesAreLearned == ClientLearns /\ WaitedIsMatched

Lingers ==
    \/ part = "worker" /\ conn = "draining"
    \/ part = "bytestream" /\ uploads.idle # 0
    \/ part = "process" /\ phase[Main] = "sent"

Left ==
    \/ part = "worker" /\ conn \in {"connecting", "ended"}
    \/ part = "bytestream" /\ uploads.idle = 0
    \/ part = "process" /\ phase[Main] = "exited"

(* What runs in the background ends by itself.  Every action that a worker       *)
(* started is over at last; a worker that lost its scheduler connects again or   *)
(* gives up; an upload nobody comes back for leaves active_uploads, and its UUID *)
(* can be used again; the process ends after SIGTERM when its workers did.       *)
BackgroundEnds ==
    /\ \A i \in Tasks : At(i, "precondition") ~> At(i, "over")
    /\ Lingers ~> Left
=============================================================================
