--------------------- MODULE SimpleSchedulerStateManager ---------------------
(***************************************************************************)
(* nativelink-scheduler/src/simple_scheduler_state_manager.rs over the     *)
(* in-memory database.                                                     *)
(*                                                                         *)
(* The state manager has no lock of its own around an update.  It reads    *)
(* the record of the operation, computes a new one and hands it to the     *)
(* database, which refuses it when the version has moved on; the update is *)
(* then tried again from the read.  A call therefore takes several atomic  *)
(* steps, and the calls of different tasks interleave between them: the    *)
(* matching engine, the worker API, the keep-alive task, every client that *)
(* waits on `changed` and every listing of operations.  A member of        *)
(* Callers is such a task; what each task calls, and when, is left open    *)
(* here and fixed by the module SimpleScheduler.                           *)
(***************************************************************************)
EXTENDS AwaitedActionDb

CONSTANTS
    Callers,            \* tasks that call the state manager
    MaxJobRetries,      \* max_job_retries
    MaxUpdateRetries,   \* MAX_UPDATE_RETRIES
    MaxVersion          \* bound on the updates of one operation

ASSUME StateManagerAssumption ==
    /\ MaxJobRetries \in Nat
    /\ MaxUpdateRetries \in Nat \ {0}
    /\ MaxVersion \in Nat

VARIABLES
    call,       \* caller -> its call in progress
    lapsed      \* operations whose last_client_keepalive_timestamp is
                \*   more than client_action_timeout ago

vars == <<dbVars, call, lapsed>>

-----------------------------------------------------------------------------
(* UpdateOperationType: KeepAlive; UpdateWithActionStage, which is Executing *)
(* from assign_operation and a finished stage from a worker; UpdateWithError *)
(* with the code ResourceExhausted (back pressure) or any other code.        *)
WorkerUpdates == {"KeepAlive", "Completed", "Error", "Backpressure"}
Updates == WorkerUpdates \cup {"Executing"}

(* Where a call is: about to read, about to write what it computed, waiting  *)
(* for timeout_operation_mux, about to write the client timeout, or returned. *)
Pcs == {"idle", "read", "commit", "timeout", "filter", "done"}

Call == [pc : Pcs, op : Operations \cup {NoOperation},
         worker : Workers \cup {NoWorker}, update : Updates,
         tries : Nat, snap : AwaitedAction,
         result : {"none", "Ok", "Aborted", "Internal", "NotFound"}]

NoCall == [pc |-> "idle", op |-> NoOperation, worker |-> NoWorker,
           update |-> "KeepAlive", tries |-> 0,
           snap |-> NewAwaitedAction(NoKey), result |-> "none"]

Returned(r) == [NoCall EXCEPT !.pc = "done", !.result = r]

Init ==
    /\ DbInit
    /\ call = [a \in Callers |-> NoCall]
    /\ lapsed = {}

-----------------------------------------------------------------------------
(* inner_update_operation                                                  *)

\* The entry of update_operation (from a worker) and of assign_operation.
StartUpdate(a, op, w, u) ==
    /\ call[a].pc = "idle"
    /\ call' = [call EXCEPT ![a] = [NoCall EXCEPT !.pc = "read", !.op = op,
                                                  !.worker = w, !.update = u]]
    /\ UNCHANGED <<dbVars, lapsed>>

\* Mutant: any worker may update any action.
NoWorkerCheck(c, a) == FALSE

\* Another worker than the one that sends the update owns the action.
WorkerMismatch(c, a) ==
    /\ a.worker # NoWorker
    /\ c.worker # NoWorker
    /\ a.worker # c.worker

\* The read of the loop body and its early returns.
ReadOperation(a) ==
    LET c == call[a]
        found == awaited[c.op] IN
    /\ c.pc = "read"
    /\ call' = [call EXCEPT ![a] =
                  IF c.op \notin known THEN Returned("Ok")
                  ELSE IF WorkerMismatch(c, found) THEN Returned("Aborted")
                  ELSE IF IsFinished(found) THEN Returned("Internal")
                  ELSE [c EXCEPT !.pc = "commit", !.snap = found]]
    /\ UNCHANGED <<dbVars, lapsed>>

\* Mutant: the worker id stays when the action is queued again.
WithErrorKeepsWorker(snap, w, u) ==
    LET attempts == snap.attempts + (IF u = "Error" THEN 1 ELSE 0) IN
    [snap EXCEPT !.attempts = attempts,
                 !.stage = IF attempts > MaxJobRetries THEN "Completed" ELSE "Queued",
                 !.worker = w,
                 !.result = IF attempts > MaxJobRetries THEN "too_many_attempts" ELSE @]

\* Mutant: one attempt too few.
WithErrorOffByOne(snap, w, u) ==
    LET attempts == snap.attempts + (IF u = "Error" THEN 1 ELSE 0) IN
    IF attempts >= MaxJobRetries
    THEN [snap EXCEPT !.attempts = attempts, !.stage = "Completed",
                      !.worker = w, !.result = "too_many_attempts"]
    ELSE [snap EXCEPT !.attempts = attempts, !.stage = "Queued",
                      !.worker = NoWorker]

\* An error sends the action back to the queue until the retries are used up.
\* Back pressure is not counted as an attempt.
WithError(snap, w, u) ==
    LET attempts == snap.attempts + (IF u = "Error" THEN 1 ELSE 0) IN
    IF attempts > MaxJobRetries
    THEN [snap EXCEPT !.attempts = attempts, !.stage = "Completed",
                      !.worker = w, !.result = "too_many_attempts"]
    ELSE [snap EXCEPT !.attempts = attempts, !.stage = "Queued",
                      !.worker = NoWorker]

\* The record that the call writes.
Updated(snap, w, u) ==
    CASE u = "KeepAlive" -> snap
      [] u = "Executing" -> [snap EXCEPT !.stage = "Executing", !.worker = w]
      [] u = "Completed" -> [snap EXCEPT !.stage = "Completed", !.worker = w,
                                         !.result = "worker"]
      [] u \in {"Error", "Backpressure"} -> WithError(snap, w, u)

\* The write succeeds.
CommitOperation(a) ==
    LET c == call[a] IN
    /\ c.pc = "commit"
    /\ UpdateAwaitedAction(c.op, Updated(c.snap, c.worker, c.update))
    /\ call' = [call EXCEPT ![a] = Returned("Ok")]
    /\ UNCHANGED lapsed

\* The write fails.  Only Aborted is tried again, and never for a keep-alive.
CommitFails(a) ==
    LET c == call[a]
        r == UpdateResult(c.op, Updated(c.snap, c.worker, c.update)) IN
    /\ c.pc = "commit"
    /\ r # "Ok"
    /\ call' = [call EXCEPT ![a] =
                  IF /\ r = "Aborted"
                     /\ c.update # "KeepAlive"
                     /\ c.tries + 1 < MaxUpdateRetries
                  THEN [c EXCEPT !.pc = "read", !.tries = @ + 1,
                                 !.snap = NoCall.snap]
                  ELSE Returned(r)]
    /\ UNCHANGED <<dbVars, lapsed>>

-----------------------------------------------------------------------------
(* timeout_operation_id, called by `changed` when a client has seen no     *)
(* event for no_event_action_timeout and the action it last saw is not     *)
(* queued.                                                                 *)

StartTimeout(a, op) ==
    /\ call[a].pc = "idle"
    /\ awaited[op].stage # "Queued"
    /\ call' = [call EXCEPT ![a] = [NoCall EXCEPT !.pc = "timeout", !.op = op]]
    /\ UNCHANGED <<dbVars, lapsed>>

\* timeout_operation_mux is held from the check to the return.  Only a
\* timeout updates an operation on behalf of no worker.
MuxHeld == \E b \in Callers : /\ call[b].pc \in {"read", "commit"}
                              /\ call[b].worker = NoWorker

\* Mutant: the last guard of the check always returns early.
TimeoutIgnored(a) ==
    /\ call[a].pc = "timeout"
    /\ ~MuxHeld
    /\ call' = [call EXCEPT ![a] = Returned("Ok")]
    /\ UNCHANGED <<dbVars, lapsed>>

\* The check under the mutex.  Its last guard compares a time since the Unix
\* epoch with now_fn().elapsed(), a duration that is about zero, so it never
\* returns early; it is left out.
TimeoutOperationId(a) ==
    LET c == call[a] IN
    /\ c.pc = "timeout"
    /\ ~MuxHeld
    /\ call' = [call EXCEPT ![a] =
                  IF c.op \notin known THEN Returned("NotFound")
                  ELSE IF awaited[c.op].stage # "Executing" THEN Returned("Ok")
                  ELSE [c EXCEPT !.pc = "read", !.update = "Error"]]
    /\ UNCHANGED <<dbVars, lapsed>>

-----------------------------------------------------------------------------
(* apply_filter_predicate, run on every operation that a listing meets.    *)

\* Time passes.  The in-memory database sets last_client_keepalive_timestamp
\* when the action is created and never again.
ClientKeepaliveLapses(op) ==
    /\ op \in used \ lapsed
    /\ lapsed' = lapsed \cup {op}
    /\ UNCHANGED <<dbVars, call>>

\* The predicate finds an unfinished action whose client keep-alive lapsed.
FilterReadsLapsed(a, op) ==
    /\ call[a].pc = "idle"
    /\ op \in lapsed
    /\ ~IsFinished(awaited[op])
    /\ call' = [call EXCEPT ![a] = [NoCall EXCEPT !.pc = "filter", !.op = op,
                                                  !.snap = awaited[op]]]
    /\ UNCHANGED <<dbVars, lapsed>>

\* What it writes: the worker id stays.
TimedOut(snap) == [snap EXCEPT !.stage = "Completed", !.result = "no_clients"]

\* The write; when it fails there is a warning and nothing else.
FilterCommits(a) ==
    LET c == call[a] IN
    /\ c.pc = "filter"
    /\ IF UpdateResult(c.op, TimedOut(c.snap)) = "Ok"
       THEN UpdateAwaitedAction(c.op, TimedOut(c.snap))
       ELSE UNCHANGED dbVars
    /\ call' = [call EXCEPT ![a] = Returned("Ok")]
    /\ UNCHANGED lapsed

-----------------------------------------------------------------------------
\* The caller takes the result, or drops the future before it is ready, which
\* ends the call wherever it is and releases the mutex.
Finish(a) ==
    /\ call[a].pc # "idle"
    /\ call' = [call EXCEPT ![a] = NoCall]
    /\ UNCHANGED <<dbVars, lapsed>>

\* Steps of a call in progress.
CallStep(a) ==
    \/ ReadOperation(a)
    \/ CommitOperation(a)
    \/ CommitFails(a)
    \/ TimeoutOperationId(a)
    \/ FilterCommits(a)

\* A task makes a call for an operation that was created at some time.
Begin(a) ==
    \E op \in used :
        \/ \E w \in Workers, u \in Updates : StartUpdate(a, op, w, u)
        \/ StartTimeout(a, op)
        \/ FilterReadsLapsed(a, op)

\* Steps of the database and of its clients.
DbStep ==
    /\ \/ \E c \in Clients, k \in Keys \cup {NoKey} : AddAction(c, k)
       \/ \E c \in Clients : \/ ClientDroppedOperation(c)
                             \/ ClientKeepAlive(c)
                             \/ ClientEntryExpires(c)
       \/ GetAwaitedActionById
    /\ UNCHANGED <<call, lapsed>>

\* Whatever the tasks call, and however often.
OpenNext ==
    \/ \E a \in Callers : Begin(a) \/ CallStep(a) \/ Finish(a)
    \/ \E op \in Operations : ClientKeepaliveLapses(op)
    \/ DbStep

OpenSpec == Init /\ [][OpenNext]_vars

\* The same within the bound: no call begins for an operation that was updated
\* MaxVersion times.
WithinVersions ==
    \A a \in Callers : call[a].pc = "idle" /\ call'[a].pc # "idle" =>
        awaited[call'[a].op].version < MaxVersion

Next == OpenNext /\ WithinVersions

Spec == Init /\ [][Next]_vars

-----------------------------------------------------------------------------
TypeOK ==
    /\ DbTypeOK
    /\ call \in [Callers -> Call]
    /\ lapsed \subseteq used

\* A copy of a record that a call holds and that still has the version of the
\* database is the record of the database: the version check of
\* update_awaited_action admits a write only on top of what was read, and
\* what was read was not finished.
SnapshotsCurrent ==
    \A a \in Callers :
        LET c == call[a] IN
        c.pc \in {"commit", "filter"} =>
            /\ c.op \in used
            /\ ~IsFinished(c.snap)
            /\ c.snap.version <= awaited[c.op].version
            /\ c.snap.version = awaited[c.op].version => c.snap = awaited[c.op]

\* The worker id is unset while an action is queued and set while it executes,
\* whatever updates of workers, timeouts and assignments interleave.
WorkerMatchesStage ==
    \A op \in used :
        /\ awaited[op].stage = "Queued" => awaited[op].worker = NoWorker
        /\ awaited[op].stage = "Executing" => awaited[op].worker \in Workers

\* An action that can still run has attempts left; no interleaving of failures
\* counts past the limit of max_job_retries.
AttemptsWithinLimit ==
    \A op \in used :
        /\ awaited[op].attempts <= MaxJobRetries + 1
        /\ awaited[op].attempts > MaxJobRetries
              <=> awaited[op].result = "too_many_attempts"

\* The answer that clients were told is final: no late update of a worker, no
\* timeout and no assignment changes an action once it is completed.
CompletedIsFinal ==
    [][\A op \in used : IsFinished(awaited[op]) => awaited'[op] = awaited[op]]_vars

\* While an action executes, only its own worker, a timeout on behalf of no
\* worker, or the client timeout changes it: an update of a worker that lost
\* the action never gets through.
OnlyOwnerUpdates ==
    [][\A op \in used :
         awaited[op].stage = "Executing" /\ awaited'[op] # awaited[op] =>
            \E a \in Callers :
                /\ call[a].op = op
                /\ \/ call[a].pc = "filter"
                   \/ /\ call[a].pc = "commit"
                      /\ call[a].worker \in {awaited[op].worker, NoWorker}]_vars

\* The operation as the module OperationLifecycle sees it.
LifeOf(op) ==
    [stage |-> IF op \in known THEN awaited[op].stage
               ELSE IF op \in used THEN "Removed" ELSE "Absent",
     owner |-> IF op \in known /\ awaited[op].stage = "Executing"
               THEN awaited[op].worker ELSE NoWorker,
     attempts |-> IF op \in known THEN awaited[op].attempts ELSE 0]

Lifecycle == INSTANCE OperationLifecycle
                 WITH life <- [op \in Operations |-> LifeOf(op)]

\* The read, write and retry of interleaved calls amount to atomic steps of
\* the abstract operation: one owner at a time, each failure counted once,
\* nothing after completion.
ImplementsLifecycle == Lifecycle!Spec

\* "Mark operations as completed with error if no client has updated them
\* within this duration" (nativelink-config/src/schedulers.rs:103): an action
\* is given up for lack of clients only when no entry of a client is alive.
GivenUpOnlyWithoutClients ==
    [][\A op \in used :
         awaited[op].result = "none" /\ awaited'[op].result = "no_clients" =>
            \A c \in mapped \ expired : clientOp[c] # op]_vars
=============================================================================
