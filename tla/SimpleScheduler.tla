--------------------------- MODULE SimpleScheduler ---------------------------
(***************************************************************************)
(* The scheduler as a whole: nativelink-scheduler/src/simple_scheduler.rs  *)
(* (the matching engine and the wiring of the parts), the clients that     *)
(* wait on `changed`, and what the scheduler sees of the worker processes. *)
(*                                                                         *)
(* The tasks and the callers they are of the state manager:                *)
(*   Match          simple_scheduler_task_worker_matching                  *)
(*   Api            whichever method holds the mutex of the worker pool    *)
(*   KeepAliveTask  simple_scheduler_operation_keep_alive                  *)
(*   each client    the stream of its Execute call, polling `changed`      *)
(***************************************************************************)
EXTENDS ApiWorkerScheduler, FiniteSetsExt

CONSTANTS
    Match,      \* caller: the matching engine
    Faults,     \* which events of the environment happen, see EnvStep
    MaxUpdates  \* bound on keep-alives, back pressure and stalls: none
                \*   happens to an operation that was updated this often

\* Operations are numbered by their sort key: a higher number is matched
\* first.  AddNewAction takes any free number, so every order is covered.  A
\* sort key has 64 bits, so there is a highest.  Each task is a caller of its own.
ASSUME SchedulerAssumption ==
    /\ Operations \subseteq Nat
    /\ \E top \in Operations : \A op \in Operations : op <= top
    /\ Match \in Callers
    /\ Clients \subseteq Callers
    /\ Match \notin {Api, KeepAliveTask}
    /\ Clients \cap {Match, Api, KeepAliveTask} = {}
    /\ Faults \subseteq {"crash", "stall", "leave", "drain", "backpressure",
                         "error", "keepalive", "lapse", "hangup", "expire",
                         "slow"}
    /\ MaxUpdates \in Nat

VARIABLES
    matcher,    \* the matching engine: [pc, todo, floor, op, worker]
    taskPermit, \* task_change_notify has a permit
    client,     \* client -> "new", "listening", "due" (its timer fired),
                \*   "answered", "failed" or "gone"
    seen,       \* client -> version its watch receiver has seen, -1 for none
    jobs,       \* worker -> actions its process runs
    replies,    \* ExecuteResults on their way to the scheduler
    silent,     \* workers that send nothing at the moment
    dispatched  \* operation -> times it was assigned to a worker (history)

schedVars == <<matcher, taskPermit, client, seen, jobs, replies, silent, dispatched>>
allVars == <<vars, poolVars, schedVars>>

IdleMatcher == [pc |-> "idle", todo |-> {}, floor |-> 0,
                op |-> NoOperation, worker |-> NoWorker]

SchedulerInit ==
    /\ Init
    /\ PoolInit
    /\ matcher = IdleMatcher
    /\ taskPermit = FALSE
    /\ client = [c \in Clients |-> "new"]
    /\ seen = [c \in Clients |-> -1]
    /\ jobs = [w \in Workers |-> {}]
    /\ replies = {}
    /\ silent = {}
    /\ dispatched = [op \in Operations |-> 0]

\* add_action and every successful update_awaited_action call notify_one, which
\* leaves at most one permit.
TaskNotify == taskPermit' = (taskPermit \/ awaited' # awaited \/ clientOp' # clientOp)

-----------------------------------------------------------------------------
(* The matching engine: wait for a permit, then do_try_match.              *)

\* select polls the task notification first and takes only one permit.
MatchWakes ==
    /\ matcher.pc = "idle"
    /\ taskPermit \/ workerPermit
    /\ taskPermit' = FALSE
    /\ workerPermit' = IF taskPermit THEN workerPermit ELSE FALSE
    /\ matcher' = [IdleMatcher EXCEPT !.pc = "scan",
                                      !.floor = Max(Operations) + 1]
    /\ UNCHANGED <<vars, pool, running, slots, paused, draining, handler, link,
                   told, client, seen, jobs, replies, silent, dispatched>>

\* The ChunkedStream over the queued set, in descending order: everything
\* below the last operation of the chunk before, until there is nothing.
MatchReadsChunk ==
    LET chunk == {op \in sorted["Queued"] : op < matcher.floor} IN
    /\ matcher.pc = "scan"
    /\ matcher.todo = {}
    /\ matcher' = IF chunk = {} THEN IdleMatcher
                  ELSE [matcher EXCEPT !.todo = chunk, !.floor = Min(chunk)]
    /\ UNCHANGED <<vars, poolVars, taskPermit, client, seen, jobs, replies,
                   silent, dispatched>>

\* The next operation of the chunk, as its watch channel has it now, passes
\* the filter or is skipped.  A lapsed one is written off by the filter.
MatchTakesNext ==
    LET op == Max(matcher.todo)
        rest == [matcher EXCEPT !.todo = @ \ {op}] IN
    /\ matcher.pc = "scan"
    /\ matcher.todo # {}
    /\ IF op \in lapsed /\ ~IsFinished(awaited[op])
       THEN /\ FilterReadsLapsed(Match, op)
            /\ matcher' = [rest EXCEPT !.pc = "filter"]
       ELSE /\ matcher' = IF op \notin lapsed /\ awaited[op].stage = "Queued"
                          THEN [rest EXCEPT !.pc = "find", !.op = op]
                          ELSE rest
            /\ UNCHANGED vars
    /\ UNCHANGED <<poolVars, taskPermit, client, seen, jobs, replies, silent,
                   dispatched>>

NextOperation == [matcher EXCEPT !.pc = "scan", !.op = NoOperation,
                                 !.worker = NoWorker]

MatchFilterReturns ==
    /\ matcher.pc = "filter"
    /\ call[Match].pc = "done"
    /\ Finish(Match)
    /\ matcher' = NextOperation
    /\ UNCHANGED <<poolVars, taskPermit, client, seen, jobs, replies, silent,
                   dispatched>>

\* find_worker_for_action, under the mutex of the pool.  Which of the workers
\* that fit is taken (the least or the most recently used) is left open.
MatchFindsWorker ==
    /\ matcher.pc = "find"
    /\ MutexFree
    /\ \E w \in {v \in pool : CanRun(v)} :
          /\ matcher' = [matcher EXCEPT !.pc = "assign", !.worker = w]
          /\ StartUpdate(Match, matcher.op, w, "Executing")
    /\ UNCHANGED <<poolVars, taskPermit, client, seen, jobs, replies, silent,
                   dispatched>>

MatchFindsNone ==
    /\ matcher.pc = "find"
    /\ MutexFree
    /\ {w \in pool : CanRun(w)} = {}
    /\ matcher' = NextOperation
    /\ UNCHANGED <<vars, poolVars, taskPermit, client, seen, jobs, replies,
                   silent, dispatched>>

\* assign_operation returned; an error means the next operation.
MatchAssigned ==
    /\ matcher.pc = "assign"
    /\ call[Match].pc = "done"
    /\ Finish(Match)
    /\ IF call[Match].result = "Ok"
       THEN matcher' = [matcher EXCEPT !.pc = "notify"]
       ELSE matcher' = NextOperation
    /\ UNCHANGED <<poolVars, taskPermit, client, seen, jobs, replies, silent,
                   dispatched>>

\* Mutant: the worker acknowledges the start with the stage Executing.
DeliveredWithAck(w, op) ==
    /\ jobs' = [jobs EXCEPT ![w] = @ \cup {op}]
    /\ replies' = replies \cup {[worker |-> w, op |-> op, update |-> "Executing"]}

\* The worker gets the action.  A process that still runs the operation from
\* an earlier assignment cannot create its directory and answers with an error.
Delivered(w, op) ==
    /\ jobs' = [jobs EXCEPT ![w] = @ \cup {op}]
    /\ replies' = IF op \in jobs[w]
                  THEN replies \cup {[worker |-> w, op |-> op, update |-> "Error"]}
                  ELSE replies

MatchNotifies ==
    LET w == matcher.worker IN
    /\ matcher.pc = "notify"
    /\ NotifyRunAction(w, matcher.op)
    /\ IF link[w] = "up" THEN Delivered(w, matcher.op)
                         ELSE UNCHANGED <<jobs, replies>>
    /\ matcher' = NextOperation
    /\ UNCHANGED <<taskPermit, client, seen, silent, dispatched>>

\* The worker left the pool since it was found: a warning, and Ok.
MatchWorkerGone ==
    /\ matcher.pc = "notify"
    /\ MutexFree
    /\ matcher.worker \notin pool
    /\ matcher' = NextOperation
    /\ UNCHANGED <<vars, poolVars, taskPermit, client, seen, jobs, replies,
                   silent, dispatched>>

MatchStep ==
    \/ MatchWakes
    \/ MatchReadsChunk
    \/ MatchTakesNext
    \/ MatchFilterReturns
    \/ MatchFindsWorker
    \/ MatchFindsNone
    \/ MatchAssigned
    \/ MatchNotifies
    \/ MatchWorkerGone

-----------------------------------------------------------------------------
(* Clients: Execute, then `changed` in a loop until the action is finished. *)

\* The client's stream is open.
Waiting(c) == client[c] \in {"listening", "due"}

ClientExecutes(c) ==
    /\ client[c] = "new"
    /\ \E k \in Keys \cup {NoKey} : AddAction(c, k)
    /\ client' = [client EXCEPT ![c] = "listening"]
    /\ UNCHANGED <<call, lapsed, poolVars, matcher, seen, jobs, replies, silent,
                   dispatched>>
    /\ TaskNotify

\* The watch channel has a version the client has not seen.
ClientSeesChange(c) ==
    LET a == awaited[clientOp[c]] IN
    /\ client[c] = "listening"
    /\ call[c].pc = "idle"
    /\ seen[c] # a.version
    /\ seen' = [seen EXCEPT ![c] = a.version]
    /\ client' = IF IsFinished(a) THEN [client EXCEPT ![c] = "answered"]
                                  ELSE client
    /\ UNCHANGED <<vars, poolVars, matcher, taskPermit, jobs, replies, silent,
                   dispatched>>

\* The sender of the channel is dropped with the operation: `changed` fails.
ClientLosesOperation(c) ==
    /\ client[c] = "listening"
    /\ call[c].pc = "idle"
    /\ clientOp[c] \notin known
    /\ seen[c] = awaited[clientOp[c]].version
    /\ client' = [client EXCEPT ![c] = "failed"]
    /\ UNCHANGED <<vars, poolVars, matcher, taskPermit, seen, jobs, replies,
                   silent, dispatched>>

\* A worker sends keep-alives well within no_event_action_timeout, each one a
\* change of the actions it runs; and an action is handed to its worker within
\* that time of being assigned.
RunsAndReports(op) ==
    LET w == awaited[op].worker IN
    w \in pool \ silent /\ link[w] = "up" /\ op \in running[w]

KeptAlive(op) == RunsAndReports(op) \/ matcher.op = op

\* no_event_action_timeout passes without a change, which is quite usual for
\* a queued action.
ClientTimerFires(c) ==
    /\ client[c] = "listening"
    /\ call[c].pc = "idle"
    /\ seen[c] = awaited[clientOp[c]].version
    /\ awaited[clientOp[c]].stage = "Queued" \/ ~KeptAlive(clientOp[c])
    /\ client' = [client EXCEPT ![c] = "due"]
    /\ UNCHANGED <<vars, poolVars, matcher, taskPermit, seen, jobs, replies,
                   silent, dispatched>>

\* Mutant: the stage is not looked at.
ClientTimesOutAnyStage(c) ==
    /\ client[c] = "due"
    /\ client' = [client EXCEPT ![c] = "listening"]
    /\ call' = [call EXCEPT ![c] = [NoCall EXCEPT !.pc = "timeout",
                                                  !.op = clientOp[c]]]
    /\ UNCHANGED <<dbVars, lapsed, poolVars, matcher, taskPermit, seen, jobs,
                   replies, silent, dispatched>>

\* What `changed` does then: it looks at the action as it is now, and goes on
\* waiting when the action is queued.
ClientTimesOut(c) ==
    /\ client[c] = "due"
    /\ client' = [client EXCEPT ![c] = "listening"]
    /\ IF awaited[clientOp[c]].stage = "Queued" THEN UNCHANGED vars
                                                ELSE StartTimeout(c, clientOp[c])
    /\ UNCHANGED <<poolVars, matcher, taskPermit, seen, jobs, replies, silent,
                   dispatched>>

\* timeout_operation_id returned; an error ends the client's stream.  The limit
\* on timeouts within one `changed` is left out: Ok means that the action has
\* changed or is gone, and the next turn of the loop sees that.
ClientTimeoutReturns(c) ==
    /\ call[c].pc = "done"
    /\ Finish(c)
    /\ client' = IF call[c].result = "Ok" THEN client
                 ELSE [client EXCEPT ![c] = "failed"]
    /\ UNCHANGED <<poolVars, matcher, taskPermit, seen, jobs, replies, silent,
                   dispatched>>

\* The client closes its stream, in the middle of a call or not.
ClientHangsUp(c) ==
    /\ Waiting(c)
    /\ client' = [client EXCEPT ![c] = "gone"]
    /\ call' = [call EXCEPT ![c] = NoCall]
    /\ UNCHANGED <<dbVars, lapsed, poolVars, matcher, taskPermit, seen, jobs,
                   replies, silent, dispatched>>

\* A client that listens keeps its entry young, unless it is so slow to take
\* the updates that `changed` is not polled; the entries of the others grow old.
ClientEntryGrowsOld(c) ==
    /\ IF Waiting(c) THEN "slow" \in Faults ELSE "expire" \in Faults
    /\ ClientEntryExpires(c)
    /\ UNCHANGED <<call, lapsed, poolVars, schedVars>>

\* `changed` sends the keep-alive of a client that listens.
ClientSendsKeepAlive(c) ==
    /\ client[c] = "listening"
    /\ ClientKeepAlive(c)
    /\ UNCHANGED <<call, lapsed, poolVars, schedVars>>

ClientStep(c) ==
    \/ ClientExecutes(c)
    \/ ClientSeesChange(c)
    \/ ClientLosesOperation(c)
    \/ ClientTimerFires(c)
    \/ ClientTimesOut(c)
    \/ ClientTimeoutReturns(c)
    \/ ClientSendsKeepAlive(c)

DatabaseStep ==
    /\ GetAwaitedActionById \/ \E c \in Clients : ClientDroppedOperation(c)
    /\ UNCHANGED <<call, lapsed, poolVars, schedVars>>

-----------------------------------------------------------------------------
(* Worker processes, as far as the scheduler can tell (external: the       *)
(* worker's own code is not part of this module).                          *)

\* The process finishes an action and sends its ExecuteResult.
JobEnds(w, op, u) ==
    /\ op \in jobs[w]
    /\ w \notin silent
    /\ jobs' = [jobs EXCEPT ![w] = @ \ {op}]
    /\ replies' = replies \cup {[worker |-> w, op |-> op, update |-> u]}
    /\ UNCHANGED <<vars, poolVars, matcher, taskPermit, client, seen, silent,
                   dispatched>>

\* An ExecuteResult arrives at the scheduler.
ReplyArrives(r) ==
    /\ r \in replies
    /\ replies' = replies \ {r}
    /\ UpdateAction(r.worker, r.op, r.update)
    /\ UNCHANGED <<matcher, taskPermit, client, seen, jobs, silent, dispatched>>

\* The process ends or restarts (under a new id), which closes its stream.
WorkerDown(w) ==
    /\ link[w] = "up"
    /\ link' = [link EXCEPT ![w] = "down"]
    /\ jobs' = [jobs EXCEPT ![w] = {}]
    /\ UNCHANGED <<vars, pool, running, slots, paused, draining, handler,
                   workerPermit, told, matcher, taskPermit, client, seen,
                   replies, silent, dispatched>>

\* The process or its network stalls, and may come back.
WorkerStalls(w) ==
    /\ link[w] = "up"
    /\ silent' = silent \cup {w}
    /\ UNCHANGED <<vars, poolVars, matcher, taskPermit, client, seen, jobs,
                   replies, dispatched>>

WorkerResumes(w) ==
    /\ w \in silent
    /\ silent' = silent \ {w}
    /\ UNCHANGED <<vars, poolVars, matcher, taskPermit, client, seen, jobs,
                   replies, dispatched>>

-----------------------------------------------------------------------------
PoolStep ==
    /\ EvictNext \/ EvictUpdateReturns \/ EvictEnds
       \/ UpdateActionFails \/ UpdateActionCompletes \/ KeepAliveReturns
    /\ UNCHANGED schedVars

\* Steps inside calls of the state manager, by any task.
CallSteps(a) ==
    /\ CallStep(a)
    /\ TaskNotify
    /\ dispatched' = IF a = Match /\ matcher.pc = "assign" /\ awaited' # awaited
                     THEN [dispatched EXCEPT ![matcher.op] = @ + 1]
                     ELSE dispatched
    /\ UNCHANGED <<poolVars, matcher, client, seen, jobs, replies, silent>>

\* Workers of the pool that have not been heard of for worker_timeout_s.
LateWorkers == {w \in pool : w \in silent \/ link[w] = "down"}

\* remove_timedout_workers goes through the workers from the end of the LRU
\* list and stops at the first that is not late.  The list is not in the order
\* of the timestamps (a keep-alive changes the timestamp and not the place), so
\* a late worker may be missed as long as there is one that is not.
TimeoutRemovesWorkers ==
    /\ \E W \in SUBSET LateWorkers :
          /\ pool = LateWorkers => W = LateWorkers
          /\ RemoveWorkers(W)
    /\ UNCHANGED schedVars

\* A worker reads that it was refused or evicted, and ends its session.
ToldWorkerLeaves(w) == w \in told /\ WorkerDown(w)

NewWorker(w) == AddWorker(w) /\ UNCHANGED schedVars

CanStillUpdate(op) == awaited[op].version < MaxUpdates

EnvStep ==
    \/ "crash" \in Faults /\ \E w \in Workers : WorkerDown(w)
    \/ "stall" \in Faults /\ \E w \in Workers :
          \/ (\A op \in jobs[w] : CanStillUpdate(op)) /\ WorkerStalls(w)
          \/ WorkerResumes(w)
    \/ "leave" \in Faults /\ \E w \in pool :
          link[w] = "up" /\ RemoveWorkers({w}) /\ UNCHANGED schedVars
    \/ "drain" \in Faults /\ \E w \in Workers, d \in BOOLEAN :
          SetDrainWorker(w, d) /\ UNCHANGED schedVars
    \/ "error" \in Faults /\ \E w \in Workers, op \in Operations :
          JobEnds(w, op, "Error")
    \/ "backpressure" \in Faults /\ \E w \in Workers, op \in Operations :
          CanStillUpdate(op) /\ JobEnds(w, op, "Backpressure")
    \/ "keepalive" \in Faults /\ \E w \in Workers \ silent, op \in Operations :
          /\ CanStillUpdate(op) /\ link[w] = "up"
          /\ KeepAliveReceived(w, op) /\ UNCHANGED schedVars
    \/ "lapse" \in Faults /\ \E op \in Operations :
          ClientKeepaliveLapses(op) /\ UNCHANGED <<poolVars, schedVars>>
    \/ "hangup" \in Faults /\ \E c \in Clients : ClientHangsUp(c)
    \/ \E c \in Clients : ClientEntryGrowsOld(c)

SystemStep ==
    \/ MatchStep
    \/ PoolStep
    \/ DatabaseStep
    \/ TimeoutRemovesWorkers
    \/ \E a \in Callers : CallSteps(a)
    \/ \E c \in Clients : ClientStep(c)
    \/ \E r \in replies : ReplyArrives(r)
    \/ \E w \in Workers : ToldWorkerLeaves(w) \/ NewWorker(w)
    \/ \E w \in Workers, op \in Operations : JobEnds(w, op, "Completed")

SchedulerNext == SystemStep \/ EnvStep

SchedulerSpec == SchedulerInit /\ [][SchedulerNext]_allVars

(* Fairness.  Every task that can go on goes on (the runtime polls it), a   *)
(* timer that stays due fires, and a task that waits for a tokio mutex gets *)
(* it in the end, because the mutex is handed over in the order of waiting: *)
(* those steps are enabled again and again rather than all the time, and    *)
(* have strong fairness.  A late worker is sure to be removed only when no  *)
(* other can hide it.  Nothing is assumed of EnvStep or of new workers.     *)
Fairness ==
    /\ SF_allVars(MatchStep)
    /\ WF_allVars(PoolStep)
    /\ SF_allVars(pool = LateWorkers /\ TimeoutRemovesWorkers)
    /\ \A a \in Callers : WF_allVars(CallSteps(a))
    /\ \A c \in Clients :
          /\ SF_allVars(call[c].pc = "timeout" /\ CallSteps(c))
          /\ WF_allVars(\/ ClientSeesChange(c) \/ ClientLosesOperation(c)
                        \/ ClientTimerFires(c) \/ ClientTimesOut(c)
                        \/ ClientTimeoutReturns(c))
    /\ \A w \in Workers :
          /\ SF_allVars(\E r \in replies : r.worker = w /\ ReplyArrives(r))
          /\ WF_allVars(ToldWorkerLeaves(w))
          /\ WF_allVars(\E op \in Operations : JobEnds(w, op, "Completed"))

FairSchedulerSpec == SchedulerSpec /\ Fairness

-----------------------------------------------------------------------------
SchedulerTypeOK ==
    /\ TypeOK
    /\ PoolTypeOK
    /\ matcher \in [pc : {"idle", "scan", "filter", "find", "assign", "notify"},
                    todo : SUBSET Operations, floor : Nat,
                    op : Operations \cup {NoOperation},
                    worker : Workers \cup {NoWorker}]
    /\ taskPermit \in BOOLEAN
    /\ client \in [Clients -> {"new", "listening", "due", "answered", "failed",
                               "gone"}]
    /\ seen \in [Clients -> Nat \cup {-1}]
    /\ jobs \in [Workers -> SUBSET Operations]
    /\ replies \subseteq [worker : Workers, op : Operations, update : WorkerUpdates]
    /\ silent \subseteq Workers
    /\ dispatched \in [Operations -> Nat]

\* The scheduler uses the state manager only in ways that the open module
\* allows, so what is proved there of any callers holds of these.
UsesStateManager == OpenSpec

\* An action that executes on a worker of the pool is one that the pool knows
\* to run there, or is about to hand over: evicting the worker gives back
\* every action it was assigned, and none is forgotten.
ExecutingIsTracked ==
    \A op \in known :
        LET w == awaited[op].worker IN
        awaited[op].stage = "Executing" /\ w \in pool =>
            \/ op \in running[w]
            \/ matcher.op = op /\ matcher.worker = w

\* The matching engine does not sleep through a change: when it waits and has
\* no permit, no queued action fits a worker that could run it.
NoLostWakeup ==
    matcher.pc = "idle" /\ ~taskPermit /\ ~workerPermit =>
        \A op \in sorted["Queued"] \ lapsed, w \in pool : ~CanRun(w)

\* A client that listens is answered, with a result or an error, as long as
\* there is a worker: no crash, error or race between timeouts leaves its
\* action behind for good.
ClientsAreAnswered ==
    \A c \in Clients : Waiting(c) ~>
        ~Waiting(c) \/ \A w \in Workers : link[w] # "up"

\* An action never stays with a worker that is gone while a client listens to
\* it: the pool gives it back, or the client's timeout takes it away.
LostActionsRecovered ==
    \A c \in Clients, w \in Workers :
        (/\ Waiting(c)
         /\ awaited[clientOp[c]].stage = "Executing"
         /\ awaited[clientOp[c]].worker = w
         /\ link[w] = "down") ~>
            \/ ~Waiting(c)
            \/ awaited[clientOp[c]].stage # "Executing"
            \/ awaited[clientOp[c]].worker # w

\* "The action was updated recently, we should not timeout the action. This is
\* to prevent timing out actions that have recently been updated (like
\* multiple clients timeout the same action at the same time)"
\* (simple_scheduler_state_manager.rs:451): the check of timeout_operation_id
\* does not let a timeout pass for an action whose worker runs it and reports.
RecentlyUpdatedNotTimedOut ==
    [][\A c \in Clients :
         call[c].pc = "timeout" /\ call'[c].pc = "read"
            => ~RunsAndReports(call[c].op)]_allVars

\* "If a job returns an internal error or times out this many times when
\* attempting to run on a worker" (nativelink-config/src/schedulers.rs:115):
\* each assignment to a worker fails at most once.
AttemptsAreDispatches ==
    \A op \in known : awaited[op].attempts <= dispatched[op]
=============================================================================
