------------------------- MODULE ApiWorkerScheduler --------------------------
(***************************************************************************)
(* The worker pool: nativelink-scheduler/src/api_worker_scheduler.rs and   *)
(* worker.rs, over the state manager.                                      *)
(*                                                                         *)
(* Every method takes the async mutex of ApiWorkerSchedulerImpl and holds  *)
(* it to its end, across the calls it makes to the state manager.  The     *)
(* variable handler is the method that holds the mutex; its calls to the   *)
(* state manager are those of the caller Api.                              *)
(***************************************************************************)
EXTENDS SimpleSchedulerStateManager

CONSTANTS
    Api,            \* caller: the method that holds the pool's mutex
    KeepAliveTask,  \* caller: simple_scheduler_operation_keep_alive
    Capacity        \* what a worker offers of a Minimum property; an action
                    \*   asks for one of it

ASSUME PoolAssumption ==
    /\ {Api, KeepAliveTask} \subseteq Callers
    /\ Api # KeepAliveTask
    /\ Capacity \in Nat \ {0}

VARIABLES
    pool,           \* keys of the LruCache of workers
    running,        \* worker -> keys of running_action_infos
    slots,          \* worker -> what is left in its platform_properties
    paused,         \* workers with is_paused
    draining,       \* workers with is_draining
    handler,        \* the method that holds the mutex
    workerPermit,   \* worker_change_notify has a permit
    link,           \* worker -> state of its stream from the scheduler
    told            \* workers that were told of an error or to disconnect

poolVars == <<pool, running, slots, paused, draining, handler, workerPermit,
              link, told>>

Free == [kind |-> "free", worker |-> NoWorker, op |-> NoOperation,
         update |-> "KeepAlive", rest |-> {}]

Handler ==
    [kind : {"free", "update", "evict"}, worker : Workers \cup {NoWorker},
     op : Operations \cup {NoOperation}, update : Updates,
     rest : SUBSET (Workers \X Operations)]

PoolInit ==
    /\ pool = {}
    /\ running = [w \in Workers |-> {}]
    /\ slots = [w \in Workers |-> 0]
    /\ paused = {}
    /\ draining = {}
    /\ handler = Free
    /\ workerPermit = FALSE
    /\ link = [w \in Workers |-> "new"]
    /\ told = {}

MutexFree == handler.kind = "free"

\* Mutant: off by one.
CanRunFull(w) == w \notin paused /\ w \notin draining /\ slots[w] >= 0

\* can_accept_work, and the action's properties are satisfied.
CanRun(w) == w \notin paused /\ w \notin draining /\ slots[w] >= 1

\* add_worker.  When the stream closed before the first message could be sent
\* the worker is evicted again at once.
AddWorker(w) ==
    /\ MutexFree
    /\ link[w] = "new"
    /\ workerPermit' = TRUE
    /\ \/ /\ link' = [link EXCEPT ![w] = "up"]
          /\ pool' = pool \cup {w}
          /\ slots' = [slots EXCEPT ![w] = Capacity]
       \/ /\ link' = [link EXCEPT ![w] = "down"]
          /\ UNCHANGED <<pool, slots>>
    /\ UNCHANGED <<running, paused, draining, handler, told, dbVars, call, lapsed>>

\* Mutant: the matching engine is not notified.
SetDrainWorkerQuietly(w, drain) ==
    /\ MutexFree
    /\ w \in pool
    /\ draining' = IF drain THEN draining \cup {w} ELSE draining \ {w}
    /\ UNCHANGED <<pool, running, slots, paused, handler, workerPermit, link,
                   told, dbVars, call, lapsed>>

\* set_drain_worker
SetDrainWorker(w, drain) ==
    /\ MutexFree
    /\ w \in pool
    /\ draining' = IF drain THEN draining \cup {w} ELSE draining \ {w}
    /\ workerPermit' = TRUE
    /\ UNCHANGED <<pool, running, slots, paused, handler, link, told,
                   dbVars, call, lapsed>>

-----------------------------------------------------------------------------
(* immediate_evict_worker for each worker of W, under one hold of the mutex. *)

\* The workers leave the pool, are told to disconnect, and their actions wait
\* to be given back.
Evict(W, runningNow) ==
    /\ pool' = pool \ W
    /\ handler' = [Free EXCEPT !.kind = "evict",
                               !.rest = {p \in W \X Operations :
                                            p[2] \in runningNow[p[1]]}]
    /\ running' = [w \in Workers |-> IF w \in W THEN {} ELSE runningNow[w]]
    /\ slots' = [w \in Workers |-> IF w \in W THEN 0 ELSE slots[w]]
    /\ paused' = paused \ W
    /\ draining' = draining \ W
    /\ told' = told \cup W
    /\ workerPermit' = TRUE

\* remove_worker (the worker goes away) and remove_timedout_workers.
RemoveWorkers(W) ==
    /\ MutexFree
    /\ W # {}
    /\ W \subseteq pool
    /\ Evict(W, running)
    /\ UNCHANGED <<link, dbVars, call, lapsed>>

\* One of the drained actions is reported as failed.
EvictNext ==
    /\ handler.kind = "evict"
    /\ \E p \in handler.rest :
          /\ StartUpdate(Api, p[2], p[1], "Error")
          /\ handler' = [handler EXCEPT !.rest = @ \ {p}]
    /\ UNCHANGED <<pool, running, slots, paused, draining, workerPermit, link, told>>

\* The result of each report is merged and the loop goes on.
EvictUpdateReturns ==
    /\ handler.kind = "evict"
    /\ call[Api].pc = "done"
    /\ Finish(Api)
    /\ UNCHANGED poolVars

EvictEnds ==
    /\ handler.kind = "evict"
    /\ handler.rest = {}
    /\ call[Api].pc = "idle"
    /\ handler' = Free
    /\ workerPermit' = TRUE
    /\ UNCHANGED <<pool, running, slots, paused, draining, link, told,
                   dbVars, call, lapsed>>

-----------------------------------------------------------------------------
(* update_action(w, op, u): the answer of a worker about an action.        *)

\* The worker is unknown: the answer is refused.
UpdateFromUnknown(w) ==
    /\ MutexFree
    /\ w \notin pool
    /\ told' = told \cup {w}
    /\ UNCHANGED <<pool, running, slots, paused, draining, handler,
                   workerPermit, link, dbVars, call, lapsed>>

\* The worker should not be running the action: it is evicted.
UpdateNotRunning(w, op) ==
    /\ MutexFree
    /\ w \in pool
    /\ op \notin running[w]
    /\ Evict({w}, running)
    /\ UNCHANGED <<link, dbVars, call, lapsed>>

\* Mutant: the action is taken off the worker before the database knows.
UpdateActionEagerly(w, op, u) ==
    /\ MutexFree
    /\ w \in pool
    /\ op \in running[w]
    /\ StartUpdate(Api, op, w, u)
    /\ handler' = [Free EXCEPT !.kind = "update", !.worker = w, !.op = op,
                               !.update = u]
    /\ running' = [running EXCEPT ![w] = @ \ {op}]
    /\ UNCHANGED <<pool, slots, paused, draining, workerPermit, link, told>>

\* The worker runs the action: the state manager is told first.
UpdateActionStarts(w, op, u) ==
    /\ MutexFree
    /\ w \in pool
    /\ op \in running[w]
    /\ StartUpdate(Api, op, w, u)
    /\ handler' = [Free EXCEPT !.kind = "update", !.worker = w, !.op = op,
                               !.update = u]
    /\ UNCHANGED <<pool, running, slots, paused, draining, workerPermit, link, told>>

UpdateAction(w, op, u) ==
    \/ UpdateFromUnknown(w)
    \/ UpdateNotRunning(w, op)
    \/ UpdateActionStarts(w, op, u)

\* The state manager refused: the error goes to the worker and the action
\* stays in running_action_infos.
UpdateActionFails ==
    /\ handler.kind = "update"
    /\ call[Api].pc = "done"
    /\ call[Api].result # "Ok"
    /\ Finish(Api)
    /\ handler' = Free
    /\ told' = told \cup {handler.worker}
    /\ UNCHANGED <<pool, running, slots, paused, draining, workerPermit, link>>

\* Mutant: back pressure pauses a worker that has nothing left to run.
UpdateActionPauses ==
    LET w == handler.worker IN
    /\ handler.kind = "update"
    /\ call[Api].pc = "done"
    /\ call[Api].result = "Ok"
    /\ Finish(Api)
    /\ handler' = Free
    /\ running' = [running EXCEPT ![w] = @ \ {handler.op}]
    /\ slots' = [slots EXCEPT ![w] = @ + 1]
    /\ paused' = IF handler.update = "Backpressure" THEN paused \cup {w}
                                                    ELSE paused \ {w}
    /\ workerPermit' = TRUE
    /\ UNCHANGED <<pool, draining, link, told>>

\* complete_action, with restore_platform_properties.
CompleteAction(w, op) ==
    /\ running' = [running EXCEPT ![w] = @ \ {op}]
    /\ slots' = [slots EXCEPT ![w] = @ + 1]

\* The action is done on the worker; then the back pressure logic.
UpdateActionCompletes ==
    LET w == handler.worker
        left == running[w] \ {handler.op}
        wasPaused == w \in paused \/ w \in draining IN
    /\ handler.kind = "update"
    /\ call[Api].pc = "done"
    /\ call[Api].result = "Ok"
    /\ Finish(Api)
    /\ handler' = Free
    /\ CompleteAction(w, handler.op)
    /\ paused' = IF (wasPaused \/ handler.update = "Backpressure") /\ left # {}
                 THEN paused \cup {w}
                 ELSE paused \ {w}
    /\ workerPermit' = TRUE
    /\ UNCHANGED <<pool, draining, link, told>>

-----------------------------------------------------------------------------
(* worker_notify_run_action(w, op)                                         *)

\* run_action, with reduce_platform_properties.
RunAction(w, op) ==
    /\ running' = [running EXCEPT ![w] = @ \cup {op}]
    /\ slots' = [slots EXCEPT ![w] = @ - 1]

\* run_action enters the action and takes its properties before it sends; a
\* failed send evicts the worker, this action included.
NotifyRunAction(w, op) ==
    /\ MutexFree
    /\ w \in pool
    /\ IF link[w] = "up"
       THEN /\ RunAction(w, op)
            /\ UNCHANGED <<pool, paused, draining, handler, told, workerPermit>>
       ELSE Evict({w}, [running EXCEPT ![w] = @ \cup {op}])
    /\ UNCHANGED <<link, dbVars, call, lapsed>>

\* worker_keep_alive_received sends one message per running action to the
\* keep-alive task.  The channel is modelled with room for one message, held
\* in the task's call.
KeepAliveReceived(w, op) ==
    /\ MutexFree
    /\ w \in pool
    /\ op \in running[w]
    /\ StartUpdate(KeepAliveTask, op, w, "KeepAlive")
    /\ UNCHANGED poolVars

KeepAliveReturns ==
    /\ call[KeepAliveTask].pc = "done"
    /\ Finish(KeepAliveTask)
    /\ UNCHANGED poolVars

-----------------------------------------------------------------------------
PoolTypeOK ==
    /\ pool \subseteq Workers
    /\ running \in [Workers -> SUBSET Operations]
    /\ slots \in [Workers -> Int]
    /\ paused \subseteq Workers
    /\ draining \subseteq Workers
    /\ handler \in Handler
    /\ workerPermit \in BOOLEAN
    /\ link \in [Workers -> {"new", "up", "down"}]
    /\ told \subseteq Workers

\* The subtraction in reduce_platform_properties never goes below zero: the
\* capacity that find_worker_for_action saw is still there when the action is
\* handed over, although the mutex was released and a write to the database
\* was made in between.
SlotsNeverNegative == \A w \in Workers : slots[w] >= 0

\* "Only pause if there's an action still waiting that will unpause": a paused
\* worker of the pool has an action whose end lifts the pause.
PausedHasActions == \A w \in pool \cap paused : running[w] # {}

\* What a worker has left is its capacity less the actions that it runs.
SlotsAccounted ==
    \A w \in pool : slots[w] + Cardinality(running[w]) = Capacity
=============================================================================
