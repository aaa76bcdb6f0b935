----------------------------- MODULE LocalWorker ----------------------------
(***************************************************************************)
(* What a worker does with an action it was given:                         *)
(* nativelink-worker/src/running_actions_manager.rs, driven by the future  *)
(* that local_worker.rs spawns for each StartAction.                       *)
(*                                                                         *)
(* A task is one such future together with the RunningActionImpl it makes. *)
(* Its step says at which await it is; a task may be aborted at any await, *)
(* which drops the future and, with it, the RunningActionImpl, whose Drop  *)
(* finishes the cleanup in the background.                                 *)
(***************************************************************************)
EXTENDS Naturals, FiniteSets

CONSTANTS
    Jobs,           \* operation ids the scheduler sends to this worker
    Tasks,          \* numbers of the start_action futures
    NoTask,
    TooLong,        \* jobs whose timeout is above max_action_timeout
    WorkerFaults,   \* what may fail: "store", "io", "spawn", "rpc"
    Strategies      \* pairs of upload_ac_results_strategy and
                    \*   upload_historical_results_strategy to consider

UploadCacheResultsStrategy == {"success_only", "never", "everything", "failures_only"}

ASSUME WorkerAssumption ==
    /\ TooLong \subseteq Jobs
    /\ NoTask \notin Tasks
    /\ Strategies \subseteq UploadCacheResultsStrategy \X UploadCacheResultsStrategy

VARIABLES
    task,           \* task number -> the future and its RunningActionImpl
    runningActions, \* running_actions: job -> the task its Weak refers to
    dirs,           \* jobs whose action directory exists
    child,          \* task -> its child process
    actionCache,    \* results written to the action cache
    historical,     \* results written to the historical store
    strategy        \* the strategies of upload_action_result

saved == <<actionCache, historical, strategy>>
ramVars == <<task, runningActions, dirs, child, saved>>

\* The awaits of start_action_fut before the action is registered, while the
\* RunningActionImpl is alive, of its publish future, and of Drop's cleanup.
Transit == {"precondition", "info", "mkdir", "register"}
Live == {"prepare", "execute", "running", "side_channel", "upload", "finish",
         "clean_dir", "clean_map"}
Publish == {"cache", "report"}
Background == {"drop_dir", "drop_map"}
Steps == {"free", "over"} \cup Transit \cup Live \cup Publish \cup Background

Errors == {"DeadlineExceeded", "Aborted"}
NoResult == "none"
Exits == {"zero", "nonzero", NoResult}

Task ==
    [step : Steps, job : Jobs \cup {NoTask}, aborted : BOOLEAN,
     command : BOOLEAN,        \* command_proto is Some
     kill : {"armed", "sent"}, \* kill_channel_tx was taken and sent
     heard : BOOLEAN,          \* the select loop took the kill branch
     expired : BOOLEAN,        \* the select loop took the sleep branch
     exit : Exits,             \* execution_result / action_result
     error : SUBSET Errors,    \* codes merged into state.error
     failed : BOOLEAN]         \* a step of the chain returned Err

FreeTask ==
    [step |-> "free", job |-> NoTask, aborted |-> FALSE, command |-> FALSE,
     kill |-> "armed", heard |-> FALSE, expired |-> FALSE, exit |-> NoResult,
     error |-> {}, failed |-> FALSE]

Children == {"none", "alive", "doomed", "zero", "nonzero", "killed"}

RamInit ==
    /\ task = [i \in Tasks |-> FreeTask]
    /\ runningActions = [j \in Jobs |-> NoTask]
    /\ dirs = {}
    /\ child = [i \in Tasks |-> "none"]
    /\ actionCache = {}
    /\ historical = {}
    /\ strategy \in Strategies

At(i, s) == task[i].step = s
Job(i) == task[i].job
May(f) == f \in WorkerFaults

\* The future and the RunningActionImpl are no more.
Over(i) == [FreeTask EXCEPT !.step = "over", !.job = Job(i)]

\* i goes to step s.
Goto(i, s) ==
    task' = [task EXCEPT ![i] = IF s = "over" THEN Over(i) ELSE [@ EXCEPT !.step = s]]

\* One of the chained steps returned Err: what follows is skipped up to the
\* cleanup that .then() runs in any case.
FailTo(i, s) ==
    task' = [task EXCEPT ![i] =
                IF s = "over" THEN Over(i) ELSE [@ EXCEPT !.step = s, !.failed = TRUE]]

\* The future ends with a result: it is published in step s, unless the handle
\* of the future is gone.
Deliver(i, s) == IF task[i].aborted THEN "over" ELSE s

\* running_actions.get(id).and_then(Weak::upgrade) succeeds.
Upgradable(j) ==
    runningActions[j] # NoTask /\ task[runningActions[j]].step \in Live

-----------------------------------------------------------------------------
(* create_and_add_action *)

\* preconditions_met
Precondition(i) ==
    /\ At(i, "precondition")
    /\ \/ Goto(i, "info")
       \/ May("spawn") /\ FailTo(i, "register")
    /\ UNCHANGED <<runningActions, dirs, child, saved>>

\* create_action_info: the Action is fetched from the CAS.
CreateActionInfo(i) ==
    /\ At(i, "info")
    /\ \/ Goto(i, "mkdir")
       \/ May("store") /\ FailTo(i, "register")
    /\ UNCHANGED <<runningActions, dirs, child, saved>>

\* Mutant: the error of create_dir is ignored.
MakeActionDirectoryUnchecked(i) ==
    /\ At(i, "mkdir")
    /\ Goto(i, "register")
    /\ \/ dirs' = dirs \cup {Job(i)}
       \/ May("io") /\ UNCHANGED dirs
    /\ UNCHANGED <<runningActions, child, saved>>

\* make_action_directory: create_dir fails when the directory is still there.
MakeActionDirectory(i) ==
    /\ At(i, "mkdir")
    /\ \/ /\ Job(i) \notin dirs
          /\ dirs' = dirs \cup {Job(i)}
          /\ Goto(i, "register")
       \/ /\ Job(i) \in dirs \/ May("io")
          /\ FailTo(i, "register")
          /\ UNCHANGED dirs
    /\ UNCHANGED <<runningActions, child, saved>>

\* Mutant: the action is not entered in running_actions.
RegisterNothing(i) ==
    /\ At(i, "register")
    /\ IF task[i].failed \/ Job(i) \in TooLong
       THEN FailTo(i, Deliver(i, "report"))
       ELSE Goto(i, "prepare")
    /\ UNCHANGED <<runningActions, dirs, child, saved>>

\* The rest of create_and_add_action, without an await: a timeout above the
\* maximum is an error (the directory stays), or the action is registered.
RegisterAction(i) ==
    /\ At(i, "register")
    /\ IF task[i].failed \/ Job(i) \in TooLong
       THEN FailTo(i, Deliver(i, "report")) /\ UNCHANGED runningActions
       ELSE /\ Goto(i, "prepare")
            /\ runningActions' = [runningActions EXCEPT ![Job(i)] = i]
    /\ UNCHANGED <<dirs, child, saved>>

-----------------------------------------------------------------------------
(* prepare_action, execute, upload_results, get_finished_result *)

\* inner_prepare_action: the Command is fetched, the inputs are linked into
\* the work directory and the parents of the outputs are made.
PrepareAction(i) ==
    /\ At(i, "prepare")
    /\ \/ task' = [task EXCEPT ![i].step = "execute", ![i].command = TRUE]
       \/ May("store") /\ FailTo(i, "clean_dir")
    /\ UNCHANGED <<runningActions, dirs, child, saved>>

\* inner_execute up to the select loop.  Without arguments, or when the
\* command cannot be spawned, it is an error.
ExecuteSpawn(i) ==
    /\ At(i, "execute")
    /\ \/ /\ task' = [task EXCEPT ![i].step = "running", ![i].command = FALSE]
          /\ child' = [child EXCEPT ![i] = "alive"]
       \/ /\ May("spawn")
          /\ task' = [task EXCEPT ![i].step = "clean_dir", ![i].command = FALSE,
                                  ![i].failed = TRUE]
          /\ UNCHANGED child
    /\ UNCHANGED <<runningActions, dirs, saved>>

\* start_kill: a process that exited already keeps its exit status.
StartKill(i) ==
    child' = [child EXCEPT ![i] = IF @ = "alive" THEN "killed" ELSE @]

\* The branch of sleep_fut, which is fused.
ExecuteTimeout(i) ==
    /\ At(i, "running")
    /\ ~ task[i].expired
    /\ StartKill(i)
    /\ task' = [task EXCEPT ![i].expired = TRUE,
                            ![i].error = @ \cup {"DeadlineExceeded"}]
    /\ UNCHANGED <<runningActions, dirs, saved>>

\* The branch of kill_channel_rx, which is fused.
ExecuteKilled(i) ==
    /\ At(i, "running")
    /\ task[i].kill = "sent"
    /\ ~ task[i].heard
    /\ StartKill(i)
    /\ task' = [task EXCEPT ![i].heard = TRUE, ![i].error = @ \cup {"Aborted"}]
    /\ UNCHANGED <<runningActions, dirs, saved>>

\* The branch of child_process_guard.wait(); the guard is defused.
ExecuteExit(i) ==
    /\ At(i, "running")
    /\ child[i] \in {"zero", "nonzero", "killed"}
    /\ child' = [child EXCEPT ![i] = "none"]
    /\ task' = [task EXCEPT ![i].step = "side_channel",
                            ![i].exit = IF child[i] = "zero" THEN "zero" ELSE "nonzero"]
    /\ UNCHANGED <<runningActions, dirs, saved>>

\* process_side_channel_file and the end of inner_execute: the process may have
\* asked for its result to count as a timeout.
SideChannel(i) ==
    /\ At(i, "side_channel")
    /\ \/ \E e \in {{}, {"DeadlineExceeded"}} :
             task' = [task EXCEPT ![i].step = "upload", ![i].command = TRUE,
                                  ![i].error = @ \cup e]
       \/ May("io") /\ FailTo(i, "clean_dir")
    /\ UNCHANGED <<runningActions, dirs, child, saved>>

\* inner_upload_results
UploadResults(i) ==
    /\ At(i, "upload")
    /\ \/ task' = [task EXCEPT ![i].step = "finish", ![i].command = FALSE]
       \/ May("store") /\ FailTo(i, "clean_dir")
    /\ UNCHANGED <<runningActions, dirs, child, saved>>

\* inner_get_finished_result takes the action_result of the state.
GetFinishedResult(i) ==
    /\ At(i, "finish")
    /\ IF task[i].exit = NoResult THEN FailTo(i, "clean_dir") ELSE Goto(i, "clean_dir")
    /\ UNCHANGED <<runningActions, dirs, child, saved>>

-----------------------------------------------------------------------------
(* do_cleanup, from cleanup() or from Drop *)

\* remove_dir_all; when it fails the cleanup goes on.
CleanDir(i) ==
    /\ \/ /\ At(i, "clean_dir")
          /\ \/ Goto(i, "clean_map") /\ dirs' = dirs \ {Job(i)}
             \/ May("io") /\ FailTo(i, "clean_map") /\ UNCHANGED dirs
       \/ /\ At(i, "drop_dir")
          /\ Goto(i, "drop_map")
          /\ \/ dirs' = dirs \ {Job(i)}
             \/ May("io") /\ UNCHANGED dirs
    /\ UNCHANGED <<runningActions, child, saved>>

\* Mutant: the background cleanup forgets the entry of running_actions.
CleanMapLeaky(i) ==
    /\ \/ /\ At(i, "clean_map")
          /\ IF runningActions[Job(i)] = NoTask \/ task[i].failed
             THEN FailTo(i, Deliver(i, "report")) ELSE Goto(i, Deliver(i, "cache"))
          /\ runningActions' = [runningActions EXCEPT ![Job(i)] = NoTask]
       \/ At(i, "drop_map") /\ Goto(i, "over") /\ UNCHANGED runningActions
    /\ UNCHANGED <<dirs, child, saved>>

\* cleanup_action removes the entry of the operation id, whichever
\* RunningActionImpl it refers to; none is an error.
CleanMap(i) ==
    /\ \/ /\ At(i, "clean_map")
          /\ IF runningActions[Job(i)] = NoTask \/ task[i].failed
             THEN FailTo(i, Deliver(i, "report")) ELSE Goto(i, Deliver(i, "cache"))
       \/ At(i, "drop_map") /\ Goto(i, "over")
    /\ runningActions' = [runningActions EXCEPT ![Job(i)] = NoTask]
    /\ UNCHANGED <<dirs, child, saved>>

\* Dropping an aborted future: Drop of RunningActionImpl starts the cleanup in
\* the background, the guard of the child process its kill.  A create_dir that
\* a blocking thread has begun may still happen.
DropTask(i) ==
    /\ task[i].aborted
    /\ task[i].step \in Transit \cup Live
    /\ Goto(i, IF task[i].step \in Live THEN "drop_dir" ELSE "over")
    /\ dirs' \in {dirs} \cup (IF At(i, "mkdir") THEN {dirs \cup {Job(i)}} ELSE {})
    /\ child' = [child EXCEPT ![i] = CASE At(i, "running") /\ @ = "alive" -> "doomed"
                                       [] At(i, "running") /\ @ # "alive" -> "none"
                                       [] OTHER -> @]
    /\ UNCHANGED <<runningActions, saved>>

\* running_actions_manager_kill_child_process
KillChildProcess(i) ==
    /\ child[i] = "doomed"
    /\ child' = [child EXCEPT ![i] = "none"]
    /\ UNCHANGED <<task, runningActions, dirs, saved>>

\* The process exits by itself.
ChildExits(i) ==
    /\ child[i] \in {"alive", "doomed"}
    /\ \E c \in {"zero", "nonzero"} :
          child' = [child EXCEPT ![i] = IF @ = "alive" THEN c ELSE "none"]
    /\ UNCHANGED <<task, runningActions, dirs, saved>>

-----------------------------------------------------------------------------
(* cache_action_result, kill_operation, kill_all *)

\* should_cache_result
ShouldCacheResult(how, r, infraIsFailure) ==
    LET didFail == r.exit # "zero" \/ (infraIsFailure /\ r.error # {}) IN
    CASE how = "success_only" -> ~ didFail
      [] how = "never" -> FALSE
      [] how = "everything" -> infraIsFailure \/ r.error = {}
      [] how = "failures_only" -> didFail

\* Saving r in one of the two stores, when it should be; it may fail, and then
\* the other one is still tried.
Saved(store, r, should) ==
    IF ~ should THEN {store}
    ELSE {store \cup {r}} \cup (IF May("store") THEN {store} ELSE {})

\* UploadActionResults::cache_action_result: the historical result is saved
\* first; a failure of either is only logged.
CacheActionResult(i) ==
    /\ At(i, "cache")
    /\ LET r == [job |-> Job(i), exit |-> task[i].exit, error |-> task[i].error] IN
       /\ historical' \in Saved(historical, r, ShouldCacheResult(strategy[2], r, TRUE))
       /\ actionCache' \in Saved(actionCache, r, ShouldCacheResult(strategy[1], r, FALSE))
    /\ Goto(i, "report")
    /\ UNCHANGED <<runningActions, dirs, child, strategy>>

\* kill_operation on the actions of the set of jobs J: kill_channel_tx is taken
\* and used.
SendKill(J) ==
    task' = [i \in Tasks |->
                IF \E j \in J : Upgradable(j) /\ runningActions[j] = i
                THEN [task[i] EXCEPT !.kill = "sent"] ELSE task[i]]

\* The wait_for() of complete_actions and of kill_all.
NoRunningActions == \A j \in Jobs : runningActions[j] = NoTask

\* The steps of the future and of what it leaves behind.
TaskStep(i) ==
    \/ Precondition(i) \/ CreateActionInfo(i) \/ MakeActionDirectory(i)
    \/ PrepareAction(i) \/ ExecuteSpawn(i)
    \/ ExecuteTimeout(i) \/ ExecuteKilled(i) \/ ExecuteExit(i)
    \/ SideChannel(i) \/ UploadResults(i) \/ GetFinishedResult(i)
    \/ CleanDir(i) \/ CleanMap(i) \/ CacheActionResult(i)
    \/ KillChildProcess(i) \/ ChildExits(i)

-----------------------------------------------------------------------------
(***************************************************************************)
(* The worker process: nativelink-worker/src/local_worker.rs over its      *)
(* running actions.  LocalWorker::run connects, registers, serves the      *)
(* stream of updates of the scheduler in LocalWorkerImpl::run and, when    *)
(* that returns an error, waits for the actions in transit, kills the      *)
(* actions it runs and connects again.                                     *)
(*                                                                         *)
(* The scheduler is the environment: it starts a job that it has no answer *)
(* pending for on this connection (ApiWorkerScheduler, WorkerRunAction),   *)
(* kills one at any time, and may lose the connection.                     *)
(***************************************************************************)

CONSTANTS
    MaxConnections  \* bound: how often the worker registers

ASSUME ConnectionAssumption == MaxConnections \in Nat

VARIABLES
    conn,           \* where LocalWorker::run is
    conns,          \* connections made so far
    since,          \* task -> the connection it was started on
    inTransit,      \* actions_in_transit of the current LocalWorkerImpl
    reported,       \* tasks whose execution_response was sent
    going           \* how far the shutdown of this worker has come

localVars == <<conn, conns, since, inTransit, reported, going>>
workerVars == <<ramVars, localVars>>

ConnStates == {"connecting", "registering", "serving", "draining", "killing",
          "waiting", "ended"}

WorkerInit ==
    /\ RamInit
    /\ conn = "connecting"
    /\ conns = 0
    /\ since = [i \in Tasks |-> 0]
    /\ inTransit = 0
    /\ reported = {}
    /\ going = "up"

Serving(i) == conn = "serving" /\ since[i] = conns

\* connection_factory, and register_worker up to its connect_worker call; after
\* an error the worker sleeps and tries again.
Connect ==
    /\ conn = "connecting"
    /\ conns < MaxConnections
    /\ conn' = "registering"
    /\ UNCHANGED <<ramVars, conns, since, inTransit, reported, going>>

\* register_worker got the ConnectionResult, and LocalWorkerImpl::new; or an
\* error, an early end or another message came first.
Register ==
    /\ conn = "registering"
    /\ \/ conn' = "serving" /\ conns' = conns + 1 /\ inTransit' = 0
       \/ /\ May("rpc")
          /\ conn' = "connecting"
          /\ UNCHANGED <<conns, inTransit>>
    /\ UNCHANGED <<ramVars, since, reported, going>>

-----------------------------------------------------------------------------
(* LocalWorkerImpl::run *)

\* The scheduler does not start a job it awaits an answer for.
Startable(j) == \A i \in Tasks : Serving(i) /\ Job(i) = j => task[i].step = "over"

\* Update::StartAction
StartAction(i, j) ==
    /\ conn = "serving"
    /\ going = "up"
    /\ At(i, "free")
    /\ Startable(j)
    /\ task' = [task EXCEPT ![i].step = "precondition", ![i].job = j]
    /\ since' = [since EXCEPT ![i] = conns]
    /\ inTransit' = inTransit + 1
    /\ UNCHANGED <<runningActions, dirs, child, saved, conn, conns, reported, going>>

\* Update::KillOperationRequest; an unknown operation is only logged.
KillOperation(j) ==
    /\ conn = "serving"
    /\ SendKill({j})
    /\ UNCHANGED <<runningActions, dirs, child, saved, localVars>>

\* Mutant: actions_in_transit is decremented only on success.
RegisteredOkOnly(i) ==
    /\ RegisterAction(i)
    /\ inTransit' = IF task[i].failed THEN inTransit ELSE inTransit - 1
    /\ UNCHANGED <<conn, conns, since, reported, going>>

\* create_and_add_action returns: the action is no longer in transit.
Registered(i) ==
    /\ RegisterAction(i)
    /\ inTransit' = inTransit - 1
    /\ UNCHANGED <<conn, conns, since, reported, going>>

\* Mutant: the futures are left running.
RunEndsDetached ==
    /\ conn' = "draining"
    /\ task' = [i \in Tasks |->
                  IF since[i] = conns /\ task[i].step \in Publish
                  THEN Over(i) ELSE task[i]]
    /\ UNCHANGED <<runningActions, dirs, child, saved, conns, since, inTransit, reported>>

\* LocalWorkerImpl::run returns an error: its futures are dropped, which aborts
\* the spawned ones and loses what was to be published.
RunEnds ==
    /\ conn' = "draining"
    /\ task' = [i \in Tasks |->
                  IF since[i] # conns \/ task[i].step \in {"free", "over"} THEN task[i]
                  ELSE IF task[i].step \in Publish THEN Over(i)
                  ELSE [task[i] EXCEPT !.aborted = TRUE]]
    /\ UNCHANGED <<runningActions, dirs, child, saved, conns, since, inTransit, reported>>

\* The update stream ended or failed, a keep alive failed, an update was not
\* understood.
Disconnected ==
    /\ May("rpc")
    /\ conn = "serving"
    /\ RunEnds
    /\ UNCHANGED going

\* execution_response
Report(i) ==
    /\ At(i, "report")
    /\ Serving(i)
    /\ \/ /\ Goto(i, "over")
          /\ reported' = reported \cup {i}
          /\ UNCHANGED <<runningActions, dirs, child, saved, conn, conns, since, inTransit>>
       \/ May("rpc") /\ RunEnds
    /\ UNCHANGED going

\* shutdown_rx: the worker says that it goes away; then complete_actions.
GoingAway ==
    /\ conn = "serving"
    /\ \/ /\ going = "up"
          /\ \/ going' = "away" /\ UNCHANGED <<ramVars, conn, conns, since, inTransit, reported>>
             \/ May("rpc") /\ going' = "failed" /\ RunEnds
       \/ /\ going = "away"
          /\ NoRunningActions
          /\ going' = "completed"
          /\ UNCHANGED <<ramVars, conn, conns, since, inTransit, reported>>

-----------------------------------------------------------------------------
(* LocalWorker::run after an error *)

\* The poll of actions_in_transit, and its last iteration.
DrainTransit ==
    /\ conn = "draining"
    /\ conn' \in IF inTransit = 0 THEN {"killing"} ELSE {"ended"}
    /\ UNCHANGED <<ramVars, conns, since, inTransit, reported, going>>

\* Mutant: the actions are killed and not waited for.
KillAllAsync ==
    /\ conn = "killing"
    /\ SendKill(Jobs)
    /\ conn' = "connecting"
    /\ UNCHANGED <<runningActions, dirs, child, saved, conns, since, inTransit, reported, going>>

\* kill_all, up to its wait_for.
KillAll ==
    /\ conn = "killing"
    /\ SendKill(Jobs)
    /\ conn' = "waiting"
    /\ UNCHANGED <<runningActions, dirs, child, saved, conns, since, inTransit, reported, going>>

\* kill_all returns; after a delay the worker connects again.
Killed ==
    /\ conn = "waiting"
    /\ NoRunningActions
    /\ conn' = "connecting"
    /\ UNCHANGED <<ramVars, conns, since, inTransit, reported, going>>

LocalStep(i) ==
    \/ TaskStep(i) /\ UNCHANGED localVars
    \/ DropTask(i) /\ UNCHANGED localVars
    \/ Registered(i)
    \/ Report(i)

WorkerNext ==
    \/ Connect \/ Register \/ Disconnected \/ GoingAway
    \/ DrainTransit \/ KillAll \/ Killed
    \/ \E j \in Jobs : KillOperation(j) \/ \E i \in Tasks : StartAction(i, j)
    \/ \E i \in Tasks : LocalStep(i)

WorkerSpec == WorkerInit /\ [][WorkerNext]_workerVars

\* Runtime and blocking threads poll every future that is ready, processes end
\* or are killed, and LocalWorker::run goes on after an error.  Nothing obliges
\* the scheduler, the timers, the shutdown or a failure.
WorkerFairness ==
    /\ \A i \in Tasks : WF_workerVars(LocalStep(i))
    /\ WF_workerVars(DrainTransit) /\ WF_workerVars(KillAll) /\ WF_workerVars(Killed)

WorkerFairSpec == WorkerSpec /\ WorkerFairness

-----------------------------------------------------------------------------
(* Properties *)

\* Type invariant of the worker process.
WorkerTypeOK ==
    /\ task \in [Tasks -> Task]
    /\ runningActions \in [Jobs -> Tasks \cup {NoTask}]
    /\ dirs \subseteq Jobs
    /\ child \in [Tasks -> Children]
    /\ \A r \in actionCache \cup historical : r.job \in Jobs /\ r.exit # NoResult
    /\ strategy \in Strategies
    /\ conn \in ConnStates
    /\ conns \in 0..MaxConnections
    /\ since \in [Tasks -> 0..MaxConnections]
    /\ inTransit \in 0..Cardinality(Tasks)
    /\ reported \subseteq Tasks
    /\ going \in {"up", "away", "failed", "completed"}

\* A kill finds every action that runs: the entry of running_actions refers to
\* the RunningActionImpl that is alive, although entries are removed by
\* operation id and an operation may be started again.
AliveIsRegistered ==
    \A i \in Tasks : task[i].step \in Live => runningActions[Job(i)] = i

\* Before it connects again the worker has let go of every action of the last
\* connection: none is in transit, running or waiting to be cleaned up, so
\* kill_all left nothing that could meet a job started again.
QuietBeforeReconnect ==
    conn \in {"connecting", "registering", "serving"} =>
        \A i \in Tasks : since[i] < conns \/ conn # "serving" =>
            task[i].step \in {"free", "over"}

\* No action has its directory in use twice, and an action that is prepared,
\* executed or uploaded still has it.
DirectoryInUse ==
    \A i \in Tasks :
        task[i].step \in {"prepare", "execute", "running", "side_channel", "upload"} =>
            /\ Job(i) \in dirs
            /\ \A k \in Tasks \ {i} :
                  task[k].step \in Live \cup Background => Job(k) # Job(i)

\* Claimed at running_actions_manager.rs, should_cache_result: "Never cache
\* internal errors or timeouts."
TimeoutsNotCached == \A r \in actionCache : "DeadlineExceeded" \notin r.error

\* Claimed at running_actions_manager.rs, kill_all: "When the future returns the
\* process should be fully killed and cleaned up."
KillAllKills ==
    conn = "registering" => \A i \in Tasks : child[i] \notin {"alive", "doomed"}

\* Claimed at local_worker.rs, actions_in_transit: "This number should always be
\* zero if there are no actions running and no actions being waited on by the
\* scheduler."
TransitIsZeroWhenIdle ==
    (\A i \in Tasks : task[i].step \in {"free", "over"}) => inTransit = 0
=============================================================================
