---------------------------- MODULE WorkerProofs ----------------------------
(***************************************************************************)
(* Where actions are on a worker, for every set of jobs, tasks and faults  *)
(* and any number of connections: under their entry of running_actions, in *)
(* a directory of their own, and gone before the worker connects again;    *)
(* and that an action only ever runs where its properties are met.         *)
(***************************************************************************)
EXTENDS LocalWorker, PlatformProperties, FiniteSetTheorems, TLAPS

-----------------------------------------------------------------------------
(* The worker process *)

Active(i) == task[i].step \notin {"free", "over"}
InTransit == {i \in Tasks : task[i].step \in Transit}

WTypes ==
    /\ task \in [Tasks -> Task]
    /\ runningActions \in [Jobs -> Tasks \cup {NoTask}]
    /\ dirs \subseteq Jobs
    /\ conn \in ConnStates
    /\ conns \in Nat
    /\ since \in [Tasks -> Nat]
    /\ inTransit \in Int
    /\ \A i \in Tasks : Active(i) => Job(i) \in Jobs

\* What is active was started on the current connection, which serves it or is
\* being given up; only a run that ended for good leaves actions behind.
OfThisConnection ==
    \A i \in Tasks : Active(i) =>
        \/ conn = "ended"
        \/ conn \in {"serving", "draining", "killing", "waiting"} /\ since[i] = conns

\* One active task per job, registered from the end of create_and_add_action to
\* the end of its cleanup.
OnePerJob ==
    /\ \A i, k \in Tasks : Active(i) /\ Active(k) /\ Job(i) = Job(k) => i = k
    /\ \A i \in Tasks : task[i].step \in Live \cup Background => runningActions[Job(i)] = i

\* actions_in_transit counts the futures that have not registered their action,
\* and those that were dropped before they did.
TransitCounted ==
    /\ IsFiniteSet(InTransit)
    /\ conn \in {"serving", "draining"} => Cardinality(InTransit) <= inTransit
    /\ conn \in {"killing", "waiting"} => InTransit = {}

\* Once LocalWorkerImpl::run has returned, every future left is aborted, and none
\* publishes a result.
GivenUp ==
    conn \in {"draining", "killing", "waiting"} =>
        \A i \in Tasks : Active(i) => task[i].aborted /\ task[i].step \notin Publish

\* The directory is there from the end of create_dir to the cleanup.
HasDirectory ==
    \A i \in Tasks :
        \/ task[i].step = "register" /\ ~task[i].failed
        \/ task[i].step \in {"prepare", "execute", "running", "side_channel", "upload"}
        => Job(i) \in dirs

WInv ==
    /\ WTypes /\ OfThisConnection /\ OnePerJob /\ TransitCounted /\ GivenUp /\ HasDirectory

\* One active task goes on to another step, or is over.
Advance(i) ==
    /\ task' \in [Tasks -> Task]
    /\ \A k \in Tasks \ {i} : task'[k] = task[k]
    /\ task'[i].job = task[i].job
    /\ task'[i].step # "free"
    /\ task'[i].step = "over" \/ task'[i].aborted = task[i].aborted

NeedsDirectory(t) ==
    \/ t.step = "register" /\ ~t.failed
    \/ t.step \in {"prepare", "execute", "running", "side_channel", "upload"}

LEMMA TransitAdvances ==
    ASSUME TransitCounted, inTransit \in Int, NEW i \in Tasks, Advance(i), conn' = conn,
           task'[i].step \in Transit => task[i].step \in Transit,
           \/ inTransit' = inTransit
           \/ /\ task[i].step \in Transit /\ task'[i].step \notin Transit
              /\ inTransit' = inTransit - 1
    PROVE  TransitCounted'
PROOF
  <1>1. InTransit' \subseteq InTransit
    BY DEF InTransit, Advance
  <1>2. IsFiniteSet(InTransit') /\ Cardinality(InTransit') <= Cardinality(InTransit)
    BY <1>1, FS_Subset DEF TransitCounted
  <1>3. Cardinality(InTransit) \in Nat /\ Cardinality(InTransit') \in Nat
    BY <1>2, FS_CardinalityType DEF TransitCounted
  <1>4. CASE task[i].step \in Transit /\ task'[i].step \notin Transit
    <2>1. i \in InTransit /\ InTransit' \subseteq InTransit \ {i}
      BY <1>1, <1>4 DEF InTransit
    <2>2. /\ IsFiniteSet(InTransit \ {i})
          /\ Cardinality(InTransit \ {i}) = Cardinality(InTransit) - 1
      BY <2>1, FS_RemoveElement DEF TransitCounted
    <2>3. Cardinality(InTransit') <= Cardinality(InTransit \ {i})
      BY <2>1, <2>2, FS_Subset
    <2>4. QED
      BY <1>1, <1>2, <1>3, <2>2, <2>3 DEF TransitCounted
  <1>5. CASE inTransit' = inTransit
    BY <1>1, <1>2, <1>3, <1>5 DEF TransitCounted
  <1>6. QED
    BY <1>4, <1>5

\* What a step of one task has to keep, and then keeps the invariant.
LEMMA AdvanceKeeps ==
    ASSUME WInv, NEW i \in Tasks, Active(i), Advance(i), UNCHANGED <<conn, conns, since>>,
           runningActions' \in [Jobs -> Tasks \cup {NoTask}], dirs' \subseteq Jobs, inTransit' \in Int,
           task'[i].step \in Live \cup Background => runningActions'[Job(i)] = i,
           \A j \in Jobs \ {Job(i)} : runningActions'[j] = runningActions[j],
           task'[i].step \in Transit => task[i].step \in Transit,
           \/ inTransit' = inTransit
           \/ /\ task[i].step \in Transit /\ task'[i].step \notin Transit
              /\ inTransit' = inTransit - 1,
           task'[i].step \in Publish => task[i].step \in Publish \/ ~task[i].aborted,
           \A j \in Jobs \ {Job(i)} : j \in dirs => j \in dirs',
           NeedsDirectory(task'[i]) => Job(i) \in dirs'
    PROVE  WInv'
PROOF
  <1>1. \A k \in Tasks : Active(k)' => Active(k) /\ task'[k].job = task[k].job
    BY DEF Active, Advance
  <1>2. \A k \in Tasks \ {i} : Active(k) => Job(k) # Job(i) /\ Job(k) \in Jobs
    BY DEF WInv, OnePerJob, WTypes
  <1>3. WTypes'
    BY <1>1 DEF WInv, WTypes, Advance, Job
  <1>4. OfThisConnection'
    BY <1>1 DEF WInv, OfThisConnection
  <1>5. OnePerJob'
    <2>1. \A k, m \in Tasks : Active(k)' /\ Active(m)' /\ Job(k)' = Job(m)' => k = m
      BY <1>1 DEF WInv, OnePerJob, Job
    <2>2. ASSUME NEW k \in Tasks, task'[k].step \in Live \cup Background
          PROVE  runningActions'[Job(k)'] = k
      <3>1. CASE k = i
        BY <2>2, <3>1 DEF Advance, Job
      <3>2. CASE k # i
        <4>1. task'[k] = task[k] /\ Active(k)
          BY <2>2, <3>2 DEF Advance, Active, Live, Background
        <4>2. Job(k) \in Jobs \ {Job(i)} /\ Job(k)' = Job(k)
          BY <1>2, <3>2, <4>1 DEF Job
        <4>3. runningActions[Job(k)] = k
          BY <2>2, <4>1 DEF WInv, OnePerJob
        <4>4. QED
          BY <4>2, <4>3
      <3>3. QED
        BY <3>1, <3>2
    <2>3. QED
      BY <2>1, <2>2 DEF OnePerJob
  <1>6. TransitCounted'
    BY TransitAdvances DEF WInv, WTypes
  <1>7. GivenUp'
    <2>1. SUFFICES ASSUME conn \in {"draining", "killing", "waiting"}, NEW k \in Tasks, Active(k)'
                   PROVE  task'[k].aborted /\ task'[k].step \notin Publish
      BY DEF GivenUp
    <2>2. Active(k) /\ task[k].aborted /\ task[k].step \notin Publish
      BY <1>1, <2>1 DEF WInv, GivenUp
    <2>3. QED
      BY <2>1, <2>2 DEF Advance, Active
  <1>8. HasDirectory'
    <2>1. SUFFICES ASSUME NEW k \in Tasks, NeedsDirectory(task'[k]) PROVE task'[k].job \in dirs'
      BY DEF HasDirectory, NeedsDirectory, Job
    <2>2. CASE k = i
      BY <2>1, <2>2 DEF Advance, Job
    <2>3. CASE k # i
      <3>1. task'[k] = task[k]
        BY <2>3 DEF Advance
      <3>2. Job(k) \in dirs /\ Active(k)
        BY <2>1, <3>1 DEF WInv, HasDirectory, NeedsDirectory, Active
      <3>3. QED
        BY <1>2, <2>3, <3>1, <3>2 DEF Job
    <2>4. QED
      BY <2>2, <2>3
  <1>9. QED
    BY <1>3, <1>4, <1>5, <1>6, <1>7, <1>8 DEF WInv

-----------------------------------------------------------------------------
(* The steps of a task *)

\* task[i] is replaced by the record t.
LEMMA Replaced ==
    ASSUME WTypes, NEW i \in Tasks, NEW t \in Task, task' = [task EXCEPT ![i] = t],
           t.job = Job(i), t.step # "free", t.step = "over" \/ t.aborted = task[i].aborted
    PROVE  Advance(i) /\ task'[i] = t
PROOF
  <1>1. task' \in [Tasks -> Task] /\ task'[i] = t /\ \A k \in Tasks \ {i} : task'[k] = task[k]
    BY Zenon DEF WTypes
  <1>2. QED
    BY <1>1 DEF Advance, Job

\* Goto and FailTo, at every step but "free".
LEMMA GoesTo ==
    ASSUME WTypes, NEW i \in Tasks, NEW s \in Steps \ {"free"}, Goto(i, s)
    PROVE  /\ Advance(i) /\ task'[i].step = s
           /\ s # "over" => task'[i].failed = task[i].failed
PROOF
  <1>1. task[i] \in Task
    BY DEF WTypes
  <1>2. CASE s = "over"
    <2>1. task' = [task EXCEPT ![i] = Over(i)]
      BY <1>2 DEF Goto
    <2>2. Over(i) \in Task /\ Over(i).job = Job(i) /\ Over(i).step = "over"
      BY <1>1, Zenon DEF Over, FreeTask, Task, Job, Steps, Exits, NoResult
    <2>3. QED
      BY <1>2, <2>1, <2>2, Replaced, Zenon
  <1>3. CASE s # "over"
    <2> DEFINE t == [task[i] EXCEPT !.step = s]
    <2>1. task' = [task EXCEPT ![i] = t]
      BY <1>3 DEF Goto
    <2>2. /\ t \in Task /\ t.job = Job(i) /\ t.step = s /\ t.aborted = task[i].aborted
          /\ t.failed = task[i].failed
      BY <1>1 DEF Task, Job
    <2> HIDE DEF t
    <2>3. QED
      BY <1>3, <2>1, <2>2, Replaced, Zenon
  <1>4. QED
    BY <1>2, <1>3

LEMMA FailsTo ==
    ASSUME WTypes, NEW i \in Tasks, NEW s \in Steps \ {"free"}, FailTo(i, s)
    PROVE  /\ Advance(i) /\ task'[i].step = s
           /\ s # "over" => task'[i].failed = TRUE
PROOF
  <1>1. task[i] \in Task
    BY DEF WTypes
  <1>2. CASE s = "over"
    <2>1. task' = [task EXCEPT ![i] = Over(i)]
      BY <1>2 DEF FailTo
    <2>2. Over(i) \in Task /\ Over(i).job = Job(i) /\ Over(i).step = "over"
      BY <1>1, Zenon DEF Over, FreeTask, Task, Job, Steps, Exits, NoResult
    <2>3. QED
      BY <1>2, <2>1, <2>2, Replaced, Zenon
  <1>3. CASE s # "over"
    <2> DEFINE t == [task[i] EXCEPT !.step = s, !.failed = TRUE]
    <2>1. task' = [task EXCEPT ![i] = t]
      BY <1>3 DEF FailTo
    <2>2. /\ t \in Task /\ t.job = Job(i) /\ t.step = s /\ t.aborted = task[i].aborted
          /\ t.failed = TRUE
      BY <1>1, Zenon DEF Task, Job
    <2> HIDE DEF t
    <2>3. QED
      BY <1>3, <2>1, <2>2, Replaced, Zenon
  <1>4. QED
    BY <1>2, <1>3, Zenon

\* A step that changes nothing but the task: it stays in its phase, fails on the
\* way to the registration, or its result is cached.
LEMMA StaysKeeps ==
    ASSUME WInv, NEW i \in Tasks, Advance(i), UNCHANGED <<runningActions, dirs, localVars>>,
           \/ /\ task[i].step \in Transit /\ task'[i].step \in Transit
              /\ ~NeedsDirectory(task'[i])
           \/ /\ task[i].step \in Live /\ task'[i].step \in Live
              /\ NeedsDirectory(task'[i]) => NeedsDirectory(task[i])
           \/ task[i].step \in Publish /\ task'[i].step \in Publish
    PROVE  WInv'
PROOF
  <1>1. Active(i)
    BY DEF Active, Transit, Live, Publish
  <1>2. runningActions \in [Jobs -> Tasks \cup {NoTask}] /\ dirs \subseteq Jobs /\ inTransit \in Int
    BY DEF WInv, WTypes
  <1>3. UNCHANGED <<conn, conns, since, inTransit>>
    BY DEF localVars
  <1>4. task'[i].step \in Live \cup Background => runningActions[Job(i)] = i
    BY DEF WInv, OnePerJob, Transit, Live, Publish, Background
  <1>5. task'[i].step \in Transit => task[i].step \in Transit
    BY DEF Transit, Live, Publish
  <1>6. task'[i].step \in Publish => task[i].step \in Publish
    BY DEF Transit, Live, Publish
  <1>7. NeedsDirectory(task'[i]) => Job(i) \in dirs
    BY DEF WInv, HasDirectory, NeedsDirectory, Publish
  <1>8. QED
    BY <1>1, <1>2, <1>3, <1>4, <1>5, <1>6, <1>7, AdvanceKeeps

\* The steps of create_and_add_action up to make_action_directory.
LEMMA TransitStepKeeps ==
    ASSUME WInv, NEW i \in Tasks, UNCHANGED localVars,
           Precondition(i) \/ CreateActionInfo(i) \/ MakeActionDirectory(i)
    PROVE  WInv'
PROOF
  <1>0. WTypes /\ {"info", "register", "mkdir"} \subseteq Steps \ {"free"}
    BY DEF WInv, Steps, Transit
  <1>1. CASE Precondition(i) \/ CreateActionInfo(i)
    <2>1. /\ Advance(i) /\ task[i].step \in {"precondition", "info"}
          /\ \/ task'[i].step \in {"info", "mkdir"}
             \/ task'[i].step = "register" /\ task'[i].failed = TRUE
          /\ UNCHANGED <<runningActions, dirs>>
      BY <1>0, <1>1, GoesTo, FailsTo, Zenon DEF Precondition, CreateActionInfo, At
    <2>2. ~NeedsDirectory(task'[i]) /\ task[i].step \in Transit /\ task'[i].step \in Transit
      BY <2>1 DEF NeedsDirectory, Transit
    <2>3. QED
      BY <2>1, <2>2, StaysKeeps
  <1>2. CASE MakeActionDirectory(i)
    <2>1. /\ Advance(i) /\ task[i].step = "mkdir" /\ task'[i].step = "register"
          /\ \/ dirs' = dirs \cup {Job(i)}
             \/ task'[i].failed = TRUE /\ dirs' = dirs
          /\ UNCHANGED runningActions
      BY <1>0, <1>2, GoesTo, FailsTo, Zenon DEF MakeActionDirectory, At
    <2>2. Active(i) /\ Job(i) \in Jobs
      BY <2>1 DEF Active, WInv, WTypes
    <2>3. /\ runningActions \in [Jobs -> Tasks \cup {NoTask}] /\ dirs' \subseteq Jobs
          /\ inTransit \in Int
      BY <2>1, <2>2 DEF WInv, WTypes
    <2>4. /\ task'[i].step \notin Live \cup Background /\ task'[i].step \notin Publish
          /\ task[i].step \in Transit
      BY <2>1 DEF Live, Background, Publish, Transit
    <2>5. NeedsDirectory(task'[i]) => Job(i) \in dirs'
      BY <2>1 DEF NeedsDirectory
    <2>6. UNCHANGED <<conn, conns, since, inTransit>> /\ \A j \in Jobs : j \in dirs => j \in dirs'
      BY <2>1 DEF localVars
    <2>7. QED
      BY <2>1, <2>2, <2>3, <2>4, <2>5, <2>6, AdvanceKeeps
  <1>3. QED
    BY <1>1, <1>2

\* The steps from prepare_action to get_finished_result.
LEMMA LiveStepKeeps ==
    ASSUME WInv, NEW i \in Tasks, UNCHANGED localVars,
           \/ PrepareAction(i) \/ ExecuteSpawn(i) \/ ExecuteTimeout(i) \/ ExecuteKilled(i)
           \/ ExecuteExit(i) \/ SideChannel(i) \/ UploadResults(i) \/ GetFinishedResult(i)
    PROVE  WInv'
PROOF
  <1>0. /\ WTypes /\ task[i] \in Task
        /\ {"execute", "running", "side_channel", "upload", "finish", "clean_dir"}
              \subseteq Steps \ {"free"}
    BY DEF WInv, WTypes, Steps, Live
  <1>1. UNCHANGED <<runningActions, dirs>>
    BY DEF PrepareAction, ExecuteSpawn, ExecuteTimeout, ExecuteKilled, ExecuteExit, SideChannel,
           UploadResults, GetFinishedResult
  <1> DEFINE Busy == {"prepare", "execute", "running", "side_channel", "upload"}
  <1>2. ASSUME NEW t \in Task, task' = [task EXCEPT ![i] = t], t.job = Job(i),
               t.aborted = task[i].aborted, t.step \in Live, task[i].step \in Busy \cup {"finish"},
               t.step \in Busy => task[i].step \in Busy
        PROVE  WInv'
    <2>1. t.step # "free"
      BY <1>2 DEF Live
    <2>2. Advance(i) /\ task'[i] = t
      BY <1>0, <1>2, <2>1, Replaced, Zenon
    <2>3. task[i].step \in Live /\ (NeedsDirectory(t) => NeedsDirectory(task[i]))
      BY <1>2 DEF Live, NeedsDirectory
    <2>4. QED
      BY <1>1, <1>2, <2>2, <2>3, StaysKeeps
  <1>3. ASSUME Goto(i, "clean_dir") \/ FailTo(i, "clean_dir"), task[i].step \in Busy \cup {"finish"}
        PROVE  WInv'
    <2>1. Advance(i) /\ task'[i].step = "clean_dir"
      BY <1>0, <1>3, GoesTo, FailsTo, Zenon
    <2>2. task[i].step \in Live /\ task'[i].step \in Live /\ ~NeedsDirectory(task'[i])
      BY <1>3, <2>1 DEF Live, NeedsDirectory
    <2>3. QED
      BY <1>1, <2>1, <2>2, StaysKeeps
  <1>4. CASE PrepareAction(i)
    <2>1. CASE FailTo(i, "clean_dir")
      BY <1>3, <1>4, <2>1 DEF PrepareAction, At
    <2>2. CASE task' = [task EXCEPT ![i].step = "execute", ![i].command = TRUE]
      <3> DEFINE t == [task[i] EXCEPT !.step = "execute", !.command = TRUE]
      <3>1. task' = [task EXCEPT ![i] = t]
        BY <1>0, <2>2, Zenon DEF WTypes
      <3>2. t \in Task /\ t.job = Job(i) /\ t.aborted = task[i].aborted /\ t.step = "execute"
        BY <1>0, Zenon DEF Task, Job
      <3> HIDE DEF t
      <3>3. QED
        BY <1>2, <1>4, <3>1, <3>2, Zenon DEF PrepareAction, At, Live
    <2>3. QED
      BY <1>4, <2>1, <2>2 DEF PrepareAction
  <1>5. CASE ExecuteSpawn(i)
    <2>1. CASE task' = [task EXCEPT ![i].step = "running", ![i].command = FALSE]
      <3> DEFINE t == [task[i] EXCEPT !.step = "running", !.command = FALSE]
      <3>1. task' = [task EXCEPT ![i] = t]
        BY <1>0, <2>1, Zenon DEF WTypes
      <3>2. t \in Task /\ t.job = Job(i) /\ t.aborted = task[i].aborted /\ t.step = "running"
        BY <1>0, Zenon DEF Task, Job
      <3> HIDE DEF t
      <3>3. QED
        BY <1>2, <1>5, <3>1, <3>2, Zenon DEF ExecuteSpawn, At, Live
    <2>2. CASE task' = [task EXCEPT ![i].step = "clean_dir", ![i].command = FALSE,
                                    ![i].failed = TRUE]
      <3> DEFINE t == [task[i] EXCEPT !.step = "clean_dir", !.command = FALSE, !.failed = TRUE]
      <3>1. task' = [task EXCEPT ![i] = t]
        BY <1>0, <2>2, Zenon DEF WTypes
      <3>2. t \in Task /\ t.job = Job(i) /\ t.aborted = task[i].aborted /\ t.step = "clean_dir"
        BY <1>0, Zenon DEF Task, Job
      <3> HIDE DEF t
      <3>3. QED
        BY <1>2, <1>5, <3>1, <3>2, Zenon DEF ExecuteSpawn, At, Live
    <2>3. QED
      BY <1>5, <2>1, <2>2 DEF ExecuteSpawn
  <1>6. CASE ExecuteTimeout(i)
    <2> DEFINE t == [task[i] EXCEPT !.expired = TRUE, !.error = @ \cup {"DeadlineExceeded"}]
    <2>1. task' = [task EXCEPT ![i] = t]
      BY <1>0, <1>6, Zenon DEF ExecuteTimeout, WTypes
    <2>2. t \in Task /\ t.job = Job(i) /\ t.aborted = task[i].aborted /\ t.step = task[i].step
      BY <1>0, Zenon DEF Task, Job, Errors
    <2> HIDE DEF t
    <2>3. QED
      BY <1>2, <1>6, <2>1, <2>2, Zenon DEF ExecuteTimeout, At, Live
  <1>7. CASE ExecuteKilled(i)
    <2> DEFINE t == [task[i] EXCEPT !.heard = TRUE, !.error = @ \cup {"Aborted"}]
    <2>1. task' = [task EXCEPT ![i] = t]
      BY <1>0, <1>7, Zenon DEF ExecuteKilled, WTypes
    <2>2. t \in Task /\ t.job = Job(i) /\ t.aborted = task[i].aborted /\ t.step = task[i].step
      BY <1>0, Zenon DEF Task, Job, Errors
    <2> HIDE DEF t
    <2>3. QED
      BY <1>2, <1>7, <2>1, <2>2, Zenon DEF ExecuteKilled, At, Live
  <1>8. CASE ExecuteExit(i)
    <2> DEFINE e == IF child[i] = "zero" THEN "zero" ELSE "nonzero"
               t == [task[i] EXCEPT !.step = "side_channel", !.exit = e]
    <2>1. task' = [task EXCEPT ![i] = t]
      BY <1>0, <1>8, Zenon DEF ExecuteExit, WTypes
    <2>2. t \in Task /\ t.job = Job(i) /\ t.aborted = task[i].aborted /\ t.step = "side_channel"
      BY <1>0, Zenon DEF Task, Job, Exits
    <2> HIDE DEF t
    <2>3. QED
      BY <1>2, <1>8, <2>1, <2>2, Zenon DEF ExecuteExit, At, Live
  <1>9. CASE SideChannel(i)
    <2>1. CASE FailTo(i, "clean_dir")
      BY <1>3, <1>9, <2>1 DEF SideChannel, At
    <2>2. ASSUME NEW e \in {{}, {"DeadlineExceeded"}},
                 task' = [task EXCEPT ![i].step = "upload", ![i].command = TRUE,
                                      ![i].error = @ \cup e]
          PROVE  WInv'
      <3> DEFINE t == [task[i] EXCEPT !.step = "upload", !.command = TRUE, !.error = @ \cup e]
      <3>1. task' = [task EXCEPT ![i] = t]
        BY <1>0, <2>2, Zenon DEF WTypes
      <3>2. t \in Task /\ t.job = Job(i) /\ t.aborted = task[i].aborted /\ t.step = "upload"
        BY <1>0, Zenon DEF Task, Job, Errors
      <3> HIDE DEF t
      <3>3. QED
        BY <1>2, <1>9, <3>1, <3>2, Zenon DEF SideChannel, At, Live
    <2>3. QED
      BY <1>9, <2>1, <2>2 DEF SideChannel
  <1>10. CASE UploadResults(i)
    <2>1. CASE FailTo(i, "clean_dir")
      BY <1>3, <1>10, <2>1 DEF UploadResults, At
    <2>2. CASE task' = [task EXCEPT ![i].step = "finish", ![i].command = FALSE]
      <3> DEFINE t == [task[i] EXCEPT !.step = "finish", !.command = FALSE]
      <3>1. task' = [task EXCEPT ![i] = t]
        BY <1>0, <2>2, Zenon DEF WTypes
      <3>2. t \in Task /\ t.job = Job(i) /\ t.aborted = task[i].aborted /\ t.step = "finish"
        BY <1>0, Zenon DEF Task, Job
      <3> HIDE DEF t
      <3>3. QED
        BY <1>2, <1>10, <3>1, <3>2, Zenon DEF UploadResults, At, Live
    <2>3. QED
      BY <1>10, <2>1, <2>2 DEF UploadResults
  <1>11. CASE GetFinishedResult(i)
    BY <1>3, <1>11 DEF GetFinishedResult, At
  <1>12. QED
    BY <1>4, <1>5, <1>6, <1>7, <1>8, <1>9, <1>10, <1>11, SMTT(20)

\* The directory is removed, for a task that no longer needs it, and then the
\* entry of running_actions, which is the task's own.
LEMMA CleanupKeeps ==
    ASSUME WInv, NEW i \in Tasks, UNCHANGED localVars, CleanDir(i) \/ CleanMap(i)
    PROVE  WInv'
PROOF
  <1>0. /\ WTypes /\ {"clean_map", "drop_map", "over", "report", "cache"} \subseteq Steps \ {"free"}
        /\ runningActions \in [Jobs -> Tasks \cup {NoTask}] /\ dirs \subseteq Jobs /\ inTransit \in Int
    BY DEF WInv, WTypes, Steps, Live, Background, Publish
  <1>1. UNCHANGED <<conn, conns, since, inTransit>>
    BY DEF localVars
  <1>2. CASE CleanDir(i)
    <2>1. /\ Advance(i) /\ dirs' \in {dirs, dirs \ {Job(i)}} /\ UNCHANGED runningActions
          /\ \/ task[i].step = "clean_dir" /\ task'[i].step = "clean_map"
             \/ task[i].step = "drop_dir" /\ task'[i].step = "drop_map"
      BY <1>0, <1>2, GoesTo, FailsTo, Zenon DEF CleanDir, At
    <2>2. /\ Active(i) /\ dirs' \subseteq Jobs /\ runningActions[Job(i)] = i
          /\ \A j \in Jobs \ {Job(i)} : j \in dirs => j \in dirs'
      BY <1>0, <2>1 DEF Active, WInv, OnePerJob, Live, Background
    <2>3. /\ task'[i].step \notin Transit \cup Publish /\ ~NeedsDirectory(task'[i])
      BY <2>1 DEF Transit, Publish, NeedsDirectory
    <2>4. QED
      BY <1>0, <1>1, <2>1, <2>2, <2>3, AdvanceKeeps, SMTT(20)
  <1>3. CASE CleanMap(i)
    <2>1. /\ task[i].step \in {"clean_map", "drop_map"} /\ UNCHANGED dirs
          /\ runningActions' = [runningActions EXCEPT ![Job(i)] = NoTask]
      BY <1>3 DEF CleanMap, At
    <2>2. /\ Advance(i) /\ task'[i].step \in {"over", "report", "cache"}
          /\ task'[i].step \in Publish => ~task[i].aborted
      <3>1. CASE Goto(i, "over")
        BY <1>0, <3>1, GoesTo DEF Publish
      <3>2. CASE FailTo(i, Deliver(i, "report"))
        <4>1. Deliver(i, "report") \in {"over", "report"}
          BY DEF Deliver
        <4>2. Advance(i) /\ task'[i].step = Deliver(i, "report")
          BY <1>0, <3>2, <4>1, FailsTo, Zenon
        <4>3. QED
          BY <4>1, <4>2 DEF Deliver, Publish
      <3>3. CASE Goto(i, Deliver(i, "cache"))
        <4>1. Deliver(i, "cache") \in {"over", "cache"}
          BY DEF Deliver
        <4>2. Advance(i) /\ task'[i].step = Deliver(i, "cache")
          BY <1>0, <3>3, <4>1, GoesTo
        <4>3. QED
          BY <4>1, <4>2 DEF Deliver, Publish
      <3>4. QED
        BY <1>3, <3>1, <3>2, <3>3, SMTT(20) DEF CleanMap
    <2>3. Active(i)
      BY <2>1 DEF Active
    <2>4. /\ runningActions' \in [Jobs -> Tasks \cup {NoTask}]
          /\ \A j \in Jobs \ {Job(i)} : runningActions'[j] = runningActions[j]
      BY <1>0, <2>1, Zenon
    <2>5. task'[i].step \notin Transit \cup Live \cup Background /\ ~NeedsDirectory(task'[i])
      BY <2>2 DEF Transit, Live, Background, NeedsDirectory
    <2>6. QED
      BY <1>0, <1>1, <2>1, <2>2, <2>3, <2>4, <2>5, AdvanceKeeps
  <1>4. QED
    BY <1>2, <1>3

\* A future that was aborted is dropped: the cleanup goes on in the background,
\* or the action was never registered.
LEMMA DropKeeps ==
    ASSUME WInv, NEW i \in Tasks, UNCHANGED localVars, DropTask(i)
    PROVE  WInv'
PROOF
  <1>0. /\ WTypes /\ {"drop_dir", "over"} \subseteq Steps \ {"free"}
        /\ runningActions \in [Jobs -> Tasks \cup {NoTask}] /\ dirs \subseteq Jobs /\ inTransit \in Int
    BY DEF WInv, WTypes, Steps, Background
  <1>1. UNCHANGED <<conn, conns, since, inTransit, runningActions>>
    BY DEF localVars, DropTask
  <1>2. /\ Advance(i) /\ task[i].step \in Transit \cup Live
        /\ task'[i].step = IF task[i].step \in Live THEN "drop_dir" ELSE "over"
    BY <1>0, GoesTo DEF DropTask
  <1>3. Active(i) /\ Job(i) \in Jobs
    BY <1>2 DEF Active, Transit, Live, WInv, WTypes
  <1>4. dirs' \subseteq Jobs /\ dirs \subseteq dirs'
    BY <1>0, <1>3 DEF DropTask
  <1>5. task'[i].step \in Live \cup Background => runningActions[Job(i)] = i
    BY <1>2 DEF WInv, OnePerJob, Live, Background
  <1>6. task'[i].step \notin Transit \cup Publish /\ ~NeedsDirectory(task'[i])
    BY <1>2 DEF Transit, Publish, NeedsDirectory
  <1>7. QED
    BY <1>0, <1>1, <1>2, <1>3, <1>4, <1>5, <1>6, AdvanceKeeps

\* The action is registered and no longer in transit, or its error is reported.
LEMMA RegisteredKeeps ==
    ASSUME WInv, NEW i \in Tasks, Registered(i)
    PROVE  WInv'
PROOF
  <1>0. /\ WTypes /\ {"prepare", "report", "over"} \subseteq Steps \ {"free"}
        /\ runningActions \in [Jobs -> Tasks \cup {NoTask}] /\ dirs \subseteq Jobs /\ inTransit \in Int
    BY DEF WInv, WTypes, Steps, Live, Publish
  <1>1. /\ UNCHANGED <<conn, conns, since, dirs>> /\ inTransit' = inTransit - 1 /\ inTransit' \in Int
        /\ task[i].step = "register" /\ RegisterAction(i)
    BY <1>0 DEF Registered, RegisterAction, At
  <1>2. Active(i) /\ Job(i) \in Jobs /\ task[i].step \in Transit
    BY <1>1, SMTT(20) DEF Active, WInv, WTypes, Transit
  <1>3. CASE task[i].failed \/ Job(i) \in TooLong
    <2>1. FailTo(i, Deliver(i, "report")) /\ UNCHANGED runningActions
      BY <1>1, <1>3 DEF RegisterAction
    <2>2. Deliver(i, "report") \in {"over", "report"}
      BY DEF Deliver
    <2>3. Advance(i) /\ task'[i].step = Deliver(i, "report")
      BY <1>0, <2>1, <2>2, FailsTo, Zenon
    <2>4. /\ task'[i].step \notin Transit \cup Live \cup Background /\ ~NeedsDirectory(task'[i])
          /\ task'[i].step \in Publish => ~task[i].aborted
      BY <2>2, <2>3 DEF Deliver, Transit, Live, Background, Publish, NeedsDirectory
    <2>5. QED
      BY <1>0, <1>1, <1>2, <2>1, <2>3, <2>4, AdvanceKeeps, SMTT(20)
  <1>4. CASE ~(task[i].failed \/ Job(i) \in TooLong)
    <2>1. Goto(i, "prepare") /\ runningActions' = [runningActions EXCEPT ![Job(i)] = i]
      BY <1>1, <1>4 DEF RegisterAction
    <2>2. Advance(i) /\ task'[i].step = "prepare"
      BY <1>0, <2>1, GoesTo
    <2>3. /\ runningActions' \in [Jobs -> Tasks \cup {NoTask}] /\ runningActions'[Job(i)] = i
          /\ \A j \in Jobs \ {Job(i)} : runningActions'[j] = runningActions[j]
      BY <1>0, <1>2, <2>1
    <2>4. task'[i].step \notin Transit \cup Publish /\ Job(i) \in dirs
      BY <1>1, <1>4, <2>2 DEF WInv, HasDirectory, Transit, Publish
    <2>5. QED
      BY <1>0, <1>1, <1>2, <2>2, <2>3, <2>4, AdvanceKeeps
  <1>5. QED
    BY <1>3, <1>4

\* Every step of the future and of what it leaves behind.
LEMMA TaskStepKeeps ==
    ASSUME WInv, NEW i \in Tasks, UNCHANGED localVars, TaskStep(i)
    PROVE  WInv'
PROOF
  <1>1. CASE CacheActionResult(i)
    <2>1. WTypes /\ "report" \in Steps \ {"free"}
      BY DEF WInv, Steps, Publish
    <2>2. Goto(i, "report") /\ task[i].step = "cache" /\ UNCHANGED <<runningActions, dirs>>
      BY <1>1 DEF CacheActionResult, At
    <2>3. Advance(i) /\ task'[i].step = "report"
      BY <2>1, <2>2, GoesTo
    <2>4. QED
      BY <2>2, <2>3, StaysKeeps DEF Publish
  <1>2. CASE KillChildProcess(i) \/ ChildExits(i)
    <2>1. UNCHANGED <<task, runningActions, dirs, conn, conns, since, inTransit>>
      BY <1>2 DEF KillChildProcess, ChildExits, localVars
    <2>2. WTypes' /\ OfThisConnection' /\ OnePerJob' /\ GivenUp' /\ HasDirectory'
      BY <2>1 DEF WInv, WTypes, OfThisConnection, OnePerJob, GivenUp, HasDirectory, Active, Job
    <2>3. TransitCounted'
      BY <2>1 DEF WInv, TransitCounted, InTransit
    <2>4. QED
      BY <2>2, <2>3 DEF WInv
  <1>3. QED
    BY <1>1, <1>2, TransitStepKeeps, LiveStepKeeps, CleanupKeeps, SMTT(20) DEF TaskStep

-----------------------------------------------------------------------------
(* The steps of LocalWorker *)

\* No task changes its step or its job: what depends on the tasks is kept.
SameTasks ==
    /\ task' \in [Tasks -> Task]
    /\ \A i \in Tasks : /\ task'[i].step = task[i].step /\ task'[i].job = task[i].job
                        /\ task'[i].aborted = task[i].aborted /\ task'[i].failed = task[i].failed

LEMMA SameTasksKeep ==
    ASSUME WInv, SameTasks, UNCHANGED <<runningActions, dirs, since>>,
           conn' \in ConnStates, conns' \in Nat, inTransit' \in Int,
           OfThisConnection', GivenUp',
           conn' \in {"serving", "draining"} => Cardinality(InTransit) <= inTransit',
           conn' \in {"killing", "waiting"} => InTransit = {}
    PROVE  WInv'
PROOF
  <1>1. \A i \in Tasks : (Active(i)' <=> Active(i)) /\ Job(i)' = Job(i)
    BY DEF SameTasks, Active, Job
  <1>2. InTransit' = InTransit
    BY DEF InTransit, SameTasks
  <1>3. WTypes'
    BY <1>1, SMTT(20) DEF WInv, WTypes, SameTasks
  <1>4. OnePerJob'
    <2>1. \A i, k \in Tasks : Active(i)' /\ Active(k)' /\ Job(i)' = Job(k)' => i = k
      BY <1>1 DEF WInv, OnePerJob
    <2>2. \A i \in Tasks : task'[i].step \in Live \cup Background => runningActions'[Job(i)'] = i
      BY <1>1 DEF WInv, OnePerJob, SameTasks
    <2>3. QED
      BY <2>1, <2>2 DEF OnePerJob
  <1>5. TransitCounted'
    BY <1>2 DEF WInv, TransitCounted
  <1>6. HasDirectory'
    BY <1>1 DEF WInv, HasDirectory, SameTasks
  <1>7. QED
    BY <1>3, <1>4, <1>5, <1>6, SMTT(20) DEF WInv

LEMMA UnchangedAreSame ==
    ASSUME WInv, UNCHANGED task
    PROVE  SameTasks
PROOF BY DEF SameTasks, WInv, WTypes

LEMMA SendKillFacts ==
    ASSUME WInv, NEW J, SendKill(J)
    PROVE  SameTasks
PROOF
  <1>1. task \in [Tasks -> Task]
    BY DEF WInv, WTypes
  <1>2. \A i \in Tasks : task'[i] \in {task[i], [task[i] EXCEPT !.kill = "sent"]}
    BY DEF SendKill
  <1>3. \A i \in Tasks : task[i] \in Task /\ [task[i] EXCEPT !.kill = "sent"] \in Task
    BY <1>1 DEF Task
  <1>4. task' = [i \in Tasks |-> task'[i]]
    BY DEF SendKill
  <1>5. task' \in [Tasks -> Task]
    BY <1>2, <1>3, <1>4, Zenon
  <1>6. \A i \in Tasks : LET t == [task[i] EXCEPT !.kill = "sent"] IN
            /\ t.step = task[i].step /\ t.job = task[i].job
            /\ t.aborted = task[i].aborted /\ t.failed = task[i].failed
    BY <1>3 DEF Task
  <1>7. QED
    BY <1>2, <1>5, <1>6, Zenon DEF SameTasks

\* LocalWorkerImpl::run returns: every future is aborted, none publishes.
LEMMA RunEndsKeeps ==
    ASSUME WInv, conn = "serving", RunEnds
    PROVE  WInv'
PROOF
  <1>0. task \in [Tasks -> Task] /\ since \in [Tasks -> Nat] /\ conns \in Nat /\ inTransit \in Int
    BY DEF WInv, WTypes
  <1>1. \A i \in Tasks : Active(i) => since[i] = conns /\ Job(i) \in Jobs
    BY DEF WInv, OfThisConnection, WTypes
  <1>2. /\ conn' = "draining"
        /\ UNCHANGED <<runningActions, dirs, conns, since, inTransit>>
    BY DEF RunEnds
  <1>3. ASSUME NEW i \in Tasks
        PROVE  /\ task'[i] \in Task /\ task'[i].job = task[i].job
               /\ IF Active(i) /\ task[i].step \notin Publish
                  THEN /\ task'[i].step = task[i].step /\ task'[i].aborted = TRUE
                       /\ task'[i].failed = task[i].failed
                  ELSE ~Active(i)'
    <2>1. task[i] \in Task
      BY <1>0
    <2>2. CASE ~Active(i)
      <3>1. task'[i] = task[i]
        <4>1. CASE since[i] # conns
          BY <4>1 DEF RunEnds
        <4>2. CASE since[i] = conns
          BY <2>2, <4>2 DEF RunEnds, Active, Publish
        <4>3. QED
          BY <4>1, <4>2
      <3>2. QED
        BY <2>1, <2>2, <3>1 DEF Active
    <2>3. CASE Active(i) /\ task[i].step \in Publish
      <3>1. task'[i] = Over(i)
        BY <1>1, <2>3 DEF RunEnds, Active
      <3>2. Over(i) \in Task /\ Over(i).job = task[i].job /\ Over(i).step = "over"
        BY <2>1, Zenon DEF Over, FreeTask, Task, Job, Steps, Exits, NoResult
      <3>3. QED
        BY <2>3, <3>1, <3>2 DEF Active
    <2>4. CASE Active(i) /\ task[i].step \notin Publish
      <3>1. task'[i] = [task[i] EXCEPT !.aborted = TRUE]
        BY <1>1, <2>4 DEF RunEnds, Active
      <3>2. QED
        BY <2>1, <2>4, <3>1, Zenon DEF Task
    <2>5. QED
      BY <2>2, <2>3, <2>4, Zenon
  <1>4. task' \in [Tasks -> Task]
    <2>1. task' = [i \in Tasks |-> task'[i]]
      BY DEF RunEnds
    <2>2. QED
      BY <1>3, <2>1, Zenon
  <1>5. \A i \in Tasks : Active(i)' => /\ Active(i) /\ task[i].step \notin Publish
                                       /\ task'[i].step = task[i].step /\ task'[i].job = task[i].job
                                       /\ task'[i].aborted = TRUE /\ task'[i].failed = task[i].failed
    BY <1>3, Zenon
  <1>6. WTypes'
    BY <1>0, <1>1, <1>2, <1>4, <1>5 DEF WInv, WTypes, ConnStates, Job
  <1>7. OfThisConnection'
    BY <1>1, <1>2, <1>5 DEF OfThisConnection
  <1>8. OnePerJob'
    <2>1. \A i, k \in Tasks : Active(i)' /\ Active(k)' /\ Job(i)' = Job(k)' => i = k
      BY <1>5 DEF WInv, OnePerJob, Job
    <2>2. ASSUME NEW i \in Tasks, task'[i].step \in Live \cup Background
          PROVE  runningActions'[Job(i)'] = i
      <3>1. Active(i)'
        BY <2>2 DEF Active, Live, Background
      <3>2. QED
        BY <1>2, <1>5, <2>2, <3>1, SMTT(20) DEF WInv, OnePerJob, Job
    <2>3. QED
      BY <2>1, <2>2 DEF OnePerJob
  <1>9. TransitCounted'
    <2>1. InTransit' = InTransit
      <3>1. \A i \in Tasks : task'[i].step \in Transit => task[i].step \in Transit
        BY <1>5 DEF Active, Transit
      <3>2. \A i \in Tasks : task[i].step \in Transit => Active(i) /\ task[i].step \notin Publish
        BY DEF Active, Transit, Publish
      <3>3. \A i \in Tasks : task[i].step \in Transit => task'[i].step = task[i].step
        BY <1>3, <3>2, Zenon
      <3>4. QED
        BY <3>1, <3>3 DEF InTransit
    <2>2. QED
      BY <1>2, <2>1 DEF WInv, TransitCounted
  <1>10. GivenUp'
    BY <1>5 DEF GivenUp
  <1>11. HasDirectory'
    <2>1. \A i \in Tasks : NeedsDirectory(task'[i]) => Active(i)'
      BY DEF NeedsDirectory, Active
    <2>2. \A i \in Tasks : NeedsDirectory(task'[i]) => task'[i].job \in dirs
      BY <1>5, <2>1 DEF WInv, HasDirectory, NeedsDirectory, Job
    <2>3. QED
      BY <1>2, <2>2 DEF HasDirectory, NeedsDirectory, Job
  <1>12. QED
    BY <1>6, <1>7, <1>8, <1>9, <1>10, <1>11, SMTT(20) DEF WInv

\* execution_response is sent, or fails and ends the run.
LEMMA ReportKeeps ==
    ASSUME WInv, NEW i \in Tasks, Report(i)
    PROVE  WInv'
PROOF
  <1>1. CASE RunEnds
    BY <1>1, RunEndsKeeps, SMTT(20) DEF Report, Serving
  <1>2. CASE Goto(i, "over") /\ UNCHANGED <<runningActions, dirs, conn, conns, since, inTransit>>
    <2>1. WTypes /\ "over" \in Steps \ {"free"} /\ Active(i)
      BY DEF WInv, Steps, Report, At, Active
    <2>2. Advance(i) /\ task'[i].step = "over"
      BY <1>2, <2>1, GoesTo
    <2>3. /\ task'[i].step \notin Transit \cup Live \cup Background \cup Publish
          /\ ~NeedsDirectory(task'[i])
      BY <2>2 DEF Transit, Live, Background, Publish, NeedsDirectory
    <2>4. runningActions \in [Jobs -> Tasks \cup {NoTask}] /\ dirs \subseteq Jobs /\ inTransit \in Int
      BY DEF WInv, WTypes
    <2>5. QED
      BY <1>2, <2>1, <2>2, <2>3, <2>4, AdvanceKeeps, SMTT(20)
  <1>3. QED
    BY <1>1, <1>2 DEF Report

\* Update::StartAction: no active task has the job, as the scheduler awaits an
\* answer for those of this connection and there are no others.
LEMMA StartActionKeeps ==
    ASSUME WInv, NEW i \in Tasks, NEW j \in Jobs, StartAction(i, j)
    PROVE  WInv'
PROOF
  <1> DEFINE t == [task[i] EXCEPT !.step = "precondition", !.job = j]
  <1>0. /\ task \in [Tasks -> Task] /\ task[i] \in Task /\ since \in [Tasks -> Nat] /\ conns \in Nat
        /\ inTransit \in Int
    BY DEF WInv, WTypes
  <1>1. task' = [task EXCEPT ![i] = t]
    BY <1>0, Zenon DEF StartAction
  <1>2. t \in Task /\ t.step = "precondition" /\ t.job = j
    BY <1>0, Zenon DEF Task, Steps, Transit
  <1> HIDE DEF t
  <1>3. task' \in [Tasks -> Task] /\ task'[i] = t /\ \A k \in Tasks \ {i} : task'[k] = task[k]
    BY <1>0, <1>1, <1>2, Zenon
  <1>4. /\ conn = "serving" /\ task[i].step = "free" /\ inTransit' = inTransit + 1
        /\ since' = [since EXCEPT ![i] = conns]
        /\ UNCHANGED <<runningActions, dirs, conn, conns>>
    BY DEF StartAction, At
  <1>5. \A k \in Tasks : Active(k) => k # i /\ Job(k) # j /\ Job(k) \in Jobs /\ since[k] = conns
    <2>1. \A k \in Tasks : Active(k) => since[k] = conns /\ Job(k) \in Jobs
      BY <1>4 DEF WInv, OfThisConnection, WTypes
    <2>2. \A k \in Tasks : Active(k) => Job(k) # j
      BY <1>4, <2>1 DEF StartAction, Startable, Serving, Active
    <2>3. QED
      BY <1>4, <2>1, <2>2 DEF Active
  <1>6. /\ \A k \in Tasks \ {i} : (Active(k)' <=> Active(k)) /\ Job(k)' = Job(k)
        /\ Active(i)' /\ Job(i)' = j
    BY <1>2, <1>3 DEF Active, Job
  <1>7. WTypes'
    BY <1>0, <1>3, <1>4, <1>5, <1>6, SMTT(20) DEF WInv, WTypes
  <1>8. OfThisConnection'
    BY <1>0, <1>4, <1>5, <1>6, SMTT(20) DEF OfThisConnection
  <1>9. OnePerJob'
    <2>1. \A k, m \in Tasks : Active(k)' /\ Active(m)' /\ Job(k)' = Job(m)' => k = m
      BY <1>5, <1>6, SMTT(20) DEF WInv, OnePerJob
    <2>2. ASSUME NEW k \in Tasks, task'[k].step \in Live \cup Background
          PROVE  runningActions'[Job(k)'] = k
      <3>1. k # i
        BY <1>2, <1>3, <2>2 DEF Live, Background
      <3>2. QED
        BY <1>3, <1>4, <1>6, <2>2, <3>1, SMTT(20) DEF WInv, OnePerJob
    <2>3. QED
      BY <2>1, <2>2, SMTT(20) DEF OnePerJob
  <1>10. TransitCounted'
    <2>1. InTransit' = InTransit \cup {i} /\ i \notin InTransit
      BY <1>2, <1>3, <1>4 DEF InTransit, Transit
    <2>2. /\ IsFiniteSet(InTransit \cup {i})
          /\ Cardinality(InTransit \cup {i}) = Cardinality(InTransit) + 1
      BY <2>1, FS_AddElement DEF WInv, TransitCounted
    <2>3. Cardinality(InTransit) \in Nat
      BY FS_CardinalityType, SMTT(20) DEF WInv, TransitCounted
    <2>4. QED
      BY <1>0, <1>4, <2>1, <2>2, <2>3, SMTT(20) DEF WInv, TransitCounted
  <1>11. GivenUp'
    BY <1>4, SMTT(20) DEF GivenUp
  <1>12. HasDirectory'
    <2>1. ASSUME NEW k \in Tasks, NeedsDirectory(task'[k]) PROVE task'[k].job \in dirs'
      <3>1. k # i
        BY <1>2, <1>3, <2>1, SMTT(20) DEF NeedsDirectory
      <3>2. QED
        BY <1>3, <1>4, <2>1, <3>1, SMTT(20) DEF WInv, HasDirectory, NeedsDirectory, Job
    <2>2. QED
      BY <2>1 DEF HasDirectory, NeedsDirectory, Job
  <1>13. QED
    BY <1>7, <1>8, <1>9, <1>10, <1>11, <1>12, SMTT(20) DEF WInv

\* The connection moves on; before it is made again, nothing is active.
LEMMA ConnectionKeeps ==
    ASSUME WInv, Connect \/ Register \/ DrainTransit \/ KillAll \/ Killed \/ GoingAway \/ Disconnected
    PROVE  WInv'
PROOF
  <1>0. conns \in Nat /\ inTransit \in Int /\ conn \in ConnStates /\ NoTask \notin Tasks
    BY WorkerAssumption DEF WInv, WTypes
  <1>1. CASE RunEnds /\ conn = "serving"
    BY <1>1, RunEndsKeeps
  <1>2. ASSUME SameTasks PROVE \A i \in Tasks : (Active(i)' <=> Active(i)) /\
             task'[i].aborted = task[i].aborted /\ task'[i].step = task[i].step
    BY <1>2 DEF SameTasks, Active
  <1>3. CASE Connect \/ Register
    <2>1. /\ UNCHANGED <<task, runningActions, dirs, since>> /\ conns' \in Nat /\ inTransit' \in Int
          /\ conn' \in {"registering", "serving", "connecting"}
          /\ conn' = "serving" => inTransit' = 0
          /\ conn \in {"connecting", "registering"}
      BY <1>0, <1>3 DEF Connect, Register, ramVars
    <2>2. SameTasks
      BY <2>1, UnchangedAreSame
    <2>3. \A i \in Tasks : ~Active(i)
      BY <2>1 DEF WInv, OfThisConnection
    <2>4. InTransit = {}
      BY <2>3 DEF InTransit, Active, Transit
    <2>5. Cardinality(InTransit) = 0
      BY <2>4, FS_EmptySet, SMTT(20)
    <2>6. OfThisConnection' /\ GivenUp'
      BY <1>2, <2>1, <2>2, <2>3, SMTT(20) DEF OfThisConnection, GivenUp
    <2>7. QED
      BY <2>1, <2>2, <2>4, <2>5, <2>6, SameTasksKeep, SMTT(20) DEF ConnStates
  <1>4. CASE DrainTransit
    <2>1. /\ UNCHANGED <<task, runningActions, dirs, since, conns, inTransit>> /\ conn = "draining"
          /\ conn' = "ended" \/ (inTransit = 0 /\ conn' = "killing")
      BY <1>4 DEF DrainTransit, ramVars
    <2>2. SameTasks
      BY <2>1, UnchangedAreSame
    <2>3. OfThisConnection' /\ GivenUp'
      BY <1>2, <2>1, <2>2 DEF WInv, OfThisConnection, GivenUp
    <2>4. inTransit = 0 => InTransit = {}
      <3>1. IsFiniteSet(InTransit) /\ Cardinality(InTransit) <= inTransit
        BY <2>1 DEF WInv, TransitCounted
      <3>2. Cardinality(InTransit) \in Nat
        BY <3>1, FS_CardinalityType
      <3>3. QED
        BY <3>1, <3>2, FS_EmptySet
    <2>5. QED
      BY <1>0, <2>1, <2>2, <2>3, <2>4, SameTasksKeep, SMTT(20) DEF ConnStates
  <1>5. CASE KillAll
    <2>1. /\ UNCHANGED <<runningActions, dirs, since, conns, inTransit>> /\ conn = "killing"
          /\ conn' = "waiting" /\ SendKill(Jobs)
      BY <1>5 DEF KillAll
    <2>2. SameTasks
      BY <2>1, SendKillFacts
    <2>3. OfThisConnection' /\ GivenUp'
      BY <1>2, <2>1, <2>2 DEF WInv, OfThisConnection, GivenUp
    <2>4. InTransit = {}
      BY <2>1 DEF WInv, TransitCounted
    <2>5. QED
      BY <1>0, <2>1, <2>2, <2>3, <2>4, SameTasksKeep, SMTT(20) DEF ConnStates
  <1>6. CASE Killed
    <2>1. /\ UNCHANGED <<task, runningActions, dirs, since, conns, inTransit>> /\ conn = "waiting"
          /\ conn' = "connecting" /\ NoRunningActions
      BY <1>6 DEF Killed, ramVars
    <2>2. SameTasks
      BY <2>1, UnchangedAreSame
    <2>3. ASSUME NEW i \in Tasks, Active(i) PROVE FALSE
      <3>1. task[i].step \notin Publish /\ Job(i) \in Jobs /\ task[i].step \in Steps
        BY <2>1, <2>3 DEF WInv, GivenUp, WTypes, Task
      <3>2. task[i].step \notin Transit
        BY <2>1, SMTT(20) DEF WInv, TransitCounted, InTransit
      <3>3. task[i].step \notin Live \cup Background
        BY <1>0, <2>1, <3>1, SMTT(20) DEF WInv, OnePerJob, NoRunningActions
      <3>4. QED
        BY <2>3, <3>1, <3>2, <3>3, SMTT(20) DEF Steps, Active
    <2>4. OfThisConnection' /\ GivenUp'
      BY <1>2, <2>1, <2>2, <2>3, SMTT(20) DEF OfThisConnection, GivenUp
    <2>5. QED
      BY <1>0, <2>1, <2>2, <2>4, SameTasksKeep, SMTT(20) DEF ConnStates
  <1>7. CASE GoingAway /\ UNCHANGED <<ramVars, conn, conns, since, inTransit, reported>>
    <2>1. UNCHANGED <<task, runningActions, dirs, since, conns, inTransit, conn>>
      BY <1>7 DEF ramVars
    <2>2. SameTasks
      BY <2>1, UnchangedAreSame, SMTT(20)
    <2>3. OfThisConnection' /\ GivenUp'
      BY <1>2, <2>1, <2>2 DEF WInv, OfThisConnection, GivenUp
    <2>4. QED
      BY <1>0, <2>1, <2>2, <2>3, SameTasksKeep, SMTT(20) DEF WInv, TransitCounted
  <1>8. QED
    BY <1>1, <1>3, <1>4, <1>5, <1>6, <1>7, SMTT(20) DEF GoingAway, Disconnected

\* A state the worker can start in.
LEMMA WorkerStarts == WorkerInit => WInv
PROOF
  <1>1. SUFFICES ASSUME WorkerInit PROVE WInv
    OBVIOUS
  <1>2. FreeTask \in Task /\ FreeTask.step = "free"
    BY DEF FreeTask, Task, Steps, Exits, NoResult
  <1>3. task = [i \in Tasks |-> FreeTask] /\ runningActions = [j \in Jobs |-> NoTask] /\ dirs = {}
        /\ conn = "connecting" /\ conns = 0 /\ since = [i \in Tasks |-> 0] /\ inTransit = 0
    BY <1>1 DEF WorkerInit, RamInit
  <1>4. \A i \in Tasks : task[i] = FreeTask /\ ~Active(i)
    BY <1>2, <1>3 DEF Active
  <1>5. WTypes
    BY <1>2, <1>3, <1>4, SMTT(20) DEF WTypes, ConnStates
  <1>6. OfThisConnection /\ GivenUp /\ OnePerJob /\ HasDirectory
    BY <1>2, <1>4 DEF OfThisConnection, GivenUp, OnePerJob, HasDirectory, Live, Background, Active
  <1>7. InTransit = {}
    BY <1>2, <1>4 DEF InTransit, Transit
  <1>8. TransitCounted
    BY <1>3, <1>7, FS_EmptySet DEF TransitCounted
  <1>9. QED
    BY <1>5, <1>6, <1>8 DEF WInv

LEMMA WorkerKeeps ==
    ASSUME WInv, [WorkerNext]_workerVars
    PROVE  WInv'
PROOF
  <1>1. ASSUME NEW i \in Tasks, LocalStep(i) PROVE WInv'
    BY <1>1, TaskStepKeeps, DropKeeps, RegisteredKeeps, ReportKeeps, SMTT(20) DEF LocalStep
  <1>2. ASSUME NEW j \in Jobs, KillOperation(j) PROVE WInv'
    <2>1. SameTasks /\ UNCHANGED <<runningActions, dirs, conn, conns, since, inTransit>>
      BY <1>2, SendKillFacts, SMTT(20) DEF KillOperation, localVars
    <2>2. OfThisConnection' /\ GivenUp'
      BY <2>1, SMTT(20) DEF WInv, OfThisConnection, GivenUp, SameTasks, Active
    <2>3. QED
      BY <2>1, <2>2, SameTasksKeep DEF WInv, WTypes, TransitCounted
  <1>3. CASE UNCHANGED workerVars
    <2>1. UNCHANGED <<task, runningActions, dirs, conn, conns, since, inTransit>>
      BY <1>3 DEF workerVars, ramVars, localVars
    <2>2. SameTasks
      BY <2>1, UnchangedAreSame, SMTT(20)
    <2>3. OfThisConnection' /\ GivenUp'
      BY <2>1 DEF WInv, OfThisConnection, GivenUp, Active
    <2>4. QED
      BY <2>1, <2>2, <2>3, SameTasksKeep, SMTT(20) DEF WInv, WTypes, TransitCounted
  <1>4. QED
    BY <1>1, <1>2, <1>3, ConnectionKeeps, StartActionKeeps, SMTT(20) DEF WorkerNext

LEMMA WorkerInvariant == WorkerSpec => []WInv
PROOF BY WorkerStarts, WorkerKeeps, PTL DEF WorkerSpec

\* A kill reaches every action that is alive on the worker, whatever was killed,
\* dropped, cleaned up or started again before (running_actions).
THEOREM AliveAreRegistered == WorkerSpec => []AliveIsRegistered
PROOF
  <1>1. WInv => AliveIsRegistered
    BY DEF WInv, OnePerJob, AliveIsRegistered
  <1>2. QED
    BY <1>1, WorkerInvariant, PTL

\* The directory of an action is its own and there as long as it is used, although
\* directories are made and removed by operation id (make_action_directory,
\* do_cleanup).
THEOREM DirectoriesInUse == WorkerSpec => []DirectoryInUse
PROOF
  <1>1. ASSUME WInv PROVE DirectoryInUse
    <2>1. SUFFICES ASSUME NEW i \in Tasks,
                          task[i].step \in {"prepare", "execute", "running", "side_channel", "upload"}
                   PROVE  /\ Job(i) \in dirs
                          /\ \A k \in Tasks \ {i} :
                                task[k].step \in Live \cup Background => Job(k) # Job(i)
      BY DEF DirectoryInUse
    <2>2. Job(i) \in dirs
      BY <1>1, <2>1 DEF WInv, HasDirectory
    <2>3. Active(i) /\ \A k \in Tasks : task[k].step \in Live \cup Background => Active(k)
      BY <2>1, SMTT(20) DEF Active, Live, Background
    <2>4. QED
      BY <1>1, <2>2, <2>3, SMTT(20) DEF WInv, OnePerJob
  <1>2. QED
    BY <1>1, WorkerInvariant, PTL

\* Nothing of an earlier connection is left when the worker registers again
\* (LocalWorker::run, kill_all).
THEOREM QuietBeforeReconnects == WorkerSpec => []QuietBeforeReconnect
PROOF
  <1>1. ASSUME WInv PROVE QuietBeforeReconnect
    <2>1. \A i \in Tasks : Active(i) /\ conn \in {"connecting", "registering", "serving"} =>
              conn = "serving" /\ since[i] = conns
      BY <1>1 DEF WInv, OfThisConnection
    <2>2. \A i \in Tasks : since[i] \in Nat /\ conns \in Nat
      BY <1>1 DEF WInv, WTypes
    <2>3. QED
      BY <2>1, <2>2 DEF QuietBeforeReconnect, Active
  <1>2. QED
    BY <1>1, WorkerInvariant, PTL

-----------------------------------------------------------------------------
(* The properties a worker offers *)

\* Properties as make_platform_properties() types them.
Typed(props) ==
    \A n \in DOMAIN props :
        /\ n \in DOMAIN KnownTypes
        /\ props[n] = [type |-> KnownTypes[n], value |-> props[n].value]
        /\ KnownTypes[n] = "minimum" => props[n].value \in Nat

\* What is left has the names and types of what the worker connected with, and
\* differs from it in minimum properties at most; an action that runs has its
\* exact properties from it.
PInv ==
    /\ running = [o \in PropOps |-> running[o]]
    /\ base = {} => \A o \in PropOps : running[o] = {}
    /\ \A b \in base :
          /\ Typed(b) /\ Typed(left) /\ DOMAIN left = DOMAIN b
          /\ \A n \in DOMAIN b : b[n].type # "minimum" => left[n] = b[n]
          /\ \A o \in PropOps : \A props \in running[o] :
                /\ Typed(props)
                /\ \A n \in DOMAIN props :
                      n \in DOMAIN b /\ (props[n].type = "exact" => props[n] = b[n])

LEMMA MadeIsTyped ==
    ASSUME NEW asked, NEW props \in MakePlatformProperties(asked)
    PROVE  Typed(props) /\ MakePlatformProperties(asked) = {props}
PROOF
  <1>1. /\ \A n \in DOMAIN asked : MakePropValue(n, asked[n]) # {}
        /\ props = [n \in DOMAIN asked |-> CHOOSE p \in MakePropValue(n, asked[n]) : TRUE]
        /\ MakePlatformProperties(asked) = {props}
    BY Zenon DEF MakePlatformProperties
  <1>2. ASSUME NEW n \in DOMAIN asked
        PROVE  /\ n \in DOMAIN KnownTypes
               /\ props[n] = [type |-> KnownTypes[n], value |-> asked[n]]
               /\ KnownTypes[n] = "minimum" => asked[n] \in Nat
    <2>1. /\ n \in DOMAIN KnownTypes /\ (KnownTypes[n] = "minimum" => asked[n] \in Nat)
          /\ MakePropValue(n, asked[n]) = {[type |-> KnownTypes[n], value |-> asked[n]]}
      BY <1>1 DEF MakePropValue, Parses
    <2>2. props[n] \in MakePropValue(n, asked[n])
      BY <1>1
    <2>3. QED
      BY <2>1, <2>2
  <1>3. DOMAIN props = DOMAIN asked
    BY <1>1
  <1>4. ASSUME NEW n \in DOMAIN asked PROVE props[n].value = asked[n]
    <2>1. [type |-> KnownTypes[n], value |-> asked[n]].value = asked[n]
      BY SMTT(20)
    <2>2. QED
      BY <1>2, <2>1, Zenon
  <1>5. QED
    BY <1>1, <1>2, <1>3, <1>4, Zenon DEF Typed

\* reduce_platform_properties() of what an action asks for, and its reverse.
LEMMA ReducedIsTyped ==
    ASSUME NEW worker, NEW props, Typed(worker), Typed(props), IsSatisfiedBy(props, worker)
    PROVE  /\ Typed(Reduce(worker, props)) /\ DOMAIN Reduce(worker, props) = DOMAIN worker
           /\ \A n \in DOMAIN worker :
                 KnownTypes[n] # "minimum" => Reduce(worker, props)[n] = worker[n]
PROOF
  <1> DEFINE less == Reduce(worker, props)
  <1>1. DOMAIN less = DOMAIN worker
    BY SMTT(20) DEF Reduce
  <1>2. ASSUME NEW n \in DOMAIN worker
        PROVE  /\ n \in DOMAIN KnownTypes
               /\ less[n] = [type |-> KnownTypes[n], value |-> less[n].value]
               /\ KnownTypes[n] = "minimum" => less[n].value \in Nat
               /\ KnownTypes[n] # "minimum" => less[n] = worker[n]
    <2>1. /\ n \in DOMAIN KnownTypes
          /\ worker[n] = [type |-> KnownTypes[n], value |-> worker[n].value]
          /\ KnownTypes[n] = "minimum" => worker[n].value \in Nat
      BY SMTT(20) DEF Typed
    <2>2. CASE IsMinimum(props, n) /\ IsMinimum(worker, n)
      <3>1. less[n] = [worker[n] EXCEPT !.value = @ - props[n].value]
        BY <2>2, SMTT(20) DEF Reduce
      <3>2. /\ KnownTypes[n] = "minimum" /\ props[n].value \in Nat /\ worker[n].value \in Nat
            /\ props[n] = [type |-> "minimum", value |-> props[n].value]
        BY <2>1, <2>2, SMTT(20) DEF Typed, IsMinimum
      <3>3. worker[n].value >= props[n].value
        BY <2>1, <2>2, <3>2 DEF IsSatisfiedBy, ValueSatisfied, IsMinimum
      <3>4. less[n] = [type |-> "minimum", value |-> worker[n].value - props[n].value]
        BY <2>1, <3>1, <3>2
      <3>5. QED
        BY <2>1, <3>2, <3>3, <3>4, SMTT(20)
    <2>3. CASE ~(IsMinimum(props, n) /\ IsMinimum(worker, n))
      BY <2>1, <2>3, SMTT(20) DEF Reduce
    <2>4. QED
      BY <2>2, <2>3, SMTT(20)
  <1>3. QED
    BY <1>1, <1>2 DEF Typed

LEMMA RestoredIsTyped ==
    ASSUME NEW worker, NEW props, Typed(worker), Typed(props)
    PROVE  /\ Typed(Restore(worker, props)) /\ DOMAIN Restore(worker, props) = DOMAIN worker
           /\ \A n \in DOMAIN worker :
                 KnownTypes[n] # "minimum" => Restore(worker, props)[n] = worker[n]
PROOF
  <1> DEFINE more == Restore(worker, props)
  <1>1. DOMAIN more = DOMAIN worker
    BY SMTT(20) DEF Restore
  <1>2. ASSUME NEW n \in DOMAIN worker
        PROVE  /\ n \in DOMAIN KnownTypes
               /\ more[n] = [type |-> KnownTypes[n], value |-> more[n].value]
               /\ KnownTypes[n] = "minimum" => more[n].value \in Nat
               /\ KnownTypes[n] # "minimum" => more[n] = worker[n]
    <2>1. /\ n \in DOMAIN KnownTypes
          /\ worker[n] = [type |-> KnownTypes[n], value |-> worker[n].value]
          /\ KnownTypes[n] = "minimum" => worker[n].value \in Nat
      BY SMTT(20) DEF Typed
    <2>2. CASE IsMinimum(props, n) /\ IsMinimum(worker, n)
      <3>1. more[n] = [worker[n] EXCEPT !.value = @ + props[n].value]
        BY <2>2, SMTT(20) DEF Restore
      <3>2. KnownTypes[n] = "minimum" /\ props[n].value \in Nat /\ worker[n].value \in Nat
        BY <2>1, <2>2 DEF Typed, IsMinimum
      <3>3. more[n] = [type |-> "minimum", value |-> worker[n].value + props[n].value]
        BY <2>1, <3>1, <3>2
      <3>4. QED
        BY <2>1, <3>2, <3>3
    <2>3. CASE ~(IsMinimum(props, n) /\ IsMinimum(worker, n))
      BY <2>1, <2>3, SMTT(20) DEF Restore
    <2>4. QED
      BY <2>2, <2>3, SMTT(20)
  <1>3. QED
    BY <1>1, <1>2 DEF Typed

LEMMA PropKeeps ==
    ASSUME PInv, [PropNext]_propVars
    PROVE  PInv'
PROOF
  <1>1. CASE UNCHANGED <<base, left, running>>
    BY <1>1, SMTT(20) DEF PInv, Typed
  <1>2. ASSUME NEW offer \in Offers, ConnectWorkerWith(offer) PROVE PInv'
    <2>1. PICK b \in MakePlatformProperties(offer) : TRUE
      BY <1>2 DEF ConnectWorkerWith
    <2>2. Typed(b) /\ MakePlatformProperties(offer) = {b}
      BY <2>1, MadeIsTyped
    <2>3. base = {} /\ base' = {b} /\ left' = b /\ UNCHANGED running
      BY <1>2, <2>2 DEF ConnectWorkerWith
    <2>4. \A o \in PropOps : running[o] = {}
      BY <2>3, SMTT(20) DEF PInv
    <2>5. QED
      BY <2>2, <2>3, <2>4 DEF PInv, Typed
  <1>3. ASSUME NEW o \in PropOps, TryMatch(o) PROVE PInv'
    <2>1. PICK ask \in waiting[o] : \E props \in MakePlatformProperties(ask) :
              /\ IsSatisfiedBy(props, left)
              /\ left' = Reduce(left, props)
              /\ running' = [running EXCEPT ![o] = {props}]
      BY <1>3, Zenon DEF TryMatch
    <2>2. PICK props \in MakePlatformProperties(ask) :
              /\ IsSatisfiedBy(props, left)
              /\ left' = Reduce(left, props)
              /\ running' = [running EXCEPT ![o] = {props}]
      BY <2>1, Zenon
    <2>3. Typed(props) /\ base' = base /\ base # {}
      BY <1>3, <2>2, MadeIsTyped DEF TryMatch
    <2>4. /\ running' = [q \in PropOps |-> running'[q]]
          /\ \A q \in PropOps : running'[q] = IF q = o THEN {props} ELSE running[q]
      BY <2>2, Zenon DEF PInv
    <2>5. ASSUME NEW b \in base
          PROVE  /\ Typed(left') /\ DOMAIN left' = DOMAIN b
                 /\ \A n \in DOMAIN b : b[n].type # "minimum" => left'[n] = b[n]
                 /\ \A n \in DOMAIN props :
                       n \in DOMAIN b /\ (props[n].type = "exact" => props[n] = b[n])
      <3>1. /\ Typed(b) /\ Typed(left) /\ DOMAIN left = DOMAIN b
            /\ \A n \in DOMAIN b : b[n].type # "minimum" => left[n] = b[n]
        BY DEF PInv
      <3>2. /\ Typed(left') /\ DOMAIN left' = DOMAIN b
            /\ \A n \in DOMAIN b : KnownTypes[n] # "minimum" => left'[n] = left[n]
        BY <2>2, <2>3, <3>1, ReducedIsTyped, SMTT(20)
      <3>3. \A n \in DOMAIN b : b[n].type = KnownTypes[n]
        BY <3>1, SMTT(20) DEF Typed
      <3>4. ASSUME NEW n \in DOMAIN props
            PROVE  n \in DOMAIN b /\ (props[n].type = "exact" => props[n] = b[n])
        <4>1. n \in DOMAIN left /\ ValueSatisfied(props[n], left[n])
          BY <2>2, SMTT(20) DEF IsSatisfiedBy
        <4>2. props[n].type = KnownTypes[n]
          BY <2>3, SMTT(20) DEF Typed
        <4>3. QED
          BY <3>1, <3>3, <4>1, <4>2, SMTT(20) DEF ValueSatisfied
      <3>5. QED
        BY <3>1, <3>2, <3>3, <3>4
    <2>6. QED
      BY <2>3, <2>4, <2>5, SMTT(20) DEF PInv
  <1>4. ASSUME NEW o \in PropOps, CompleteOn(o) PROVE PInv'
    <2>1. PICK props \in running[o] : left' = Restore(left, props)
      BY <1>4 DEF CompleteOn
    <2>2. running' = [running EXCEPT ![o] = {}] /\ base' = base
      BY <1>4 DEF CompleteOn
    <2>3. /\ running' = [q \in PropOps |-> running'[q]]
          /\ \A q \in PropOps : running'[q] \subseteq running[q]
      BY <2>2, Zenon DEF PInv
    <2>4. ASSUME NEW b \in base
          PROVE  /\ Typed(left') /\ DOMAIN left' = DOMAIN b
                 /\ \A n \in DOMAIN b : b[n].type # "minimum" => left'[n] = b[n]
      <3>1. /\ Typed(b) /\ Typed(left) /\ DOMAIN left = DOMAIN b /\ Typed(props)
            /\ \A n \in DOMAIN b : b[n].type # "minimum" => left[n] = b[n]
        BY <2>1 DEF PInv
      <3>2. /\ Typed(left') /\ DOMAIN left' = DOMAIN b
            /\ \A n \in DOMAIN b : KnownTypes[n] # "minimum" => left'[n] = left[n]
        BY <2>1, <3>1, RestoredIsTyped
      <3>3. \A n \in DOMAIN b : b[n].type = KnownTypes[n]
        BY <3>1 DEF Typed
      <3>4. QED
        BY <3>1, <3>2, <3>3
    <2>5. QED
      BY <2>2, <2>3, <2>4, SMTT(20) DEF PInv
  <1>5. QED
    BY <1>1, <1>2, <1>3, <1>4, SMTT(20)
       DEF PropNext, propVars, GetCapabilities, AddActionWith

\* An action runs only where its properties are met after every modification of
\* them, and no worker gives more of a minimum property than it has left
\* (PlatformProperties::is_satisfied_by, reduce_platform_properties).
THEOREM RunWhereTheyFit == PropSpec => []RunsWhereItFits
PROOF
  <1>1. PropInit => PInv
    BY DEF PropInit, PInv
  <1>2. ASSUME PInv PROVE RunsWhereItFits
    <2>1. SUFFICES ASSUME NEW b \in base, NEW o \in PropOps, NEW props \in running[o],
                          NEW n \in DOMAIN props
                   PROVE  /\ n \in DOMAIN b /\ (props[n].type = "exact" => props[n] = b[n])
                          /\ IsMinimum(props, n) => left[n].value >= 0
      BY DEF RunsWhereItFits, RunningProps
    <2>2. /\ Typed(props) /\ Typed(left) /\ n \in DOMAIN b /\ DOMAIN left = DOMAIN b
          /\ props[n].type = "exact" => props[n] = b[n]
      BY <1>2, <2>1, SMTT(20) DEF PInv
    <2>3. props[n].type = KnownTypes[n]
      BY <2>2, SMTT(20) DEF Typed
    <2>4. KnownTypes[n] = "minimum" => left[n].value \in Nat
      BY <2>2 DEF Typed
    <2>5. QED
      BY <2>2, <2>3, <2>4, SMTT(20) DEF IsMinimum
  <1>3. QED
    BY <1>1, <1>2, PropKeeps, PTL DEF PropSpec
=============================================================================
