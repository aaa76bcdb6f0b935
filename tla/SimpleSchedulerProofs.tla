------------------------ MODULE SimpleSchedulerProofs ------------------------
(***************************************************************************)
(* Theorems about SimpleScheduler, the scheduler as a whole: the matching  *)
(* engine, the worker pool, the state manager and its database, clients    *)
(* and workers, for any numbers of operations, clients, keys and workers,  *)
(* any capacity, any retry limits, and every fault at any time.            *)
(*                                                                         *)
(* The scheduler only makes steps of the open state manager (UsesManager), *)
(* so IInv, proved in SimpleSchedulerStateManagerProofs, holds of it.      *)
(* SInv adds what ties the tasks together: whose call is whose, what the   *)
(* pool says of its workers, who answers for an executing action, and what *)
(* the matching engine still has before it.                                *)
(***************************************************************************)
EXTENDS SimpleScheduler, SimpleSchedulerStateManagerProofs, WellFoundedInduction

-----------------------------------------------------------------------------
(* The inductive invariant.                                                *)

\* What a worker process answers with.
Answers == {"Completed", "Error", "Backpressure"}

\* What everybody knows of was created by add_action.
NamesSound ==
    /\ \A w \in Workers : running[w] \subseteq used /\ jobs[w] \subseteq used
    /\ \A r \in replies : r.op \in used /\ r.update \in Answers
    /\ \A p \in handler.rest : p[2] \in used
    /\ \A c \in Clients : client[c] # "new" => clientOp[c] \in used

\* Between two calls a task has none, and so has a client before its Execute;
\* only the matching engine assigns.
TasksSound ==
    /\ \A a \in Callers : call[a].pc = "idle" => call[a] = NoCall
    /\ \A a \in Callers \ {Match} :
          call[a].pc \in {"read", "commit"} => call[a].update # "Executing"
    /\ \A c \in Clients : client[c] = "new" => call[c].pc = "idle"

\* Where the matching engine is in do_try_match, and the call it makes there.
MatcherSound ==
    /\ matcher.todo \subseteq used
    /\ matcher.pc \in {"find", "assign", "notify"} => matcher.op \in used
    /\ matcher.pc \in {"assign", "notify"} =>
          matcher.worker \in Workers /\ link[matcher.worker] # "new"
    /\ matcher.pc \in {"idle", "scan", "find", "notify"} => call[Match].pc = "idle"
    /\ matcher.pc = "filter" => call[Match].pc \in {"filter", "done"}
    /\ matcher.pc = "assign" => call[Match].pc \in {"read", "commit", "done"}
    /\ matcher.pc = "assign" /\ call[Match].pc \in {"read", "commit"} =>
          /\ call[Match].op = matcher.op
          /\ call[Match].worker = matcher.worker
          /\ call[Match].update = "Executing"

\* The method that holds the pool's mutex, and the call it makes.
HandlerSound ==
    /\ handler.kind = "free" => call[Api].pc = "idle"
    /\ handler.kind = "update" =>
          /\ handler.worker \in pool
          /\ call[Api].pc \in {"read", "commit", "done"}
          /\ call[Api].pc \in {"read", "commit"} =>
                /\ call[Api].op = handler.op
                /\ call[Api].worker = handler.worker
                /\ call[Api].update \in Answers
    /\ handler.kind = "evict" => call[Api].pc \in {"idle", "read", "commit", "done"}

\* The workers of the pool.
PoolSound ==
    /\ \A w \in pool : link[w] # "new"
    /\ paused \subseteq pool
    /\ SlotsNeverNegative
    /\ PausedHasActions
    /\ matcher.pc \in {"assign", "notify"} /\ matcher.worker \in pool =>
          slots[matcher.worker] >= 1

\* The matching engine has assigned op to w and will notify w.
HandsOver(op, w) ==
    /\ matcher.op = op /\ matcher.worker = w
    /\ \/ matcher.pc = "notify"
       \/ matcher.pc = "assign" /\ call[Match].pc = "done" /\ call[Match].result = "Ok"

ExecutesOn(op, w) ==
    op \in known /\ awaited[op].stage = "Executing" /\ awaited[op].worker = w

\* An executing action is on a worker that once joined; on one of the pool, it
\* is in running_action_infos or being handed over.  When the state manager
\* took a worker's answer, the action it is about executes there no more,
\* unless it was assigned to it again.
TrackingSound ==
    /\ \A op \in known, w \in Workers : ExecutesOn(op, w) =>
          /\ link[w] # "new"
          /\ w \in pool => op \in running[w] \/ HandsOver(op, w)
    /\ handler.kind = "update" /\ call[Api].pc = "done" /\ call[Api].result = "Ok" =>
          (ExecutesOn(handler.op, handler.worker) => HandsOver(handler.op, handler.worker))

\* The matching engine has the operation before it.
Ahead(op) ==
    /\ matcher.pc # "idle"
    /\ \/ op \in matcher.todo
       \/ op < matcher.floor
       \/ /\ op = matcher.op
          /\ \/ matcher.pc = "find"
             \/ matcher.pc = "assign" /\ call[Match].pc \in {"read", "commit"}

\* A queued action that could run is ahead of the matching engine, or a permit
\* will wake it again; an assignment that was refused, or undone, left one.
WakeupSound ==
    /\ ~taskPermit /\ ~workerPermit =>
          \A op \in sorted["Queued"] \ lapsed, w \in pool : CanRun(w) => Ahead(op)
    /\ matcher.pc = "notify" \/ (matcher.pc = "assign" /\ call[Match].pc = "done") =>
          taskPermit \/ matcher.op \notin sorted["Queued"]
    /\ matcher.pc = "assign" /\ call[Match].pc = "commit" =>
          taskPermit \/ awaited[matcher.op] = call[Match].snap

SInv ==
    /\ IInv
    /\ SchedulerTypeOK
    /\ NamesSound
    /\ TasksSound
    /\ MatcherSound
    /\ HandlerSound
    /\ PoolSound
    /\ TrackingSound
    /\ WakeupSound

-----------------------------------------------------------------------------
(* The highest and the lowest of a set of operations.                      *)

LEMMA NatMinExists ==
    ASSUME NEW T, T \subseteq Nat, T # {}
    PROVE  \E m \in T : \A n \in T : m <= n
PROOF
  <1> DEFINE R == OpToRel(<, Nat)
  <1>1. IsWellFoundedOn(R, Nat)
    BY NatLessThanWellFounded, Zenon
  <1>2. \A m, n \in Nat : n < m => <<n, m>> \in R
    BY DEF OpToRel
  <1> HIDE DEF R
  <1>3. PICK m \in T : \A n \in T : ~(<<n, m>> \in R)
    BY <1>1, WFMin, Zenon
  <1>4. \A n \in T : ~(n < m)
    BY <1>2, <1>3, Zenon
  <1>5. QED
    BY <1>4

\* Max and Min of the community modules are what they are called.
LEMMA MaxIsHighest ==
    ASSUME NEW S, S \subseteq Operations, S # {}
    PROVE  Max(S) \in S /\ \A op \in S : op <= Max(S)
PROOF
  <1>1. PICK top \in Operations : \A op \in Operations : op <= top
    BY SchedulerAssumption
  <1> DEFINE T == {top - op : op \in S}
  <1>2. T \subseteq Nat /\ T # {}
    <2>1. \A op \in S : op \in Nat /\ top \in Nat /\ op <= top
      BY <1>1, SchedulerAssumption
    <2>2. \A op \in S : top - op \in Nat
      BY <2>1
    <2>3. QED
      BY <2>2
  <1>3. PICK d \in T : \A e \in T : d <= e
    BY <1>2, NatMinExists, Zenon
  <1>4. PICK m \in S : d = top - m
    BY <1>3
  <1>5. \A op \in S : m >= op
    <2> SUFFICES ASSUME NEW op \in S PROVE m >= op
      OBVIOUS
    <2>1. d <= top - op
      BY <1>3
    <2>2. QED
      BY <1>4, <2>1, SchedulerAssumption
  <1>6. /\ Max(S) \in S
        /\ \A op \in S : Max(S) >= op
    BY <1>4, <1>5 DEF Max
  <1>7. QED
    BY <1>6, SchedulerAssumption

LEMMA MinIsMember ==
    ASSUME NEW S, S \subseteq Operations, S # {}
    PROVE  Min(S) \in S
PROOF
  <1>1. S \subseteq Nat
    BY SchedulerAssumption
  <1>2. PICK m \in S : \A n \in S : m =< n
    BY <1>1, NatMinExists, Zenon
  <1>3. QED
    BY <1>2 DEF Min
-----------------------------------------------------------------------------
(* The scheduler uses the state manager as the open module allows.         *)

LEMMA StepUsesManager ==
    ASSUME SInv, [SchedulerNext]_allVars
    PROVE  [OpenNext]_vars
PROOF
  <1>0. /\ {Match, Api, KeepAliveTask} \subseteq Callers /\ Clients \subseteq Callers
        /\ lapsed \subseteq used
    BY PoolAssumption, SchedulerAssumption DEF SInv, IInv, TypeOK
  <1>1. ASSUME NEW a \in Callers, NEW op \in used, NEW w \in Workers,
               NEW u \in Updates, StartUpdate(a, op, w, u)
        PROVE  OpenNext
    BY <1>1 DEF OpenNext, Begin
  <1>2. ASSUME NEW a \in Callers, Finish(a) PROVE OpenNext
    BY <1>2 DEF OpenNext
  <1>3. ASSUME MatchStep PROVE [OpenNext]_vars
    <2>1. CASE \/ MatchWakes \/ MatchReadsChunk \/ MatchFindsNone
               \/ MatchNotifies \/ MatchWorkerGone
      BY <2>1, Zenon DEF MatchWakes, MatchReadsChunk, MatchFindsNone, MatchNotifies,
                  MatchWorkerGone, NotifyRunAction, vars
    <2>2. CASE MatchTakesNext
      BY <1>0, <2>2, Zenon DEF MatchTakesNext, FilterReadsLapsed, OpenNext, Begin
    <2>3. CASE MatchFilterReturns \/ MatchAssigned
      BY <1>0, <1>2, <2>3 DEF MatchFilterReturns, MatchAssigned
    <2>4. CASE MatchFindsWorker
      <3>1. matcher.op \in used /\ pool \subseteq Workers
        BY <2>4 DEF SInv, MatcherSound, SchedulerTypeOK, PoolTypeOK, MatchFindsWorker
      <3>2. QED
        BY <1>0, <1>1, <2>4, <3>1 DEF MatchFindsWorker, Updates
    <2>5. QED
      BY <1>3, <2>1, <2>2, <2>3, <2>4 DEF MatchStep
  <1>4. ASSUME PoolStep PROVE [OpenNext]_vars
    <2>1. CASE EvictNext
      <3>1. PICK p \in handler.rest : StartUpdate(Api, p[2], p[1], "Error")
        BY <2>1 DEF EvictNext
      <3>2. p[2] \in used /\ p[1] \in Workers
        BY DEF SInv, NamesSound, SchedulerTypeOK, PoolTypeOK, Handler
      <3>3. QED
        BY <1>0, <1>1, <3>1, <3>2 DEF Updates, WorkerUpdates
    <2>2. CASE \/ EvictUpdateReturns \/ UpdateActionFails
               \/ UpdateActionCompletes \/ KeepAliveReturns
      BY <1>0, <1>2, <2>2 DEF EvictUpdateReturns, UpdateActionFails,
                              UpdateActionCompletes, KeepAliveReturns
    <2>3. CASE EvictEnds
      BY <2>3 DEF EvictEnds, vars
    <2>4. QED
      BY <1>4, <2>1, <2>2, <2>3 DEF PoolStep
  <1>5. ASSUME NEW c \in Clients, ClientStep(c) \/ ClientHangsUp(c)
               \/ ClientEntryGrowsOld(c)
        PROVE  [OpenNext]_vars
    <2>1. CASE ClientExecutes(c) \/ ClientSendsKeepAlive(c) \/ ClientEntryGrowsOld(c)
      BY <2>1 DEF ClientExecutes, ClientSendsKeepAlive, ClientEntryGrowsOld, OpenNext,
                  DbStep
    <2>2. CASE ClientSeesChange(c) \/ ClientLosesOperation(c) \/ ClientTimerFires(c)
      BY <2>2 DEF ClientSeesChange, ClientLosesOperation, ClientTimerFires
    <2>3. CASE ClientTimesOut(c)
      <3>1. clientOp[c] \in used
        BY <2>3 DEF SInv, NamesSound, ClientTimesOut
      <3>2. QED
        BY <1>0, <2>3, <3>1 DEF ClientTimesOut, OpenNext, Begin
    <2>4. CASE ClientTimeoutReturns(c)
      BY <1>0, <1>2, <2>4 DEF ClientTimeoutReturns
    <2>5. CASE ClientHangsUp(c)
      <3>1. CASE call[c].pc = "idle"
        <4>1. call[c] = NoCall /\ call \in [Callers -> Call]
          BY <1>0, <3>1 DEF SInv, TasksSound, IInv, TypeOK
        <4>2. call' = call
          BY <1>0, <2>5, <4>1 DEF ClientHangsUp
        <4>3. QED
          BY <2>5, <4>2 DEF ClientHangsUp, vars
      <3>2. CASE call[c].pc # "idle"
        BY <1>0, <1>2, <2>5, <3>2, Zenon DEF ClientHangsUp, Finish
      <3>3. QED
        BY <3>1, <3>2
    <2>6. QED
      BY <1>5, <2>1, <2>2, <2>3, <2>4, <2>5 DEF ClientStep
  <1>6. ASSUME NEW r \in replies, ReplyArrives(r) PROVE [OpenNext]_vars
    <2>1. r.op \in used /\ r.worker \in Workers /\ r.update \in Updates
      BY DEF SInv, NamesSound, SchedulerTypeOK, Answers, Updates, WorkerUpdates
    <2>2. CASE UpdateActionStarts(r.worker, r.op, r.update)
      BY <1>0, <1>1, <2>1, <2>2 DEF UpdateActionStarts
    <2>3. CASE UpdateFromUnknown(r.worker) \/ UpdateNotRunning(r.worker, r.op)
      BY <2>3 DEF UpdateFromUnknown, UpdateNotRunning, vars
    <2>4. QED
      BY <1>6, <2>2, <2>3 DEF ReplyArrives, UpdateAction
  <1>7. ASSUME \/ DatabaseStep
               \/ TimeoutRemovesWorkers
               \/ \E a \in Callers : CallSteps(a)
               \/ \E w \in Workers : ToldWorkerLeaves(w) \/ NewWorker(w)
               \/ \E w \in Workers, op \in Operations : JobEnds(w, op, "Completed")
        PROVE  [OpenNext]_vars
    BY <1>7 DEF DatabaseStep, TimeoutRemovesWorkers, RemoveWorkers, CallSteps,
                ToldWorkerLeaves, WorkerDown, NewWorker, AddWorker, JobEnds, OpenNext,
                DbStep, vars
  <1>8. ASSUME EnvStep PROVE [OpenNext]_vars
    <2>1. CASE \E c \in Clients : ClientHangsUp(c) \/ ClientEntryGrowsOld(c)
      BY <1>5, <2>1
    <2>2. CASE \E w \in Workers : WorkerDown(w) \/ WorkerStalls(w) \/ WorkerResumes(w)
      BY <2>2 DEF WorkerDown, WorkerStalls, WorkerResumes
    <2>3. CASE \/ \E w \in pool : RemoveWorkers({w})
               \/ \E w \in Workers, d \in BOOLEAN : SetDrainWorker(w, d)
      BY <2>3, Zenon DEF RemoveWorkers, SetDrainWorker, vars
    <2>4. CASE \E w \in Workers, op \in Operations, u \in Answers : JobEnds(w, op, u)
      BY <2>4 DEF JobEnds
    <2>5. CASE \E op \in Operations : ClientKeepaliveLapses(op)
      BY <2>5 DEF OpenNext
    <2>6. CASE \E w \in Workers, op \in Operations : KeepAliveReceived(w, op)
      <3>1. PICK w \in Workers, op \in Operations : KeepAliveReceived(w, op)
        BY <2>6
      <3>2. op \in used
        BY <3>1 DEF KeepAliveReceived, SInv, NamesSound
      <3>3. QED
        BY <1>0, <1>1, <3>1, <3>2 DEF KeepAliveReceived, Updates, WorkerUpdates
    <2>7. QED
      BY <1>8, <2>1, <2>2, <2>3, <2>4, <2>5, <2>6 DEF EnvStep, Answers
  <1>9. CASE UNCHANGED allVars
    BY <1>9 DEF allVars
  <1>10. QED
    BY <1>3, <1>4, <1>5, <1>6, <1>7, <1>8, <1>9 DEF SchedulerNext, SystemStep

-----------------------------------------------------------------------------
(* Types.                                                                  *)

LEMMA EvictTypes ==
    ASSUME PoolTypeOK, NEW W \in SUBSET Workers,
           NEW now \in [Workers -> SUBSET Operations], Evict(W, now), UNCHANGED link
    PROVE  PoolTypeOK'
PROOF
  <1> DEFINE rest == {p \in W \X Operations : p[2] \in now[p[1]]}
  <1>1. rest \in SUBSET (Workers \X Operations)
    OBVIOUS
  <1>2. handler' = [Free EXCEPT !.kind = "evict", !.rest = rest]
    BY DEF Evict
  <1> HIDE DEF rest
  <1>3. handler' \in Handler
    BY <1>1, <1>2, Zenon DEF Free, Handler, Updates, WorkerUpdates
  <1>4. /\ running' \in [Workers -> SUBSET Operations]
        /\ slots' \in [Workers -> Int]
    BY DEF PoolTypeOK, Evict
  <1>5. QED
    BY <1>3, <1>4 DEF PoolTypeOK, Evict

LEMMA PoolTypes ==
    ASSUME SInv, [SchedulerNext]_allVars
    PROVE  PoolTypeOK'
PROOF
  <1>0. PoolTypeOK /\ Free \in Handler
    BY DEF SInv, SchedulerTypeOK, Free, Handler, Updates, WorkerUpdates
  <1>1. CASE UNCHANGED poolVars
    BY <1>0, <1>1 DEF PoolTypeOK, poolVars
  <1>2. CASE MatchWakes
    BY <1>0, <1>2, Zenon DEF MatchWakes, PoolTypeOK
  <1>3. CASE MatchNotifies
    <2>1. matcher.op \in Operations
      BY <1>3 DEF MatchNotifies, SInv, MatcherSound, IInv, TypeOK, DbTypeOK
    <2>2. CASE link[matcher.worker] = "up"
      BY <1>0, <1>3, <2>1, <2>2 DEF MatchNotifies, NotifyRunAction, RunAction, PoolTypeOK
    <2>3. CASE link[matcher.worker] # "up"
      <3> DEFINE w == matcher.worker
                 now == [running EXCEPT ![w] = @ \cup {matcher.op}]
      <3>1. w \in Workers /\ Evict({w}, now) /\ UNCHANGED link
        BY <1>0, <1>3, <2>3 DEF MatchNotifies, NotifyRunAction, PoolTypeOK
      <3>2. now \in [Workers -> SUBSET Operations]
        BY <1>0, <2>1, Zenon DEF PoolTypeOK
      <3>3. QED
        BY <1>0, <3>1, <3>2, EvictTypes, Zenon
    <2>4. QED
      BY <2>2, <2>3
  <1>4. CASE EvictNext \/ EvictEnds \/ UpdateActionFails
    BY <1>0, <1>4, Zenon DEF EvictNext, EvictEnds, UpdateActionFails, PoolTypeOK, Handler,
                      SInv, HandlerSound
  <1>5. CASE UpdateActionCompletes
    <2>1. handler.worker \in Workers
      BY <1>0, <1>5 DEF UpdateActionCompletes, SInv, HandlerSound, PoolTypeOK
    <2>2. QED
      BY <1>0, <1>5, <2>1 DEF UpdateActionCompletes, CompleteAction, PoolTypeOK
  <1>6. ASSUME NEW W \in SUBSET Workers, Evict(W, running), UNCHANGED link
        PROVE  PoolTypeOK'
    BY <1>0, <1>6, EvictTypes, Zenon DEF PoolTypeOK
  <1>7. ASSUME NEW r \in replies, ReplyArrives(r) PROVE PoolTypeOK'
    <2>1. r.worker \in Workers /\ r.op \in Operations /\ r.update \in Updates
      BY DEF SInv, SchedulerTypeOK, Updates
    <2>2. CASE UpdateFromUnknown(r.worker)
      BY <1>0, <2>1, <2>2 DEF UpdateFromUnknown, PoolTypeOK
    <2>3. CASE UpdateNotRunning(r.worker, r.op)
      BY <1>6, <2>1, <2>3 DEF UpdateNotRunning
    <2>4. CASE UpdateActionStarts(r.worker, r.op, r.update)
      BY <1>0, <2>1, <2>4, Zenon DEF UpdateActionStarts, PoolTypeOK, Free, Handler
    <2>5. QED
      BY <1>7, <2>2, <2>3, <2>4 DEF ReplyArrives, UpdateAction
  <1>8. ASSUME NEW W, RemoveWorkers(W) PROVE PoolTypeOK'
    BY <1>0, <1>6, <1>8 DEF RemoveWorkers, PoolTypeOK
  <1>9. ASSUME NEW w \in Workers,
               AddWorker(w) \/ WorkerDown(w) \/ \E d \in BOOLEAN : SetDrainWorker(w, d)
        PROVE  PoolTypeOK'
    <2>1. CASE AddWorker(w)
      BY <1>0, <2>1, PoolAssumption DEF AddWorker, PoolTypeOK
    <2>2. CASE WorkerDown(w)
      BY <1>0, <2>2 DEF WorkerDown, PoolTypeOK
    <2>3. CASE \E d \in BOOLEAN : SetDrainWorker(w, d)
      BY <1>0, <2>3, SMTT(45) DEF SetDrainWorker, PoolTypeOK
    <2>4. QED
      BY <1>9, <2>1, <2>2, <2>3
  <1>10. ASSUME NEW c \in Clients, ClientStep(c) \/ ClientHangsUp(c)
               \/ ClientEntryGrowsOld(c)
         PROVE  UNCHANGED poolVars
    BY <1>10 DEF ClientStep, ClientExecutes, ClientSeesChange, ClientLosesOperation,
         ClientTimerFires, ClientTimesOut, ClientTimeoutReturns, ClientSendsKeepAlive,
         ClientHangsUp, ClientEntryGrowsOld
  <1>11. CASE MatchStep
    BY <1>1, <1>2, <1>3, <1>11, Zenon DEF MatchStep, MatchReadsChunk, MatchTakesNext,
       MatchFilterReturns, MatchFindsWorker, MatchFindsNone, MatchAssigned,
       MatchWorkerGone
  <1>12. CASE PoolStep
    BY <1>1, <1>4, <1>5, <1>12 DEF PoolStep, EvictUpdateReturns, KeepAliveReturns
  <1>13. CASE \/ DatabaseStep
              \/ TimeoutRemovesWorkers
              \/ \E a \in Callers : CallSteps(a)
              \/ \E w \in Workers : ToldWorkerLeaves(w) \/ NewWorker(w)
              \/ \E w \in Workers, op \in Operations : JobEnds(w, op, "Completed")
    BY <1>1, <1>8, <1>9, <1>13 DEF DatabaseStep, TimeoutRemovesWorkers, CallSteps,
       ToldWorkerLeaves, NewWorker, JobEnds
  <1>14. CASE EnvStep
    BY <1>1, <1>8, <1>9, <1>10, <1>14, Zenon DEF EnvStep, WorkerStalls, WorkerResumes, JobEnds,
       KeepAliveReceived
  <1>15. QED
    BY <1>1, <1>7, <1>10, <1>11, <1>12, <1>13, <1>14
       DEF SchedulerNext, SystemStep, allVars

Matcher ==
    [pc : {"idle", "scan", "filter", "find", "assign", "notify"},
     todo : SUBSET Operations, floor : Nat, op : Operations \cup {NoOperation},
     worker : Workers \cup {NoWorker}]

LEMMA MatcherType ==
    ASSUME SInv, [SchedulerNext]_allVars
    PROVE  matcher' \in Matcher
PROOF
  <1>0. /\ matcher \in Matcher /\ IdleMatcher \in Matcher
        /\ pool \subseteq Workers /\ sorted["Queued"] \subseteq Operations
    BY DEF SInv, SchedulerTypeOK, Matcher, IdleMatcher, PoolTypeOK, TypeOK, DbTypeOK,
           Stages
  <1>1. CASE matcher' = matcher
    BY <1>0, <1>1
  <1>2. CASE MatchWakes
    <2>1. PICK top \in Nat : top = Max(Operations)
      BY MaxIsHighest, SchedulerAssumption, Zenon
    <2>2. matcher' = [IdleMatcher EXCEPT !.pc = "scan", !.floor = top + 1]
      BY <1>2, <2>1 DEF MatchWakes
    <2>3. top + 1 \in Nat
      OBVIOUS
    <2>4. QED
      BY <2>2, <2>3, Zenon DEF Matcher, IdleMatcher
  <1>3. CASE MatchReadsChunk
    <2> DEFINE chunk == {op \in sorted["Queued"] : op < matcher.floor}
    <2>1. chunk \in SUBSET Operations
      BY <1>0, Zenon
    <2>2. CASE chunk = {}
      BY <1>0, <1>3, <2>2 DEF MatchReadsChunk
    <2>3. CASE chunk # {}
      <3>1. Min(chunk) \in Nat
        BY <2>1, <2>3, MinIsMember, SchedulerAssumption, Zenon
      <3>2. matcher' = [matcher EXCEPT !.todo = chunk, !.floor = Min(chunk)]
        BY <1>3, <2>3 DEF MatchReadsChunk
      <3> HIDE DEF chunk
      <3>3. QED
        BY <1>0, <2>1, <3>1, <3>2, Zenon DEF Matcher
    <2>4. QED
      BY <2>2, <2>3
  <1>4. CASE MatchTakesNext
    <2> DEFINE op == Max(matcher.todo)
    <2>1. op \in Operations
      BY <1>0, <1>4, MaxIsHighest DEF MatchTakesNext, Matcher
    <2>2. QED
      BY <1>0, <1>4, <2>1, Zenon DEF MatchTakesNext, Matcher
  <1>5. CASE MatchFindsWorker
    BY <1>0, <1>5, Zenon DEF MatchFindsWorker, Matcher
  <1>6. CASE \/ MatchFilterReturns \/ MatchFindsNone \/ MatchAssigned
             \/ MatchNotifies \/ MatchWorkerGone
    BY <1>0, <1>6, Zenon DEF MatchFilterReturns, MatchFindsNone, MatchAssigned, MatchNotifies,
       MatchWorkerGone, NextOperation, Matcher
  <1>7. ASSUME NEW c \in Clients, ClientStep(c) \/ ClientHangsUp(c)
               \/ ClientEntryGrowsOld(c)
        PROVE  matcher' = matcher
    BY <1>7, Zenon DEF ClientStep, ClientExecutes, ClientSeesChange, ClientLosesOperation,
         ClientTimerFires, ClientTimesOut, ClientTimeoutReturns, ClientSendsKeepAlive,
         ClientHangsUp, ClientEntryGrowsOld, schedVars
  <1>8. CASE EnvStep
    BY <1>1, <1>7, <1>8, Zenon DEF EnvStep, WorkerDown, WorkerStalls, WorkerResumes, JobEnds,
       schedVars
  <1>9. QED
    BY <1>1, <1>2, <1>3, <1>4, <1>5, <1>6, <1>7, <1>8, SMTT(45)
       DEF SchedulerNext, SystemStep, MatchStep, PoolStep, DatabaseStep,
           TimeoutRemovesWorkers, CallSteps, ReplyArrives, ToldWorkerLeaves, WorkerDown,
           NewWorker, JobEnds, schedVars, allVars

RestTypeOK ==
    /\ taskPermit \in BOOLEAN
    /\ client \in [Clients -> {"new", "listening", "due", "answered", "failed", "gone"}]
    /\ seen \in [Clients -> Nat \cup {-1}]
    /\ jobs \in [Workers -> SUBSET Operations]
    /\ replies \subseteq [worker : Workers, op : Operations, update : WorkerUpdates]
    /\ silent \subseteq Workers
    /\ dispatched \in [Operations -> Nat]

LEMMA StepKeepsTypes ==
    ASSUME SInv, IInv', [SchedulerNext]_allVars
    PROVE  SchedulerTypeOK'
PROOF
  <1>0. RestTypeOK /\ PoolTypeOK /\ TypeOK /\ taskPermit \in BOOLEAN
    BY DEF SInv, SchedulerTypeOK, RestTypeOK
  <1> SUFFICES RestTypeOK'
    BY PoolTypes, MatcherType DEF SchedulerTypeOK, IInv, Matcher, RestTypeOK
  <1>1. ASSUME UNCHANGED <<client, seen, jobs, replies, silent, dispatched>>,
               taskPermit' \in BOOLEAN
        PROVE  RestTypeOK'
    BY <1>0, <1>1 DEF RestTypeOK
  <1>2. CASE MatchNotifies
    <2>1. matcher.op \in Operations /\ matcher.worker \in Workers
      BY <1>0, <1>2 DEF MatchNotifies, NotifyRunAction, SInv, MatcherSound, TypeOK,
                        DbTypeOK, PoolTypeOK
    <2>2. [worker |-> matcher.worker, op |-> matcher.op, update |-> "Error"]
             \in [worker : Workers, op : Operations, update : WorkerUpdates]
      BY <2>1 DEF WorkerUpdates
    <2>3. jobs' = jobs \/ jobs' = [jobs EXCEPT ![matcher.worker] = @ \cup {matcher.op}]
      BY <1>2 DEF MatchNotifies, Delivered
    <2>4. \/ replies' = replies
          \/ replies' = replies \cup {[worker |-> matcher.worker, op |-> matcher.op,
                                      update |-> "Error"]}
      BY <1>2 DEF MatchNotifies, Delivered
    <2>5. jobs' \in [Workers -> SUBSET Operations]
      BY <1>0, <2>1, <2>3 DEF RestTypeOK
    <2>6. replies' \subseteq [worker : Workers, op : Operations, update : WorkerUpdates]
      BY <1>0, <2>2, <2>4 DEF RestTypeOK
    <2>7. QED
      BY <1>0, <1>2, <2>5, <2>6, SMTT(45) DEF MatchNotifies, RestTypeOK
  <1>3. CASE MatchStep
    BY <1>0, <1>1, <1>2, <1>3, Zenon DEF MatchStep, MatchWakes, MatchReadsChunk, MatchTakesNext,
       MatchFilterReturns, MatchFindsWorker, MatchFindsNone, MatchAssigned,
       MatchWorkerGone
  <1>4. ASSUME NEW c \in Clients, ClientStep(c) \/ ClientHangsUp(c)
               \/ ClientEntryGrowsOld(c)
        PROVE  RestTypeOK'
    <2>1. CASE ClientSeesChange(c)
      <3>1. awaited[clientOp[c]].version \in Nat
        BY <1>0, <2>1 DEF ClientSeesChange, SInv, NamesSound, TypeOK, DbTypeOK,
                          AwaitedAction
      <3>2. QED
        BY <1>0, <2>1, <3>1 DEF ClientSeesChange, RestTypeOK
    <2>2. CASE ClientExecutes(c) \/ ClientHangsUp(c)
      BY <1>0, <2>2, Zenon DEF RestTypeOK, ClientExecutes, ClientHangsUp, TaskNotify
    <2>3. CASE \/ ClientLosesOperation(c) \/ ClientTimerFires(c)
               \/ ClientTimesOut(c) \/ ClientTimeoutReturns(c)
      BY <1>0, <2>3 DEF RestTypeOK, ClientLosesOperation, ClientTimerFires, ClientTimesOut,
                        ClientTimeoutReturns
    <2>4. CASE ClientSendsKeepAlive(c) \/ ClientEntryGrowsOld(c)
      BY <1>0, <2>4 DEF RestTypeOK, ClientSendsKeepAlive, ClientEntryGrowsOld, schedVars
    <2>5. QED
      BY <1>4, <2>1, <2>2, <2>3, <2>4 DEF ClientStep
  <1>5. ASSUME NEW w \in Workers, NEW op \in Operations, NEW u \in Answers,
               JobEnds(w, op, u)
        PROVE  RestTypeOK'
    BY <1>0, <1>5 DEF RestTypeOK, JobEnds, Answers, WorkerUpdates
  <1>6. ASSUME NEW a \in Callers, CallSteps(a) PROVE RestTypeOK'
    <2>1. dispatched' \in [Operations -> Nat]
      <3>1. matcher.pc = "assign" => matcher.op \in Operations
        BY <1>0 DEF SInv, MatcherSound, TypeOK, DbTypeOK
      <3>2. QED
        BY <1>0, <1>6, <3>1 DEF CallSteps, RestTypeOK
    <2>2. QED
      BY <1>0, <1>6, <2>1 DEF CallSteps, TaskNotify, RestTypeOK
  <1>7. ASSUME NEW r \in replies, ReplyArrives(r) PROVE RestTypeOK'
    BY <1>0, <1>7 DEF ReplyArrives, RestTypeOK
  <1>8. ASSUME NEW w \in Workers, WorkerDown(w) \/ WorkerStalls(w) \/ WorkerResumes(w)
        PROVE  RestTypeOK'
    BY <1>0, <1>8 DEF RestTypeOK, WorkerDown, WorkerStalls, WorkerResumes
  <1>9. CASE EnvStep
    <2>1. \/ UNCHANGED schedVars
          \/ \E w \in Workers : WorkerDown(w) \/ WorkerStalls(w) \/ WorkerResumes(w)
          \/ \E w \in Workers, op \in Operations, u \in Answers : JobEnds(w, op, u)
          \/ \E c \in Clients : ClientHangsUp(c) \/ ClientEntryGrowsOld(c)
      BY <1>9, Zenon DEF EnvStep, Answers
    <2>2. CASE UNCHANGED schedVars
      BY <1>0, <1>1, <2>2 DEF schedVars
    <2>3. QED
      BY <1>4, <1>5, <1>8, <2>1, <2>2
  <1>10. CASE UNCHANGED schedVars
    BY <1>0, <1>1, <1>10 DEF schedVars
  <1>11. CASE SystemStep
    BY <1>3, <1>4, <1>5, <1>6, <1>7, <1>8, <1>10, <1>11
       DEF SystemStep, PoolStep, DatabaseStep, TimeoutRemovesWorkers,
           ToldWorkerLeaves, NewWorker, Answers
  <1>12. QED
    BY <1>9, <1>10, <1>11 DEF SchedulerNext, allVars

-----------------------------------------------------------------------------
(* What a step leaves alone stays sound.                                   *)

LinksGrow == \A w \in Workers : link'[w] = "new" => link[w] = "new"

\* The tasks as the state manager sees them.
LEMMA TaskFacts ==
    ASSUME SInv
    PROVE  /\ Match \in Callers /\ Api \in Callers /\ KeepAliveTask \in Callers
           /\ Clients \subseteq Callers
           /\ Match # Api /\ Match # KeepAliveTask /\ Api # KeepAliveTask
           /\ \A c \in Clients : c # Match /\ c # Api /\ c # KeepAliveTask
           /\ call \in [Callers -> Call]
PROOF BY PoolAssumption, SchedulerAssumption DEF SInv, IInv, TypeOK

LEMMA NamesFrame ==
    ASSUME NamesSound, used \subseteq used',
           UNCHANGED <<running, jobs, replies, handler, client, clientOp>>
    PROVE  NamesSound'
PROOF BY DEF NamesSound

\* The call of one task moves.
LEMMA TasksMove ==
    ASSUME SInv, NEW a \in Callers, NEW x, call' = [call EXCEPT ![a] = x],
           \A c \in Clients : client'[c] = "new" => client[c] = "new" /\ c # a,
           x.pc = "idle" => x = NoCall,
           a # Match /\ x.pc \in {"read", "commit"} => x.update # "Executing"
    PROVE  TasksSound'
PROOF BY TaskFacts DEF SInv, TasksSound

LEMMA MatcherFrame ==
    ASSUME SInv, used \subseteq used', UNCHANGED matcher, call'[Match] = call[Match],
           LinksGrow
    PROVE  MatcherSound'
PROOF BY DEF SInv, MatcherSound, LinksGrow

LEMMA HandlerFrame ==
    ASSUME SInv, UNCHANGED handler, call'[Api] = call[Api], pool \subseteq pool'
    PROVE  HandlerSound'
PROOF BY DEF SInv, HandlerSound

LEMMA PoolFrame ==
    ASSUME SInv, UNCHANGED <<pool, running, slots, paused>>, LinksGrow,
           matcher'.pc \in {"assign", "notify"} =>
              matcher.pc \in {"assign", "notify"} /\ matcher'.worker = matcher.worker
    PROVE  PoolSound'
PROOF BY DEF SInv, SchedulerTypeOK, PoolTypeOK, PoolSound, SlotsNeverNegative,
             PausedHasActions, LinksGrow

\* Nothing starts to execute, and nothing that is being handed over is dropped.
LEMMA TrackingFrame ==
    ASSUME SInv, UNCHANGED <<pool, running>>, LinksGrow,
           \A op \in Operations, w \in Workers :
              /\ ExecutesOn(op, w)' => ExecutesOn(op, w)
              /\ HandsOver(op, w) => HandsOver(op, w)',
           known' \subseteq Operations,
           \/ handler' = handler /\ call'[Api] = call[Api]
           \/ handler'.kind # "update" \/ call'[Api].pc # "done"
    PROVE  TrackingSound'
PROOF
  <1>1. ASSUME NEW op \in known', NEW w \in Workers, ExecutesOn(op, w)'
        PROVE  link'[w] # "new" /\ (w \in pool' => op \in running'[w] \/ HandsOver(op, w)')
    <2>1. op \in Operations /\ ExecutesOn(op, w)
      BY <1>1
    <2>2. op \in known
      BY <2>1 DEF ExecutesOn
    <2>3. link[w] # "new" /\ (w \in pool => op \in running[w] \/ HandsOver(op, w))
      BY <2>1, <2>2 DEF SInv, TrackingSound
    <2>4. QED
      BY <2>1, <2>3 DEF LinksGrow
  <1>2. ASSUME handler'.kind = "update", call'[Api].pc = "done", call'[Api].result = "Ok",
               ExecutesOn(handler.op, handler.worker)'
        PROVE  HandsOver(handler.op, handler.worker)'
    <2>1. handler' = handler /\ call'[Api] = call[Api]
      BY <1>2, SMTT(45)
    <2>2. handler.op \in Operations /\ handler.worker \in Workers
      BY <1>2, <2>1 DEF ExecutesOn, SInv, HandlerSound, SchedulerTypeOK, PoolTypeOK
    <2>3. QED
      BY <1>2, <2>1, <2>2 DEF SInv, TrackingSound
  <1>3. QED
    BY <1>1, <1>2 DEF TrackingSound

\* Nothing becomes queued or able to run, and no permit is taken.
LEMMA WakeupFrame ==
    ASSUME SInv, UNCHANGED <<matcher, pool, slots, paused, draining, awaited>>,
           call'[Match] = call[Match],
           taskPermit => taskPermit', workerPermit => workerPermit',
           sorted'["Queued"] \subseteq sorted["Queued"], lapsed \subseteq lapsed'
    PROVE  WakeupSound'
PROOF BY Zenon DEF SInv, WakeupSound, CanRun, Ahead

\* The workers changed, and the matching engine was told.
LEMMA WakeupByWorkers ==
    ASSUME SInv, UNCHANGED <<matcher, awaited, sorted, taskPermit>>,
           call'[Match] = call[Match], workerPermit'
    PROVE  WakeupSound'
PROOF BY DEF SInv, WakeupSound

\* A step that the tasks of the scheduler do not notice.
LEMMA Undisturbed ==
    ASSUME SInv, IInv',
           UNCHANGED <<matcher, handler, pool, running, slots, paused, draining,
                       taskPermit, workerPermit, awaited>>,
           used \subseteq used', known' \subseteq known, LinksGrow,
           call'[Match] = call[Match], call'[Api] = call[Api],
           sorted'["Queued"] \subseteq sorted["Queued"], lapsed \subseteq lapsed'
    PROVE  MatcherSound' /\ HandlerSound' /\ PoolSound' /\ TrackingSound' /\ WakeupSound'
PROOF
  <1>1. \A op \in Operations, w \in Workers :
              /\ ExecutesOn(op, w)' => ExecutesOn(op, w)
              /\ HandsOver(op, w) => HandsOver(op, w)'
    BY DEF ExecutesOn, HandsOver
  <1>2. known' \subseteq Operations
    BY DEF IInv, TypeOK, DbTypeOK
  <1>3. TrackingSound'
    BY <1>1, <1>2, TrackingFrame
  <1>4. QED
    BY <1>3, MatcherFrame, HandlerFrame, PoolFrame, WakeupFrame, SMTT(45)

Sound ==
    /\ NamesSound /\ TasksSound /\ MatcherSound /\ HandlerSound
    /\ PoolSound /\ TrackingSound /\ WakeupSound

-----------------------------------------------------------------------------
(* The clients and the database.                                           *)

LEMMA SilentClientKeeps ==
    ASSUME SInv, IInv', NEW c \in Clients,
           ClientSeesChange(c) \/ ClientLosesOperation(c) \/ ClientTimerFires(c)
    PROVE  Sound'
PROOF
  <1>1. UNCHANGED <<vars, poolVars, matcher, taskPermit, jobs, replies, silent>>
    BY DEF ClientSeesChange, ClientLosesOperation, ClientTimerFires
  <1>2. /\ client[c] # "new" /\ client'[c] # "new"
        /\ \A d \in Clients \ {c} : client'[d] = client[d]
    BY DEF ClientSeesChange, ClientLosesOperation, ClientTimerFires, SInv,
           SchedulerTypeOK
  <1>3. NamesSound'
    BY <1>1, <1>2, Zenon DEF SInv, NamesSound, vars, dbVars, poolVars
  <1>4. TasksSound'
    BY <1>1, <1>2, Zenon DEF SInv, TasksSound, vars
  <1>5. QED
    BY <1>1, <1>3, <1>4, Undisturbed, SMTT(45) DEF Sound, LinksGrow, vars, dbVars, poolVars

\* `changed` calls timeout_operation_id, takes its result, or is dropped.
LEMMA TimeoutCallKeeps ==
    ASSUME SInv, IInv', NEW c \in Clients,
           ClientTimesOut(c) \/ ClientTimeoutReturns(c) \/ ClientHangsUp(c)
    PROVE  Sound'
PROOF
  <1>1. /\ UNCHANGED <<dbVars, lapsed, poolVars, matcher, taskPermit, jobs, replies>>
        /\ client[c] # "new" /\ client'[c] # "new"
        /\ \A d \in Clients \ {c} : client'[d] = client[d]
    BY DEF ClientTimesOut, ClientTimeoutReturns, ClientHangsUp, StartTimeout, Finish,
           vars, Waiting, SInv, SchedulerTypeOK, TasksSound
  <1>2. \/ call' = call
        \/ call' = [call EXCEPT ![c] = NoCall]
        \/ call' = [call EXCEPT ![c] = [NoCall EXCEPT !.pc = "timeout",
                                                      !.op = clientOp[c]]]
    BY DEF ClientTimesOut, ClientTimeoutReturns, ClientHangsUp, StartTimeout, Finish, vars
  <1>3. TasksSound'
    <2>1. [NoCall EXCEPT !.pc = "timeout", !.op = clientOp[c]].pc = "timeout"
      BY DEF NoCall
    <2>2. CASE call' = call
      BY <1>1, <2>2, Zenon DEF SInv, TasksSound
    <2>3. CASE call' = [call EXCEPT ![c] = NoCall]
      BY <1>1, <2>3, TasksMove, TaskFacts, NoCallFacts, Zenon
    <2>4. CASE call' = [call EXCEPT ![c] = [NoCall EXCEPT !.pc = "timeout",
                                                          !.op = clientOp[c]]]
      BY <1>1, <2>1, <2>4, TasksMove, TaskFacts, Zenon
    <2>5. QED
      BY <1>2, <2>2, <2>3, <2>4
  <1>4. call'[Match] = call[Match] /\ call'[Api] = call[Api]
    BY <1>2, TaskFacts, SMTT(45)
  <1>5. NamesSound'
    BY <1>1, Zenon DEF SInv, NamesSound, dbVars, poolVars
  <1>6. QED
    BY <1>1, <1>3, <1>4, <1>5, Undisturbed, Zenon DEF Sound, LinksGrow, dbVars, poolVars

\* The event loop of the database, and entries that grow old.
LEMMA DatabaseKeeps ==
    ASSUME SInv, IInv',
           \/ DatabaseStep
           \/ \E c \in Clients : ClientSendsKeepAlive(c) \/ ClientEntryGrowsOld(c)
    PROVE  Sound'
PROOF
  <1>1. /\ UNCHANGED <<used, awaited, clientOp, call, lapsed, poolVars, schedVars>>
        /\ known' \subseteq known
        /\ sorted'["Queued"] \subseteq sorted["Queued"]
    BY DEF DatabaseStep, ClientSendsKeepAlive, ClientEntryGrowsOld, GetAwaitedActionById,
           ClientDroppedOperation, DropOneOfMany, DropLast, ClientKeepAlive,
           ClientEntryExpires, SInv, IInv, TypeOK, DbTypeOK, Stages
  <1>2. NamesSound' /\ TasksSound'
    BY <1>1, NamesFrame, Zenon DEF SInv, TasksSound, poolVars, schedVars
  <1>3. QED
    BY <1>1, <1>2, Undisturbed, Zenon DEF Sound, LinksGrow, poolVars, schedVars

\* add_action leaves a permit, and what it creates is queued.
LEMMA ExecuteKeeps ==
    ASSUME SInv, IInv', used \subseteq used', NEW c \in Clients, ClientExecutes(c)
    PROVE  Sound'
PROOF
  <1>0. /\ UNCHANGED <<call, lapsed, poolVars, matcher, jobs, replies>>
        /\ client' = [client EXCEPT ![c] = "listening"]
        /\ clientOp[c] = NoOperation
        /\ client \in [Clients -> {"new", "listening", "due", "answered", "failed", "gone"}]
        /\ clientOp \in [Clients -> Operations \cup {NoOperation}]
    BY DEF ClientExecutes, AddAction, TrySubscribe, AddNewAction, SInv, SchedulerTypeOK,
           TypeOK, DbTypeOK
  <1>1. PICK op \in used' : clientOp' = [clientOp EXCEPT ![c] = op]
    BY DEF ClientExecutes, AddAction, TrySubscribe, AddNewAction, InsertClient,
           SInv, IInv, TypeOK, DbTypeOK
  <1>2. \A o \in Operations, w \in Workers : ExecutesOn(o, w)' => ExecutesOn(o, w)
    BY DEF ClientExecutes, AddAction, TrySubscribe, AddNewAction, ExecutesOn,
           NewAwaitedAction, SInv, IInv, TypeOK, DbTypeOK
  <1>3. taskPermit'
    <2>1. op # NoOperation
      BY DbAssumption DEF IInv, TypeOK, DbTypeOK
    <2>2. clientOp'[c] = op
      BY <1>0, <1>1
    <2>3. QED
      BY <1>0, <2>1, <2>2, Zenon DEF ClientExecutes, TaskNotify
  <1>4. NamesSound'
    BY <1>0, <1>1, Zenon DEF SInv, NamesSound, poolVars
  <1>5. TasksSound'
    BY <1>0, Zenon DEF SInv, TasksSound
  <1>6. MatcherSound' /\ HandlerSound' /\ PoolSound'
    BY <1>0, MatcherFrame, HandlerFrame, PoolFrame DEF LinksGrow, poolVars
  <1>7. TrackingSound'
    BY <1>0, <1>2, TrackingFrame, Zenon DEF HandsOver, LinksGrow, poolVars, IInv, TypeOK, DbTypeOK
  <1>8. WakeupSound'
    BY <1>3, Zenon DEF WakeupSound
  <1>9. QED
    BY <1>4, <1>5, <1>6, <1>7, <1>8, SMTT(45) DEF Sound

-----------------------------------------------------------------------------
(* The worker processes and the passing of time.                           *)

LEMMA ProcessKeeps ==
    ASSUME SInv, IInv', NEW w \in Workers,
           \/ WorkerDown(w) \/ WorkerStalls(w) \/ WorkerResumes(w)
           \/ \E op \in Operations, u \in Answers : JobEnds(w, op, u)
    PROVE  Sound'
PROOF
  <1>1. /\ UNCHANGED <<vars, pool, running, slots, paused, draining, handler,
                       workerPermit, matcher, taskPermit, client>>
        /\ LinksGrow
        /\ \A v \in Workers : jobs'[v] \subseteq jobs[v]
        /\ \A r \in replies' : r \in replies \/ (r.op \in jobs[w] /\ r.update \in Answers)
    BY DEF WorkerDown, WorkerStalls, WorkerResumes, JobEnds, LinksGrow, SInv,
           SchedulerTypeOK, PoolTypeOK, poolVars
  <1>2. NamesSound'
    BY <1>1, Zenon DEF SInv, NamesSound, vars, dbVars
  <1>3. TasksSound'
    BY <1>1, Zenon DEF SInv, TasksSound, vars
  <1>4. QED
    BY <1>1, <1>2, <1>3, Undisturbed, Zenon DEF Sound, vars, dbVars

LEMMA LapseKeeps ==
    ASSUME SInv, IInv', NEW op \in Operations, ClientKeepaliveLapses(op),
           UNCHANGED <<poolVars, schedVars>>
    PROVE  Sound'
PROOF
  <1>1. UNCHANGED <<dbVars, call>> /\ lapsed \subseteq lapsed'
    BY DEF ClientKeepaliveLapses
  <1>2. NamesSound' /\ TasksSound'
    BY <1>1, NamesFrame, Zenon DEF SInv, TasksSound, dbVars, poolVars, schedVars
  <1>3. QED
    BY <1>1, <1>2, Undisturbed, Zenon DEF Sound, LinksGrow, dbVars, poolVars, schedVars

-----------------------------------------------------------------------------
(* The worker pool.                                                        *)

LEMMA StartedCall ==
    ASSUME NEW a, NEW op, NEW w, NEW u, StartUpdate(a, op, w, u)
    PROVE  \E x : /\ call' = [call EXCEPT ![a] = x]
                 /\ x.pc = "read" /\ x.op = op /\ x.worker = w /\ x.update = u
PROOF
  <1> DEFINE x == [NoCall EXCEPT !.pc = "read", !.op = op, !.worker = w, !.update = u]
  <1>1. x.pc = "read" /\ x.op = op /\ x.worker = w /\ x.update = u
    BY DEF NoCall
  <1>2. call' = [call EXCEPT ![a] = x]
    BY SMTT(45) DEF StartUpdate
  <1> HIDE DEF x
  <1>3. QED
    BY <1>1, <1>2, Zenon

\* The channel to the keep-alive task, and its call.
LEMMA KeepAliveKeeps ==
    ASSUME SInv, IInv', UNCHANGED schedVars,
           \/ KeepAliveReturns
           \/ \E w \in Workers, op \in Operations : KeepAliveReceived(w, op)
    PROVE  Sound'
PROOF
  <1>1. PICK x : /\ call' = [call EXCEPT ![KeepAliveTask] = x]
                 /\ x.pc = "idle" => x = NoCall
                 /\ x.update # "Executing"
    <2>1. CASE KeepAliveReturns
      BY <2>1, NoCallFacts, Zenon DEF KeepAliveReturns, Finish
    <2>2. CASE \E w \in Workers, op \in Operations : KeepAliveReceived(w, op)
      <3>1. PICK w \in Workers, op \in Operations : KeepAliveReceived(w, op)
        BY <2>2, SMTT(45)
      <3>2. StartUpdate(KeepAliveTask, op, w, "KeepAlive")
        BY <3>1, Zenon DEF KeepAliveReceived
      <3>3. QED
        BY <3>2, StartedCall
    <2>3. QED
      BY <2>1, <2>2
  <1>2. UNCHANGED <<dbVars, lapsed, poolVars>>
    BY Zenon DEF KeepAliveReturns, KeepAliveReceived, Finish, StartUpdate
  <1>3. call'[Match] = call[Match] /\ call'[Api] = call[Api]
    BY <1>1, TaskFacts
  <1>4. TasksSound'
    BY <1>1, TasksMove, TaskFacts, Zenon DEF schedVars
  <1>5. NamesSound'
    BY <1>2, NamesFrame DEF SInv, dbVars, poolVars, schedVars
  <1>6. QED
    BY <1>2, <1>3, <1>4, <1>5, Undisturbed, Zenon DEF Sound, LinksGrow, dbVars, poolVars,
       schedVars

\* Where the pool's mutex is free, or its holder goes on with evictions.
LEMMA HandlerKeeps ==
    ASSUME SInv, IInv', UNCHANGED schedVars,
           \/ EvictNext \/ EvictUpdateReturns \/ EvictEnds \/ UpdateActionFails
    PROVE  Sound'
PROOF
  <1>0. handler \in Handler /\ Free.kind = "free" /\ Free.rest = {}
    BY DEF SInv, SchedulerTypeOK, PoolTypeOK, Free
  <1> DEFINE
        Goes == /\ UNCHANGED <<dbVars, lapsed, pool, running, slots, paused, draining, link>>
                /\ workerPermit => workerPermit'
                /\ handler'.rest \subseteq handler.rest
                /\ handler'.kind \in {"free", "evict"}
                /\ \/ call' = call /\ call[Api].pc = "idle"
                   \/ \E x : /\ call' = [call EXCEPT ![Api] = x]
                             /\ x.pc \in {"idle", "read"}
                             /\ x.pc = "idle" => x = NoCall
                             /\ handler'.kind = "free" => x.pc = "idle"
                             /\ x.update # "Executing"
  <1>1. ASSUME EvictNext PROVE Goes
    <2>1. PICK p \in handler.rest :
              /\ StartUpdate(Api, p[2], p[1], "Error")
              /\ handler' = [handler EXCEPT !.rest = @ \ {p}]
      BY <1>1, Zenon DEF EvictNext
    <2>2. handler'.kind = "evict" /\ handler'.rest \subseteq handler.rest
      BY <1>0, <1>1, <2>1 DEF EvictNext, Handler
    <2>3. \E x : /\ call' = [call EXCEPT ![Api] = x]
                /\ x.pc = "read" /\ x.update = "Error"
      BY <2>1, StartedCall
    <2>4. /\ UNCHANGED <<dbVars, lapsed, pool, running, slots, paused, draining, link>>
          /\ workerPermit => workerPermit'
      BY <1>1, <2>1, Zenon DEF EvictNext, StartUpdate
    <2>5. QED
      BY <2>2, <2>3, <2>4, Zenon
  <1>2. ASSUME EvictUpdateReturns \/ UpdateActionFails PROVE Goes
    <2>1. UNCHANGED <<dbVars, lapsed, pool, running, slots, paused, draining, link,
                      workerPermit>>
      BY <1>2 DEF EvictUpdateReturns, UpdateActionFails, Finish, poolVars
    <2>2. /\ call' = [call EXCEPT ![Api] = NoCall]
          /\ \/ handler' = Free
             \/ handler' = handler /\ handler.kind = "evict"
      BY <1>2, SMTT(45) DEF EvictUpdateReturns, UpdateActionFails, Finish, poolVars
    <2>3. QED
      BY <1>0, <2>1, <2>2, NoCallFacts, Zenon
  <1>3. ASSUME EvictEnds PROVE Goes
    BY <1>0, <1>3 DEF EvictEnds
  <1>4. Goes
    BY <1>1, <1>2, <1>3, SMTT(45)
  <1>5. /\ call'[Match] = call[Match]
        /\ handler'.kind = "free" => call'[Api].pc = "idle"
        /\ call'[Api].pc \in {"idle", "read"}
    BY <1>4, TaskFacts
  <1>6. TasksSound'
    <2>1. CASE call' = call
      BY <2>1, Zenon DEF SInv, TasksSound, schedVars
    <2>2. CASE call' # call
      <3>1. PICK x : /\ call' = [call EXCEPT ![Api] = x]
                     /\ x.pc = "idle" => x = NoCall
                     /\ x.update # "Executing"
        BY <1>4, <2>2, Zenon
      <3>2. \A c \in Clients : client'[c] = "new" => client[c] = "new" /\ c # Api
        BY TaskFacts DEF schedVars
      <3>3. QED
        BY <3>1, <3>2, TasksMove, TaskFacts, Zenon
    <2>3. QED
      BY <2>1, <2>2
  <1>7. NamesSound'
    BY <1>4, Zenon DEF SInv, NamesSound, dbVars, schedVars
  <1>8. HandlerSound'
    BY <1>4, <1>5, Zenon DEF HandlerSound
  <1>9. MatcherSound' /\ PoolSound'
    BY <1>4, <1>5, MatcherFrame, PoolFrame, SMTT(45) DEF LinksGrow, dbVars, schedVars
  <1>10. WakeupSound'
    BY <1>4, <1>5, WakeupFrame DEF dbVars, schedVars
  <1>11. TrackingSound'
    BY <1>4, <1>5, TrackingFrame, Zenon
       DEF ExecutesOn, HandsOver, LinksGrow, dbVars, schedVars, IInv, TypeOK, DbTypeOK
  <1>12. QED
    BY <1>6, <1>7, <1>8, <1>9, <1>10, <1>11, SMTT(45) DEF Sound

\* update_action hands the answer of a worker to the state manager.
LEMMA UpdateStartsKeeps ==
    ASSUME SInv, IInv', NEW r \in replies, replies' = replies \ {r},
           UpdateActionStarts(r.worker, r.op, r.update),
           UNCHANGED <<matcher, taskPermit, client, seen, jobs, silent, dispatched>>
    PROVE  Sound'
PROOF
  <1>1. /\ UNCHANGED <<dbVars, lapsed, pool, running, slots, paused, draining, link,
                       workerPermit>>
        /\ r.worker \in pool
        /\ handler' = [Free EXCEPT !.kind = "update", !.worker = r.worker, !.op = r.op,
                                   !.update = r.update]
        /\ StartUpdate(Api, r.op, r.worker, r.update)
    BY DEF UpdateActionStarts, StartUpdate
  <1>2. /\ handler'.kind = "update" /\ handler'.worker = r.worker /\ handler'.op = r.op
        /\ handler'.rest = {}
    BY <1>1 DEF Free
  <1>3. PICK x : /\ call' = [call EXCEPT ![Api] = x]
                 /\ x.pc = "read" /\ x.op = r.op /\ x.worker = r.worker
                 /\ x.update = r.update
    BY <1>1, StartedCall, SMTT(45)
  <1>4. call'[Api] = x /\ call'[Match] = call[Match] /\ r.update \in Answers
    BY <1>3, TaskFacts DEF SInv, NamesSound
  <1>5. TasksSound'
    BY <1>3, <1>4, TasksMove, TaskFacts, Zenon DEF Answers
  <1>6. NamesSound'
    BY <1>1, <1>2 DEF SInv, NamesSound, dbVars
  <1>7. HandlerSound'
    BY <1>1, <1>2, <1>3, <1>4 DEF HandlerSound
  <1>8. MatcherSound' /\ PoolSound'
    BY <1>1, <1>4, MatcherFrame, PoolFrame DEF LinksGrow, dbVars
  <1>9. WakeupSound'
    BY <1>1, <1>4, WakeupFrame DEF dbVars
  <1>10. TrackingSound'
    BY <1>1, <1>3, <1>4, TrackingFrame
       DEF ExecutesOn, HandsOver, LinksGrow, dbVars, IInv, TypeOK, DbTypeOK
  <1>11. QED
    BY <1>5, <1>6, <1>7, <1>8, <1>9, <1>10 DEF Sound

\* The action leaves the worker.  If it executes there again by now, it is being
\* handed over and will be entered again.
LEMMA UpdateCompletesKeeps ==
    ASSUME SInv, IInv', SchedulerTypeOK', UpdateActionCompletes, UNCHANGED schedVars
    PROVE  Sound'
PROOF
  <1> DEFINE w == handler.worker
             op == handler.op
  <1>1. /\ UNCHANGED <<dbVars, lapsed, pool, draining, link, told>>
        /\ handler.kind = "update" /\ call[Api].pc = "done" /\ call[Api].result = "Ok"
        /\ handler' = Free
        /\ call' = [call EXCEPT ![Api] = NoCall]
        /\ running' = [running EXCEPT ![w] = @ \ {op}]
        /\ slots' = [slots EXCEPT ![w] = @ + 1]
        /\ workerPermit'
        /\ paused' \subseteq paused \cup {w}
        /\ w \in paused' => running[w] \ {op} # {}
    BY DEF UpdateActionCompletes, CompleteAction, Finish
  <1>2. /\ Free.kind = "free" /\ Free.rest = {} /\ w \in pool /\ w \in Workers
        /\ pool \subseteq Workers /\ running \in [Workers -> SUBSET Operations]
        /\ slots \in [Workers -> Int]
    BY <1>1, Zenon DEF Free, SInv, HandlerSound, SchedulerTypeOK, PoolTypeOK
  <1>3. call'[Match] = call[Match] /\ call'[Api].pc = "idle"
    BY <1>1, TaskFacts, NoCallFacts
  <1>4. TasksSound'
    BY <1>1, TasksMove, TaskFacts, NoCallFacts, Zenon DEF schedVars
  <1>5. NamesSound'
    BY <1>1, <1>2, SMTT(45) DEF SInv, NamesSound, dbVars, schedVars
  <1>6. HandlerSound'
    BY <1>1, <1>2, <1>3 DEF HandlerSound
  <1>7. MatcherSound'
    BY <1>1, <1>3, MatcherFrame, SMTT(45) DEF LinksGrow, dbVars, schedVars
  <1>8. PoolSound'
    <2>1. \A v \in Workers : slots'[v] >= slots[v] /\ slots'[v] \in Int
      BY <1>1, <1>2
    <2>2. \A v \in Workers : slots'[v] >= 0
      BY <1>2, <2>1 DEF SInv, PoolSound, SlotsNeverNegative
    <2>3. \A v \in pool' \cap paused' : running'[v] # {}
      BY <1>1, <1>2, Zenon DEF SInv, PoolSound, PausedHasActions
    <2>4. matcher.pc \in {"assign", "notify"} /\ matcher.worker \in pool =>
             slots'[matcher.worker] >= 1
      BY <1>2, <2>1 DEF SInv, PoolSound
    <2>5. QED
      BY <1>1, <1>2, <2>2, <2>3, <2>4, SMTT(45)
         DEF SInv, PoolSound, SlotsNeverNegative, PausedHasActions, schedVars
  <1>9. TrackingSound'
    <2>1. ASSUME NEW o \in known', NEW v \in Workers, ExecutesOn(o, v)'
          PROVE  /\ link'[v] # "new"
                 /\ v \in pool' => o \in running'[v] \/ HandsOver(o, v)'
      <3>1. ExecutesOn(o, v) /\ o \in known
        BY <1>1, <2>1 DEF ExecutesOn, dbVars
      <3>2. link[v] # "new" /\ (v \in pool => o \in running[v] \/ HandsOver(o, v))
        BY <3>1 DEF SInv, TrackingSound
      <3>3. HandsOver(o, v) => HandsOver(o, v)'
        BY <1>3, SMTT(45) DEF HandsOver, schedVars
      <3>4. v = w /\ o = op => HandsOver(o, v)
        BY <1>1, <3>1 DEF SInv, TrackingSound
      <3>5. QED
        BY <1>1, <1>2, <3>2, <3>3, <3>4, SMTT(45)
    <2>2. handler'.kind # "update"
      BY <1>1, <1>2
    <2>3. QED
      BY <2>1, <2>2, SMTT(45) DEF TrackingSound
  <1>10. WakeupSound'
    BY <1>1, <1>3, WakeupByWorkers, SMTT(45) DEF dbVars, schedVars
  <1>11. QED
    BY <1>4, <1>5, <1>6, <1>7, <1>8, <1>9, <1>10, SMTT(45) DEF Sound

\* An eviction takes workers out of the pool; now is what they ran, with the
\* action that could not be sent.
LEMMA EvictKeeps ==
    ASSUME SInv, IInv', MutexFree, NEW W \in SUBSET pool,
           NEW now \in [Workers -> SUBSET used], Evict(W, now),
           \A w \in Workers \ W : now[w] = running[w],
           UNCHANGED <<dbVars, call, lapsed, link, client>>,
           \A w \in Workers : jobs'[w] \subseteq jobs[w], replies' \subseteq replies,
           \A v \in Workers, op \in Operations : HandsOver(op, v) =>
              v \in W \/ HandsOver(op, v)',
           matcher'.pc \in {"assign", "notify"} =>
              matcher.pc \in {"assign", "notify"} /\ matcher'.worker = matcher.worker,
           MatcherSound', WakeupSound'
    PROVE  Sound'
PROOF
  <1>0. /\ pool \subseteq Workers /\ running \in [Workers -> SUBSET Operations]
        /\ slots \in [Workers -> Int] /\ known \subseteq Operations
        /\ W \subseteq Workers
    BY Zenon DEF SInv, SchedulerTypeOK, PoolTypeOK, TypeOK, DbTypeOK
  <1>1. /\ pool' = pool \ W /\ paused' = paused \ W
        /\ running' = [w \in Workers |-> IF w \in W THEN {} ELSE now[w]]
        /\ slots' = [w \in Workers |-> IF w \in W THEN 0 ELSE slots[w]]
        /\ handler' = [Free EXCEPT !.kind = "evict",
                                   !.rest = {p \in W \X Operations : p[2] \in now[p[1]]}]
    BY SMTT(45) DEF Evict
  <1>2. handler'.kind = "evict" /\ \A p \in handler'.rest : p[2] \in used
    <2>1. /\ handler'.kind = "evict"
          /\ handler'.rest = {p \in W \X Operations : p[2] \in now[p[1]]}
      BY <1>1 DEF Free
    <2>2. QED
      BY <1>0, <2>1
  <1>3. NamesSound'
    <2>1. \A w \in Workers : running'[w] \subseteq used
      BY <1>1
    <2>2. QED
      BY <1>2, <2>1, Zenon DEF SInv, NamesSound, dbVars
  <1>4. TasksSound'
    BY Zenon DEF SInv, TasksSound
  <1>5. HandlerSound'
    BY <1>2 DEF SInv, HandlerSound, MutexFree
  <1>6. PoolSound'
    <2>1. \A w \in Workers \ W : slots'[w] = slots[w] /\ running'[w] = running[w]
      BY <1>1
    <2>2. \A w \in Workers : slots'[w] >= 0
      BY <1>0, <1>1 DEF SInv, PoolSound, SlotsNeverNegative
    <2>3. \A w \in pool' \cap paused' : running'[w] # {}
      BY <1>0, <1>1, <2>1 DEF SInv, PoolSound, PausedHasActions
    <2>4. paused' \subseteq pool' /\ \A w \in pool' : link'[w] # "new"
      BY <1>1 DEF SInv, PoolSound
    <2>5. matcher'.pc \in {"assign", "notify"} /\ matcher'.worker \in pool' =>
             slots'[matcher'.worker] >= 1
      BY <1>0, <1>1, <2>1 DEF SInv, PoolSound
    <2>6. QED
      BY <2>2, <2>3, <2>4, <2>5, Zenon DEF PoolSound, SlotsNeverNegative, PausedHasActions
  <1>7. TrackingSound'
    <2>1. ASSUME NEW op \in known', NEW v \in Workers, ExecutesOn(op, v)'
          PROVE  /\ link'[v] # "new"
                 /\ v \in pool' => op \in running'[v] \/ HandsOver(op, v)'
      <3>1. ExecutesOn(op, v) /\ op \in known /\ op \in Operations
        BY <1>0, <2>1, Zenon DEF ExecutesOn, dbVars
      <3>2. link[v] # "new" /\ (v \in pool => op \in running[v] \/ HandsOver(op, v))
        BY <3>1 DEF SInv, TrackingSound
      <3>3. v \in pool' => v \in pool /\ v \notin W /\ running'[v] = running[v]
        BY <1>1, SMTT(45)
      <3>4. QED
        BY <3>1, <3>2, <3>3, Zenon
    <2>2. QED
      BY <1>2, <2>1, Zenon DEF TrackingSound
  <1>8. QED
    BY <1>3, <1>4, <1>5, <1>6, <1>7 DEF Sound

\* A worker goes away, is timed out, or answers for what it should not run.
LEMMA RemovalKeeps ==
    ASSUME SInv, IInv', MutexFree, NEW W \in SUBSET pool, Evict(W, running),
           UNCHANGED <<link, dbVars, call, lapsed>>, replies' \subseteq replies,
           UNCHANGED <<matcher, taskPermit, client, jobs>>
    PROVE  Sound'
PROOF
  <1>1. running \in [Workers -> SUBSET used]
    BY DEF SInv, NamesSound, SchedulerTypeOK, PoolTypeOK
  <1>2. MatcherSound'
    BY MatcherFrame DEF LinksGrow, dbVars
  <1>3. WakeupSound'
    BY WakeupByWorkers DEF Evict, dbVars
  <1>4. \A v \in Workers, op \in Operations : HandsOver(op, v) => HandsOver(op, v)'
    BY DEF HandsOver
  <1>5. QED
    BY <1>1, <1>2, <1>3, <1>4, EvictKeeps, SMTT(45)

\* A new worker runs nothing yet, and nobody has found it before.
LEMMA AddWorkerKeeps ==
    ASSUME SInv, IInv', NEW w \in Workers, AddWorker(w), UNCHANGED schedVars
    PROVE  Sound'
PROOF
  <1>0. /\ pool \subseteq Workers /\ slots \in [Workers -> Int]
        /\ link \in [Workers -> {"new", "up", "down"}]
        /\ w \notin pool /\ w \notin paused /\ link[w] = "new"
    BY DEF SInv, SchedulerTypeOK, PoolTypeOK, PoolSound, AddWorker
  <1>1. /\ UNCHANGED <<running, paused, draining, handler, dbVars, call, lapsed>>
        /\ workerPermit'
        /\ \/ pool' = pool \cup {w} /\ slots' = [slots EXCEPT ![w] = Capacity]
           \/ UNCHANGED <<pool, slots>>
        /\ link'[w] # "new" /\ \A v \in Workers \ {w} : link'[v] = link[v]
    BY <1>0 DEF AddWorker
  <1>2. NamesSound'
    BY <1>1, NamesFrame, SMTT(45) DEF SInv, dbVars, schedVars
  <1>3. TasksSound'
    BY <1>1 DEF SInv, TasksSound, schedVars
  <1>4. MatcherSound' /\ HandlerSound'
    BY <1>0, <1>1, MatcherFrame, HandlerFrame, SMTT(45) DEF LinksGrow, dbVars, schedVars
  <1>5. PoolSound'
    <2>0. \A v \in Workers : slots[v] >= 0
      BY DEF SInv, PoolSound, SlotsNeverNegative
    <2>1. slots'[w] >= 0 /\ \A v \in Workers \ {w} : slots'[v] = slots[v]
      <3>1. CASE slots' = [slots EXCEPT ![w] = Capacity]
        <4>1. slots'[w] = Capacity /\ \A v \in Workers \ {w} : slots'[v] = slots[v]
          BY <1>0, <3>1
        <4>2. QED
          BY <4>1, PoolAssumption
      <3>2. CASE UNCHANGED slots
        BY <2>0, <3>2
      <3>3. QED
        BY <1>1, <3>1, <3>2
    <2>2. \A v \in Workers : slots'[v] >= 0
      BY <2>0, <2>1
    <2>3. matcher.pc \in {"assign", "notify"} =>
             matcher.worker \in Workers /\ matcher.worker # w
      BY <1>0, SMTT(45) DEF SInv, MatcherSound
    <2>4. QED
      BY <1>0, <1>1, <2>1, <2>2, <2>3, SMTT(45)
         DEF SInv, PoolSound, SlotsNeverNegative, PausedHasActions, schedVars
  <1>6. TrackingSound'
    <2>1. ASSUME NEW op \in known', NEW v \in Workers, ExecutesOn(op, v)'
          PROVE  /\ link'[v] # "new"
                 /\ v \in pool' => op \in running'[v] \/ HandsOver(op, v)'
      <3>1. ExecutesOn(op, v) /\ op \in known
        BY <1>1, <2>1, SMTT(45) DEF ExecutesOn, dbVars
      <3>2. link[v] # "new" /\ (v \in pool => op \in running[v] \/ HandsOver(op, v))
        BY <3>1, SMTT(45) DEF SInv, TrackingSound
      <3>3. HandsOver(op, v) => HandsOver(op, v)'
        BY <1>1 DEF HandsOver, schedVars
      <3>4. QED
        BY <1>0, <1>1, <3>2, <3>3, SMTT(45)
    <2>2. handler'.kind # "update"
      BY <1>1 DEF AddWorker, MutexFree
    <2>3. QED
      BY <2>1, <2>2, SMTT(45) DEF TrackingSound
  <1>7. WakeupSound'
    BY <1>1, WakeupByWorkers DEF dbVars, schedVars
  <1>8. QED
    BY <1>2, <1>3, <1>4, <1>5, <1>6, <1>7, SMTT(45) DEF Sound

LEMMA DrainKeeps ==
    ASSUME SInv, IInv', NEW w, NEW d, SetDrainWorker(w, d), UNCHANGED schedVars
    PROVE  Sound'
PROOF
  <1>1. /\ UNCHANGED <<pool, running, slots, paused, handler, link, dbVars, call, lapsed>>
        /\ workerPermit'
    BY DEF SetDrainWorker
  <1>2. NamesSound' /\ TasksSound'
    BY <1>1, NamesFrame, Zenon DEF SInv, TasksSound, dbVars, schedVars
  <1>3. MatcherSound' /\ HandlerSound' /\ PoolSound'
    BY <1>1, MatcherFrame, HandlerFrame, PoolFrame DEF LinksGrow, dbVars, schedVars
  <1>4. TrackingSound'
    BY <1>1, TrackingFrame, Zenon
       DEF ExecutesOn, HandsOver, LinksGrow, dbVars, schedVars, IInv, TypeOK, DbTypeOK
  <1>5. WakeupSound'
    BY <1>1, WakeupByWorkers DEF dbVars, schedVars
  <1>6. QED
    BY <1>2, <1>3, <1>4, <1>5 DEF Sound

-----------------------------------------------------------------------------
(* The matching engine.                                                    *)

\* A step of do_try_match that leaves the pool alone and makes no call: what
\* remains is where the engine is, and what it has before it.
LEMMA MatchFrame ==
    ASSUME SInv, IInv', UNCHANGED <<dbVars, lapsed, pool, running, slots, paused,
                                    draining, handler, link, client, jobs, replies>>,
           \/ call' = call
           \/ \E x : /\ call' = [call EXCEPT ![Match] = x]
                     /\ x.pc = "idle" => x = NoCall,
           \A op \in Operations, w \in Workers : HandsOver(op, w) => HandsOver(op, w)'
    PROVE  NamesSound' /\ TasksSound' /\ HandlerSound' /\ TrackingSound'
PROOF
  <1>1. call'[Api] = call[Api]
    BY TaskFacts
  <1>2. TasksSound'
    <2>1. CASE call' = call
      BY <2>1, Zenon DEF SInv, TasksSound
    <2>2. CASE call' # call
      <3>1. PICK x : /\ call' = [call EXCEPT ![Match] = x]
                     /\ x.pc = "idle" => x = NoCall
        BY <2>2
      <3>2. QED
        BY <3>1, TasksMove, TaskFacts, Zenon
    <2>3. QED
      BY <2>1, <2>2
  <1>3. NamesSound'
    BY NamesFrame DEF SInv, dbVars
  <1>4. HandlerSound'
    BY <1>1, HandlerFrame
  <1>5. TrackingSound'
    BY <1>1, TrackingFrame, Zenon DEF ExecutesOn, LinksGrow, dbVars, IInv, TypeOK, DbTypeOK
  <1>6. QED
    BY <1>2, <1>3, <1>4, <1>5

\* The engine starts above everything.
LEMMA MatchWakesKeeps ==
    ASSUME SInv, IInv', MatchWakes
    PROVE  Sound'
PROOF
  <1>1. /\ UNCHANGED <<vars, pool, running, slots, paused, draining, handler, link,
                       client, jobs, replies>>
        /\ matcher.pc = "idle"
        /\ matcher' = [IdleMatcher EXCEPT !.pc = "scan", !.floor = Max(Operations) + 1]
    BY DEF MatchWakes
  <1>2. matcher'.pc = "scan" /\ matcher'.todo = {} /\ matcher'.floor = Max(Operations) + 1
    BY <1>1 DEF IdleMatcher
  <1>3. NamesSound' /\ TasksSound' /\ HandlerSound' /\ TrackingSound'
    BY <1>1, MatchFrame DEF HandsOver, vars
  <1>4. MatcherSound'
    BY <1>1, <1>2 DEF SInv, MatcherSound, vars
  <1>5. PoolSound'
    BY <1>1, <1>2, PoolFrame DEF LinksGrow
  <1>6. WakeupSound'
    <2>1. ASSUME NEW op \in sorted["Queued"] PROVE Ahead(op)'
      <3>1. op \in Operations /\ op \in Nat
        BY SchedulerAssumption DEF SInv, IInv, TypeOK, DbTypeOK, Stages
      <3>2. op <= Max(Operations) /\ Max(Operations) \in Nat
        BY <3>1, MaxIsHighest, SchedulerAssumption, Zenon
      <3>3. op < matcher'.floor
        BY <1>2, <3>1, <3>2
      <3>4. QED
        BY <1>2, <3>3 DEF Ahead
    <2>2. QED
      BY <1>1, <1>2, <2>1 DEF WakeupSound, vars, dbVars
  <1>7. QED
    BY <1>3, <1>4, <1>5, <1>6 DEF Sound

\* The next chunk is everything queued below the last one; when there is
\* nothing, nothing is ahead any more.
LEMMA MatchReadsChunkKeeps ==
    ASSUME SInv, IInv', MatchReadsChunk
    PROVE  Sound'
PROOF
  <1> DEFINE chunk == {op \in sorted["Queued"] : op < matcher.floor}
  <1>1. /\ UNCHANGED <<vars, poolVars, taskPermit, client, jobs, replies>>
        /\ matcher.pc = "scan" /\ matcher.todo = {}
        /\ matcher' = IF chunk = {} THEN IdleMatcher
                      ELSE [matcher EXCEPT !.todo = chunk, !.floor = Min(chunk)]
    BY DEF MatchReadsChunk
  <1>2. /\ chunk = {} => matcher'.pc = "idle" /\ matcher'.todo = {}
        /\ chunk # {} => matcher'.pc = "scan" /\ matcher'.todo = chunk
    BY <1>1 DEF IdleMatcher, SInv, SchedulerTypeOK
  <1>3. NamesSound' /\ TasksSound' /\ HandlerSound' /\ TrackingSound'
    BY <1>1, MatchFrame DEF HandsOver, vars, poolVars
  <1>4. MatcherSound'
    <2>1. chunk \subseteq used
      BY DEF SInv, IInv, DbInv, DbTypeOK, SortedInSync, Stages
    <2>2. QED
      BY <1>1, <1>2, <2>1 DEF SInv, MatcherSound, vars, dbVars
  <1>5. PoolSound'
    BY <1>1, <1>2, PoolFrame DEF LinksGrow, poolVars
  <1>6. WakeupSound'
    <2>1. ASSUME NEW op \in sorted["Queued"], Ahead(op) PROVE Ahead(op)'
      <3>1. op \in chunk
        BY <1>1, <2>1 DEF Ahead
      <3>2. QED
        BY <1>2, <3>1 DEF Ahead
    <2>2. QED
      BY <1>1, <1>2, <2>1 DEF SInv, WakeupSound, CanRun, vars, dbVars, poolVars
  <1>7. QED
    BY <1>3, <1>4, <1>5, <1>6 DEF Sound

\* What is skipped is not queued any more, or lapsed.
LEMMA MatchTakesNextKeeps ==
    ASSUME SInv, IInv', MatchTakesNext
    PROVE  Sound'
PROOF
  <1> DEFINE top == Max(matcher.todo)
  <1>0. /\ matcher \in Matcher /\ top \in matcher.todo /\ top \in used
        /\ matcher.pc = "scan" /\ call[Match].pc = "idle"
    BY MaxIsHighest DEF SInv, SchedulerTypeOK, Matcher, MatchTakesNext, MatcherSound
  <1> HIDE DEF top
  <1>1. /\ UNCHANGED <<dbVars, lapsed, poolVars, taskPermit, client, jobs, replies>>
        /\ matcher'.todo = matcher.todo \ {top} /\ matcher'.floor = matcher.floor
        /\ \/ /\ matcher'.pc = "filter" /\ top \in lapsed
              /\ call' = [call EXCEPT ![Match] = [NoCall EXCEPT !.pc = "filter",
                                                     !.op = top, !.snap = awaited[top]]]
           \/ /\ matcher'.pc = "find" /\ matcher'.op = top /\ call' = call
           \/ /\ matcher'.pc = "scan" /\ call' = call
              /\ top \in lapsed \/ awaited[top].stage # "Queued"
    <2> DEFINE rest == [matcher EXCEPT !.todo = @ \ {top}]
    <2>1. /\ UNCHANGED <<poolVars, taskPermit, client, jobs, replies>>
          /\ IF top \in lapsed /\ ~IsFinished(awaited[top])
             THEN /\ FilterReadsLapsed(Match, top)
                  /\ matcher' = [rest EXCEPT !.pc = "filter"]
             ELSE /\ matcher' = IF top \notin lapsed /\ awaited[top].stage = "Queued"
                                THEN [rest EXCEPT !.pc = "find", !.op = top]
                                ELSE rest
                  /\ UNCHANGED vars
      BY DEF MatchTakesNext, top
    <2>2. CASE top \in lapsed /\ ~IsFinished(awaited[top])
      BY <1>0, <2>1, <2>2, Zenon DEF FilterReadsLapsed, Matcher
    <2>3. CASE ~(top \in lapsed /\ ~IsFinished(awaited[top]))
      <3>1. /\ UNCHANGED vars
            /\ matcher' = IF top \notin lapsed /\ awaited[top].stage = "Queued"
                          THEN [rest EXCEPT !.pc = "find", !.op = top]
                          ELSE rest
        BY <2>1, <2>3
      <3>2. UNCHANGED <<dbVars, lapsed, poolVars, taskPermit, client, jobs, replies>>
        BY <2>1, <3>1 DEF vars
      <3>3. CASE top \notin lapsed /\ awaited[top].stage = "Queued"
        BY <1>0, <3>1, <3>2, <3>3 DEF Matcher, vars
      <3>4. CASE ~(top \notin lapsed /\ awaited[top].stage = "Queued")
        BY <1>0, <3>1, <3>2, <3>4 DEF Matcher, vars
      <3>5. QED
        BY <3>3, <3>4
    <2>4. QED
      BY <2>2, <2>3
  <1>2. \/ call' = call /\ matcher'.pc # "filter"
        \/ \E x : /\ call' = [call EXCEPT ![Match] = x]
                  /\ x.pc = "filter" /\ matcher'.pc = "filter"
    <2>1. [NoCall EXCEPT !.pc = "filter", !.op = top, !.snap = awaited[top]].pc = "filter"
      BY DEF NoCall
    <2>2. QED
      BY <1>1, <2>1, Zenon
  <1>3. /\ matcher'.pc = "filter" => call'[Match].pc = "filter"
        /\ matcher'.pc # "filter" => call' = call
    BY <1>1, <1>2, TaskFacts
  <1>4. NamesSound' /\ TasksSound' /\ HandlerSound' /\ TrackingSound'
    BY <1>0, <1>1, <1>2, MatchFrame DEF HandsOver, poolVars
  <1>5. MatcherSound'
    BY <1>0, <1>1, <1>3 DEF SInv, MatcherSound, dbVars
  <1>6. PoolSound'
    BY <1>1, PoolFrame DEF LinksGrow, poolVars
  <1>7. WakeupSound'
    <2>1. ASSUME NEW op \in sorted["Queued"] \ lapsed, Ahead(op) PROVE Ahead(op)'
      <3>1. op \in known /\ awaited[op].stage = "Queued"
        BY DEF SInv, IInv, DbInv, SortedInSync, Stages
      <3>2. op \in matcher.todo \/ op < matcher.floor
        BY <1>0, <2>1 DEF Ahead
      <3>3. op = top => matcher'.pc = "find" /\ matcher'.op = op
        BY <1>1, <3>1
      <3>4. QED
        BY <1>1, <3>2, <3>3 DEF Ahead
    <2>2. QED
      BY <1>1, <2>1 DEF SInv, WakeupSound, CanRun, dbVars, poolVars
  <1>8. QED
    BY <1>4, <1>5, <1>6, <1>7 DEF Sound

\* What is left of the pass is left; NextOperation goes on with it.
LEMMA NextOperationFacts ==
    ASSUME SInv
    PROVE  /\ NextOperation.pc = "scan" /\ NextOperation.todo = matcher.todo
           /\ NextOperation.floor = matcher.floor
PROOF BY DEF NextOperation, SInv, SchedulerTypeOK

\* The engine goes on and has given up nothing that is queued and could run.
LEMMA MatchSkips ==
    ASSUME SInv, IInv', matcher.pc \in {"filter", "find", "assign"},
           matcher' = NextOperation,
           UNCHANGED <<dbVars, lapsed, poolVars, taskPermit, client, jobs, replies>>,
           \/ call' = call
           \/ call' = [call EXCEPT ![Match] = NoCall],
           call'[Match].pc = "idle",
           \A op \in Operations, w \in Workers : ~HandsOver(op, w),
           \/ \A w \in pool : ~CanRun(w)
           \/ matcher.pc = "filter"
           \/ matcher.pc = "assign" /\ call[Match].pc = "done"
    PROVE  Sound'
PROOF
  <1>1. /\ matcher'.pc = "scan" /\ matcher'.todo = matcher.todo
        /\ matcher'.floor = matcher.floor
    BY NextOperationFacts, SMTT(45)
  <1>2. NamesSound' /\ TasksSound' /\ HandlerSound' /\ TrackingSound'
    BY MatchFrame, NoCallFacts DEF poolVars
  <1>3. MatcherSound'
    BY <1>1, Zenon DEF SInv, MatcherSound, dbVars
  <1>4. PoolSound'
    BY <1>1, PoolFrame, Zenon DEF LinksGrow, poolVars
  <1>5. WakeupSound'
    <2>1. ASSUME NEW op, NEW w \in pool, CanRun(w), Ahead(op) PROVE Ahead(op)'
      <3>1. op \in matcher.todo \/ op < matcher.floor
        BY <2>1, Zenon DEF Ahead
      <3>2. QED
        BY <1>1, <3>1, Zenon DEF Ahead
    <2>2. QED
      BY <1>1, <2>1, Zenon DEF SInv, WakeupSound, CanRun, dbVars, poolVars
  <1>6. QED
    BY <1>2, <1>3, <1>4, <1>5, SMTT(45) DEF Sound

LEMMA MatchSkipsKeep ==
    ASSUME SInv, IInv',
           \/ MatchFilterReturns \/ MatchFindsNone
           \/ MatchAssigned /\ call[Match].result # "Ok"
    PROVE  Sound'
PROOF
  <1>1. CASE MatchFilterReturns
    <2>1. /\ matcher.pc = "filter" /\ matcher' = NextOperation
          /\ call' = [call EXCEPT ![Match] = NoCall]
          /\ UNCHANGED <<dbVars, lapsed, poolVars, taskPermit, client, jobs, replies>>
      BY <1>1 DEF MatchFilterReturns, Finish
    <2>2. QED
      BY <2>1, MatchSkips, TaskFacts, NoCallFacts DEF HandsOver
  <1>2. CASE MatchFindsNone
    <2>1. /\ matcher.pc = "find" /\ matcher' = NextOperation /\ call' = call
          /\ UNCHANGED <<dbVars, lapsed, poolVars, taskPermit, client, jobs, replies>>
          /\ \A w \in pool : ~CanRun(w)
      BY <1>2 DEF MatchFindsNone, vars
    <2>2. call[Match].pc = "idle"
      BY <2>1 DEF SInv, MatcherSound
    <2>3. QED
      BY <2>1, <2>2, MatchSkips, SMTT(45) DEF HandsOver
  <1>3. CASE MatchAssigned /\ call[Match].result # "Ok"
    <2>1. /\ matcher.pc = "assign" /\ matcher' = NextOperation
          /\ call[Match].pc = "done" /\ call[Match].result # "Ok"
          /\ call' = [call EXCEPT ![Match] = NoCall]
          /\ UNCHANGED <<dbVars, lapsed, poolVars, taskPermit, client, jobs, replies>>
      BY <1>3 DEF MatchAssigned, Finish
    <2>2. QED
      BY <2>1, MatchSkips, TaskFacts, NoCallFacts DEF HandsOver
  <1>4. QED
    BY <1>1, <1>2, <1>3, SMTT(45)

\* A worker is found: it is in the pool and has room.
LEMMA MatchFindsWorkerKeeps ==
    ASSUME SInv, IInv', MatchFindsWorker
    PROVE  Sound'
PROOF
  <1>1. PICK w \in pool : /\ CanRun(w)
                          /\ matcher' = [matcher EXCEPT !.pc = "assign", !.worker = w]
                          /\ StartUpdate(Match, matcher.op, w, "Executing")
    BY Zenon DEF MatchFindsWorker
  <1>2. /\ UNCHANGED <<dbVars, lapsed, poolVars, taskPermit, client, jobs, replies>>
        /\ matcher.pc = "find" /\ w \in Workers /\ link[w] # "new" /\ slots[w] >= 1
    BY <1>1 DEF MatchFindsWorker, StartUpdate, CanRun, SInv, SchedulerTypeOK, PoolTypeOK,
                PoolSound
  <1>3. /\ matcher'.pc = "assign" /\ matcher'.worker = w /\ matcher'.op = matcher.op
        /\ matcher'.todo = matcher.todo /\ matcher'.floor = matcher.floor
    BY <1>1 DEF SInv, SchedulerTypeOK
  <1>4. PICK x : /\ call' = [call EXCEPT ![Match] = x]
                 /\ x.pc = "read" /\ x.op = matcher.op /\ x.worker = w
                 /\ x.update = "Executing"
    BY <1>1, StartedCall
  <1>5. call'[Match] = x
    BY <1>4, TaskFacts
  <1>6. NamesSound' /\ TasksSound' /\ HandlerSound' /\ TrackingSound'
    BY <1>2, <1>4, MatchFrame, Zenon DEF HandsOver, poolVars
  <1>7. MatcherSound'
    BY <1>2, <1>3, <1>4, <1>5, Zenon DEF SInv, MatcherSound, dbVars, poolVars
  <1>8. PoolSound'
    BY <1>2, <1>3 DEF SInv, PoolSound, SlotsNeverNegative, PausedHasActions, poolVars
  <1>9. WakeupSound'
    <2>1. ASSUME NEW op, Ahead(op) PROVE Ahead(op)'
      BY <1>2, <1>3, <1>4, <1>5, <2>1 DEF Ahead
    <2>2. QED
      BY <1>2, <1>3, <1>4, <1>5, <2>1, Zenon DEF SInv, WakeupSound, CanRun, dbVars, poolVars
  <1>10. QED
    BY <1>6, <1>7, <1>8, <1>9 DEF Sound

\* assign_operation succeeded: the worker will be notified.
LEMMA MatchAssignedKeeps ==
    ASSUME SInv, IInv', MatchAssigned, call[Match].result = "Ok"
    PROVE  Sound'
PROOF
  <1>1. /\ UNCHANGED <<dbVars, lapsed, poolVars, taskPermit, client, jobs, replies>>
        /\ matcher.pc = "assign" /\ call[Match].pc = "done"
        /\ matcher' = [matcher EXCEPT !.pc = "notify"]
        /\ call' = [call EXCEPT ![Match] = NoCall]
    BY DEF MatchAssigned, Finish
  <1>2. /\ matcher'.pc = "notify" /\ matcher'.op = matcher.op
        /\ matcher'.worker = matcher.worker
        /\ matcher'.todo = matcher.todo /\ matcher'.floor = matcher.floor
    BY <1>1 DEF SInv, SchedulerTypeOK
  <1>3. call'[Match].pc = "idle"
    BY <1>1, TaskFacts, NoCallFacts
  <1>4. NamesSound' /\ TasksSound' /\ HandlerSound' /\ TrackingSound'
    BY <1>1, <1>2, MatchFrame, NoCallFacts, Zenon DEF HandsOver, poolVars
  <1>5. MatcherSound'
    BY <1>1, <1>2, <1>3 DEF SInv, MatcherSound, dbVars, poolVars
  <1>6. PoolSound'
    BY <1>1, <1>2, PoolFrame DEF LinksGrow, poolVars
  <1>7. WakeupSound'
    <2>1. ASSUME NEW op, Ahead(op) PROVE Ahead(op)'
      BY <1>1, <1>2, <2>1 DEF Ahead
    <2>2. QED
      BY <1>1, <1>2, <2>1 DEF SInv, WakeupSound, CanRun, dbVars, poolVars
  <1>8. QED
    BY <1>4, <1>5, <1>6, <1>7, Zenon DEF Sound

\* The worker left the pool in between: the action stays assigned to it, and
\* nothing of the pool is left to answer for.
LEMMA MatchWorkerGoneKeeps ==
    ASSUME SInv, IInv', MatchWorkerGone
    PROVE  Sound'
PROOF
  <1>1. /\ UNCHANGED <<vars, poolVars, taskPermit, client, jobs, replies>>
        /\ matcher.pc = "notify" /\ matcher.worker \notin pool
        /\ matcher' = NextOperation /\ handler.kind = "free"
    BY DEF MatchWorkerGone, MutexFree
  <1>2. /\ matcher'.pc = "scan" /\ matcher'.todo = matcher.todo
        /\ matcher'.floor = matcher.floor
    BY <1>1, NextOperationFacts
  <1>3. NamesSound' /\ TasksSound' /\ HandlerSound'
    BY <1>1, NamesFrame, HandlerFrame, Zenon DEF SInv, TasksSound, vars, dbVars, poolVars
  <1>4. MatcherSound'
    BY <1>1, <1>2, Zenon DEF SInv, MatcherSound, vars, dbVars
  <1>5. PoolSound'
    BY <1>1, <1>2, PoolFrame, SMTT(45) DEF LinksGrow, poolVars
  <1>6. TrackingSound'
    <2>1. ASSUME NEW op \in known', NEW v \in Workers, ExecutesOn(op, v)'
          PROVE  link'[v] # "new" /\ (v \in pool' => op \in running'[v])
      <3>1. ExecutesOn(op, v) /\ op \in known
        BY <1>1, <2>1, SMTT(45) DEF ExecutesOn, vars, dbVars
      <3>2. link[v] # "new" /\ (v \in pool => op \in running[v] \/ HandsOver(op, v))
        BY <3>1 DEF SInv, TrackingSound
      <3>3. QED
        BY <1>1, <3>2 DEF HandsOver, poolVars
    <2>2. QED
      BY <1>1, <2>1, SMTT(45) DEF TrackingSound, poolVars
  <1>7. WakeupSound'
    <2>1. ASSUME NEW op, Ahead(op) PROVE Ahead(op)'
      BY <1>1, <1>2, <2>1, Zenon DEF Ahead
    <2>2. QED
      BY <1>1, <1>2, <2>1, Zenon DEF SInv, WakeupSound, CanRun, vars, dbVars, poolVars
  <1>8. QED
    BY <1>3, <1>4, <1>5, <1>6, <1>7 DEF Sound

\* The worker takes the action, which uses the room that find_worker saw; or
\* the message cannot be sent, and the worker is evicted with the action.
LEMMA MatchNotifiesKeeps ==
    ASSUME SInv, IInv', MatchNotifies
    PROVE  Sound'
PROOF
  <1> DEFINE w == matcher.worker
             op == matcher.op
  <1>0. /\ pool \subseteq Workers /\ running \in [Workers -> SUBSET Operations]
        /\ slots \in [Workers -> Int] /\ jobs \in [Workers -> SUBSET Operations]
        /\ known \subseteq Operations /\ used \subseteq Operations
    BY DEF SInv, SchedulerTypeOK, PoolTypeOK, TypeOK, DbTypeOK
  <1>1. /\ UNCHANGED <<dbVars, lapsed, call, link, taskPermit, client>>
        /\ matcher.pc = "notify" /\ w \in pool /\ w \in Workers /\ MutexFree
        /\ matcher' = NextOperation /\ op \in used
    BY <1>0, Zenon DEF MatchNotifies, NotifyRunAction, SInv, MatcherSound
  <1>2. /\ matcher'.pc = "scan" /\ matcher'.todo = matcher.todo
        /\ matcher'.floor = matcher.floor
    BY <1>1, NextOperationFacts
  <1>3. MatcherSound'
    BY <1>1, <1>2, Zenon DEF SInv, MatcherSound, dbVars
  <1>4. ASSUME NEW o, Ahead(o) PROVE Ahead(o)'
    BY <1>1, <1>2, <1>4 DEF Ahead
  <1>5. CASE link[w] = "up"
    <2>1. /\ running' = [running EXCEPT ![w] = @ \cup {op}]
          /\ slots' = [slots EXCEPT ![w] = @ - 1]
          /\ UNCHANGED <<pool, paused, draining, handler, workerPermit>>
          /\ jobs' = [jobs EXCEPT ![w] = @ \cup {op}]
          /\ \A r \in replies' : r \in replies \/ (r.op = op /\ r.update = "Error")
      <3>1. /\ RunAction(w, op) /\ Delivered(w, op)
            /\ UNCHANGED <<pool, paused, draining, handler, workerPermit>>
        BY <1>5, Zenon DEF MatchNotifies, NotifyRunAction
      <3>2. QED
        BY <3>1 DEF RunAction, Delivered
    <2>2. NamesSound'
      BY <1>0, <1>1, <2>1, Zenon DEF SInv, NamesSound, Answers, dbVars
    <2>3. TasksSound' /\ HandlerSound'
      BY <1>1, <2>1, HandlerFrame, Zenon DEF SInv, TasksSound
    <2>4. PoolSound'
      <3>1. slots[w] >= 1
        BY <1>1, Zenon DEF SInv, PoolSound
      <3>0. \A v \in Workers : slots[v] >= 0
        BY DEF SInv, PoolSound, SlotsNeverNegative
      <3>a. slots'[w] = slots[w] - 1 /\ \A v \in Workers \ {w} : slots'[v] = slots[v]
        <4>1. slots' = [slots EXCEPT ![w] = slots[w] - 1]
          BY <2>1, Zenon
        <4>2. w \in Workers /\ DOMAIN slots = Workers
          BY <1>0, <1>1
        <4>3. QED
          BY <4>1, <4>2, Zenon
      <3>b. slots[w] \in Int
        BY <1>0, <1>1
      <3>2. \A v \in Workers : slots'[v] >= 0
        <4> HIDE DEF w, op
        <4>1. slots[w] - 1 >= 0
          BY <3>1, <3>b
        <4>2. QED
          BY <3>0, <3>a, <4>1, Zenon
      <3>3. ASSUME NEW v \in pool' \cap paused' PROVE running'[v] # {}
        <4>1. v \in pool \cap paused /\ v \in Workers
          BY <1>0, <2>1, Zenon
        <4>2. running[v] # {}
          BY <4>1, Zenon DEF SInv, PoolSound, PausedHasActions
        <4>3. running[v] \subseteq running'[v]
          BY <1>0, <2>1, <4>1, Zenon
        <4>4. QED
          BY <4>2, <4>3, Zenon
      <3>4. QED
        BY <1>1, <1>2, <2>1, <3>2, <3>3, Zenon
           DEF SInv, PoolSound, SlotsNeverNegative, PausedHasActions
    <2>5. TrackingSound'
      <3>1. ASSUME NEW o \in known', NEW v \in Workers, ExecutesOn(o, v)'
            PROVE  link'[v] # "new" /\ (v \in pool' => o \in running'[v])
        <4>1. ExecutesOn(o, v) /\ o \in known
          BY <1>1, <3>1, Zenon DEF ExecutesOn, dbVars
        <4>2. link[v] # "new" /\ (v \in pool => o \in running[v] \/ HandsOver(o, v))
          BY <4>1 DEF SInv, TrackingSound
        <4>3. QED
          BY <1>0, <1>1, <2>1, <4>2 DEF HandsOver
      <3>2. QED
        BY <1>1, <2>1, <3>1, SMTT(45) DEF TrackingSound, MutexFree
    <2>6. WakeupSound'
      <3>1. ASSUME NEW v \in pool, CanRun(v)' PROVE CanRun(v)
        <4>1. v \notin paused /\ v \notin draining /\ slots'[v] >= 1
          BY <2>1, <3>1, Zenon DEF CanRun
        <4>2. v \in Workers /\ slots[v] \in Int
          BY <1>0, SMTT(45)
        <4>3. slots'[v] = slots[v] \/ slots'[v] = slots[v] - 1
          BY <1>0, <2>1, <4>2
        <4>4. slots[v] >= 1
          BY <4>1, <4>2, <4>3
        <4>5. QED
          BY <4>1, <4>4 DEF CanRun
      <3>2. QED
        BY <1>1, <1>2, <1>4, <2>1, <3>1, Zenon DEF SInv, WakeupSound, dbVars
    <2>7. QED
      BY <1>3, <2>2, <2>3, <2>4, <2>5, <2>6, SMTT(45) DEF Sound
  <1>6. CASE link[w] # "up"
    <2> DEFINE now == [running EXCEPT ![w] = @ \cup {op}]
    <2>1. Evict({w}, now) /\ UNCHANGED <<jobs, replies>>
      BY <1>6, Zenon DEF MatchNotifies, NotifyRunAction
    <2>2. now \in [Workers -> SUBSET used] /\ \A v \in Workers \ {w} : now[v] = running[v]
      BY <1>0, <1>1, Zenon DEF SInv, NamesSound
    <2> HIDE DEF now
    <2>3. WakeupSound'
      BY <1>2, <2>1 DEF Evict, WakeupSound
    <2>4. \A v \in Workers, o \in Operations : HandsOver(o, v) => v \in {w}
      BY DEF HandsOver
    <2>5. {w} \in SUBSET pool
      BY <1>1
    <2>6. QED
      BY <1>1, <1>2, <1>3, <2>1, <2>2, <2>3, <2>4, <2>5, EvictKeeps, Zenon
  <1>7. QED
    BY <1>5, <1>6, Zenon

-----------------------------------------------------------------------------
(* Steps inside calls of the state manager.                                *)

\* An answer of a worker ends the execution, a keep-alive changes nothing.
LEMMA UpdatedStage ==
    ASSUME NEW s \in AwaitedAction, NEW w, NEW u \in Updates
    PROVE  /\ u \in Answers => Updated(s, w, u).stage # "Executing"
           /\ u = "KeepAlive" => Updated(s, w, u) = s
           /\ u = "Executing" => /\ Updated(s, w, u).stage = "Executing"
                                 /\ Updated(s, w, u).worker = w
PROOF
  <1>1. CASE u = "KeepAlive"
    BY <1>1 DEF Updated, Answers
  <1>2. CASE u = "Executing"
    <2>1. Updated(s, w, u) = [s EXCEPT !.stage = "Executing", !.worker = w]
      BY <1>2 DEF Updated
    <2>2. QED
      BY <1>2, <2>1, Zenon DEF AwaitedAction, Answers
  <1>3. CASE u = "Completed"
    <2>1. Updated(s, w, u) = [s EXCEPT !.stage = "Completed", !.worker = w,
                                       !.result = "worker"]
      BY <1>3 DEF Updated
    <2>2. QED
      BY <1>3, <2>1, Zenon DEF AwaitedAction
  <1>4. CASE u \in {"Error", "Backpressure"}
    <2> DEFINE n == s.attempts + (IF u = "Error" THEN 1 ELSE 0)
    <2>1. Updated(s, w, u) = WithError(s, w, u)
      BY <1>4 DEF Updated
    <2>2. \/ WithError(s, w, u) = [s EXCEPT !.attempts = n, !.stage = "Completed",
                                            !.worker = w, !.result = "too_many_attempts"]
          \/ WithError(s, w, u) = [s EXCEPT !.attempts = n, !.stage = "Queued",
                                            !.worker = NoWorker]
      BY DEF WithError
    <2> HIDE DEF n
    <2>3. WithError(s, w, u).stage \in {"Completed", "Queued"}
      BY <2>2, Zenon DEF AwaitedAction
    <2>4. QED
      BY <1>4, <2>1, <2>3
  <1>5. QED
    BY <1>1, <1>2, <1>3, <1>4 DEF Updates, WorkerUpdates

\* How a call goes on.
CallGoes(a, x) ==
    /\ call' = [call EXCEPT ![a] = x]
    /\ call[a].pc \in {"read", "commit", "timeout", "filter"}
    /\ x.pc \in {"read", "commit", "done"}
    /\ x.pc \in {"read", "commit"} =>
          /\ call[a].pc # "filter"
          /\ x.op = call[a].op /\ x.worker = call[a].worker
          /\ x.update = IF call[a].pc = "timeout" THEN "Error" ELSE call[a].update
    /\ x.pc = "commit" => x.snap = awaited[x.op]

LEMMA ReturnedFacts ==
    ASSUME NEW r
    PROVE  Returned(r).pc = "done" /\ Returned(r).result = r
PROOF BY DEF Returned, NoCall

\* A step of a call that reads or is refused changes no record.  Of the reads,
\* only that of an unknown operation returns Ok; an assignment is given up
\* because the action is not queued any more, or has changed since it was read.
LEMMA QuietCallStep ==
    ASSUME SInv, NEW a \in Callers,
           ReadOperation(a) \/ CommitFails(a) \/ TimeoutOperationId(a)
    PROVE  /\ UNCHANGED <<dbVars, lapsed>>
           /\ \E x : /\ CallGoes(a, x)
                     /\ call[a].pc \in {"read", "commit"} /\ x.pc = "done" =>
                          \/ call[a].op \notin sorted["Queued"]
                          \/ call[a].pc = "commit" /\ awaited[call[a].op] # call[a].snap
                     /\ /\ call[a].pc \in {"read", "commit"}
                        /\ x.pc = "done" /\ x.result = "Ok"
                        => call[a].op \notin known
PROOF
  <1> DEFINE c == call[a]
  <1>0. /\ c \in Call /\ call \in [Callers -> Call]
        /\ c.pc \in {"read", "commit"} => c.op \in used
        /\ SortedInSync /\ known \subseteq used /\ used \subseteq Operations
        /\ awaited \in [Operations -> AwaitedAction]
        /\ \A op \in used : awaited[op].stage = "Queued" => awaited[op].worker = NoWorker
    BY Zenon DEF SInv, IInv, TypeOK, DbInv, DbTypeOK, CallsSound, RecordsSound,
           WorkerMatchesStage
  <1>1. sorted["Queued"] = {op \in known : awaited[op].stage = "Queued"}
    BY <1>0, Zenon DEF SortedInSync, Stages
  <1>2. CASE ReadOperation(a)
    <2> DEFINE found == awaited[c.op]
    <2>1. /\ c.pc = "read" /\ UNCHANGED <<dbVars, lapsed>>
          /\ call' = [call EXCEPT ![a] =
                        IF c.op \notin known THEN Returned("Ok")
                        ELSE IF WorkerMismatch(c, found) THEN Returned("Aborted")
                        ELSE IF IsFinished(found) THEN Returned("Internal")
                        ELSE [c EXCEPT !.pc = "commit", !.snap = found]]
      BY <1>2 DEF ReadOperation
    <2>2. CASE c.op \notin known
      <3>1. call' = [call EXCEPT ![a] = Returned("Ok")]
        BY <2>1, <2>2
      <3>2. QED
        BY <1>1, <2>1, <2>2, <3>1, ReturnedFacts, Zenon DEF CallGoes
    <2>3. CASE c.op \in known /\ (WorkerMismatch(c, found) \/ IsFinished(found))
      <3>1. PICK r \in {"Aborted", "Internal"} : call' = [call EXCEPT ![a] = Returned(r)]
        BY <2>1, <2>3, Zenon
      <3>2. c.op \notin sorted["Queued"]
        BY <1>0, <1>1, <2>3, Zenon DEF WorkerMismatch, IsFinished
      <3> DEFINE x == Returned(r)
      <3>3. x.pc = "done" /\ x.result # "Ok"
        BY ReturnedFacts
      <3> HIDE DEF x
      <3>4. CallGoes(a, x)
        BY <2>1, <3>1, <3>3, Zenon DEF CallGoes, x
      <3>5. QED
        BY <2>1, <3>2, <3>3, <3>4
    <2>4. CASE c.op \in known /\ ~WorkerMismatch(c, found) /\ ~IsFinished(found)
      <3> DEFINE x == [c EXCEPT !.pc = "commit", !.snap = found]
      <3>1. call' = [call EXCEPT ![a] = x]
        BY <2>1, <2>4, Zenon
      <3>2. /\ x.pc = "commit" /\ x.op = c.op /\ x.worker = c.worker
            /\ x.update = c.update /\ x.snap = found
        BY <1>0 DEF Call
      <3> HIDE DEF x
      <3>3. CallGoes(a, x)
        BY <2>1, <3>1, <3>2, Zenon DEF CallGoes
      <3>4. QED
        BY <2>1, <3>2, <3>3
    <2>5. QED
      BY <2>2, <2>3, <2>4, Zenon
  <1>3. CASE CommitFails(a)
    <2> DEFINE new == Updated(c.snap, c.worker, c.update)
               r == UpdateResult(c.op, new)
    <2>1. /\ c.pc = "commit" /\ r # "Ok" /\ UNCHANGED <<dbVars, lapsed>>
          /\ call' = [call EXCEPT ![a] =
                        IF /\ r = "Aborted"
                           /\ c.update # "KeepAlive"
                           /\ c.tries + 1 < MaxUpdateRetries
                        THEN [c EXCEPT !.pc = "read", !.tries = @ + 1,
                                       !.snap = NoCall.snap]
                        ELSE Returned(r)]
      BY <1>3 DEF CommitFails
    <2>2. \/ c.op \notin sorted["Queued"]
          \/ awaited[c.op] # c.snap
      <3>0. /\ c.snap \in AwaitedAction /\ c.update \in Updates
            /\ c.worker \in Workers \cup {NoWorker}
        BY <1>0 DEF Call
      <3>1. new.version = c.snap.version /\ new \in AwaitedAction
        BY <3>0, UpdatedCases, Zenon
      <3>2. new.stage \in Stages
        BY <3>1, Zenon DEF AwaitedAction
      <3>3. \/ c.op \notin known
            \/ awaited[c.op].version # new.version
            \/ /\ awaited[c.op].stage # new.stage
               /\ c.op \notin sorted[awaited[c.op].stage] \/ c.op \in sorted[new.stage]
        BY <2>1, Zenon DEF UpdateResult
      <3> HIDE DEF new
      <3>4. CASE c.op \in sorted["Queued"] /\ awaited[c.op].stage # new.stage
        BY <1>0, <1>1, <3>1, <3>2, <3>3, <3>4, Zenon DEF SortedInSync
      <3>5. QED
        BY <1>1, <3>1, <3>3, <3>4, Zenon
    <2> HIDE DEF r
    <2>3. \/ call' = [call EXCEPT ![a] = Returned(r)]
          \/ call' = [call EXCEPT ![a] = [c EXCEPT !.pc = "read", !.tries = @ + 1,
                                                   !.snap = NoCall.snap]]
      BY <2>1, Zenon
    <2>4. CASE call' = [call EXCEPT ![a] = Returned(r)]
      <3> DEFINE x == Returned(r)
      <3>1. x.pc = "done" /\ x.result # "Ok"
        BY <2>1, ReturnedFacts
      <3> HIDE DEF x
      <3>2. CallGoes(a, x)
        BY <2>1, <2>4, <3>1, Zenon DEF CallGoes, x
      <3>3. QED
        BY <2>1, <2>2, <3>1, <3>2
    <2>5. CASE call' = [call EXCEPT ![a] = [c EXCEPT !.pc = "read", !.tries = @ + 1,
                                                     !.snap = NoCall.snap]]
      <3> DEFINE x == [c EXCEPT !.pc = "read", !.tries = @ + 1, !.snap = NoCall.snap]
      <3>1. /\ x.pc = "read" /\ x.op = c.op /\ x.worker = c.worker
            /\ x.update = c.update
        BY <1>0 DEF Call
      <3>2. call' = [call EXCEPT ![a] = x]
        BY <2>5
      <3> HIDE DEF x
      <3>3. QED
        BY <2>1, <3>1, <3>2, Zenon DEF CallGoes
    <2>6. QED
      BY <2>3, <2>4, <2>5
  <1>4. CASE TimeoutOperationId(a)
    <2>1. /\ c.pc = "timeout" /\ UNCHANGED <<dbVars, lapsed>>
          /\ \/ \E r : call' = [call EXCEPT ![a] = Returned(r)]
             \/ call' = [call EXCEPT ![a] = [c EXCEPT !.pc = "read", !.update = "Error"]]
      BY <1>4, Zenon DEF TimeoutOperationId
    <2> DEFINE x == [c EXCEPT !.pc = "read", !.update = "Error"]
    <2>2. /\ x.pc = "read" /\ x.op = c.op /\ x.worker = c.worker /\ x.update = "Error"
      BY <1>0 DEF Call
    <2>3. \/ \E r : call' = [call EXCEPT ![a] = Returned(r)]
          \/ call' = [call EXCEPT ![a] = x]
      BY <2>1
    <2> HIDE DEF x
    <2>4. QED
      BY <2>1, <2>2, <2>3, ReturnedFacts DEF CallGoes
  <1>5. QED
    BY <1>2, <1>3, <1>4, Zenon

\* A write starts no execution but the one it assigns, and the answer of a
\* worker ends the one it is about.
LEMMA WritingCallStep ==
    ASSUME SInv, NEW a \in Callers, CommitOperation(a) \/ FilterCommits(a)
    PROVE  /\ UNCHANGED <<used, known, clientOp, lapsed>>
           /\ CallGoes(a, Returned("Ok"))
           /\ \/ UNCHANGED dbVars /\ call[a].pc = "filter"
              \/ /\ awaited' # awaited
                 /\ \A op \in Operations, w \in Workers : ExecutesOn(op, w)' =>
                       \/ /\ ExecutesOn(op, w)
                          /\ call[a].pc = "commit" /\ call[a].update \in Answers =>
                                op # call[a].op
                       \/ /\ call[a].pc = "commit" /\ call[a].update = "Executing"
                          /\ op = call[a].op /\ w = call[a].worker
PROOF
  <1> DEFINE c == call[a]
  <1>0. /\ c \in Call /\ c.op \in used /\ used \subseteq Operations
        /\ known \subseteq Operations /\ awaited \in [Operations -> AwaitedAction]
    BY Zenon DEF SInv, IInv, TypeOK, DbTypeOK, CallsSound, CommitOperation, FilterCommits
  <1>1. /\ call' = [call EXCEPT ![a] = Returned("Ok")] /\ UNCHANGED lapsed
        /\ c.pc \in {"commit", "filter"}
    BY DEF CommitOperation, FilterCommits
  <1>2. CallGoes(a, Returned("Ok"))
    BY <1>1, ReturnedFacts, Zenon DEF CallGoes
  <1>3. ASSUME NEW new, UpdateAwaitedAction(c.op, new), new \in AwaitedAction,
               new.version = awaited[c.op].version
        PROVE  /\ UNCHANGED <<used, known, clientOp>>
               /\ awaited' # awaited
               /\ \A op \in Operations, w \in Workers : ExecutesOn(op, w)' =>
                     \/ ExecutesOn(op, w) /\ op # c.op
                     \/ op = c.op /\ new.stage = "Executing" /\ new.worker = w
    <2> DEFINE rec == [new EXCEPT !.version = @ + 1]
    <2>1. awaited' = [awaited EXCEPT ![c.op] = rec] /\ UNCHANGED <<used, known, clientOp>>
      BY <1>3 DEF UpdateAwaitedAction
    <2>2. /\ rec.stage = new.stage /\ rec.worker = new.worker
          /\ rec.version = new.version + 1 /\ new.version \in Nat
      BY <1>3 DEF AwaitedAction
    <2> HIDE DEF rec
    <2>3. awaited'[c.op] = rec /\ \A op \in Operations \ {c.op} : awaited'[op] = awaited[op]
      BY <1>0, <2>1
    <2>4. awaited' # awaited
      <3>1. rec.version # new.version
        BY <2>2
      <3>2. QED
        BY <1>3, <2>3, <3>1, Zenon
    <2>5. QED
      BY <2>1, <2>2, <2>3, <2>4, Zenon DEF ExecutesOn
  <1>4. CASE CommitOperation(a)
    <2> DEFINE new == Updated(c.snap, c.worker, c.update)
    <2>1. c.pc = "commit" /\ UpdateAwaitedAction(c.op, new)
      BY <1>4 DEF CommitOperation
    <2>2. LegalWrite(c.op, new) /\ c.snap = awaited[c.op] /\ c.op \in known
      BY <2>1, CommitIsLegal, Zenon DEF UpdateAwaitedAction, LegalWrite, SInv
    <2>3. /\ c.update \in Answers => new.stage # "Executing"
          /\ c.update = "KeepAlive" => new = c.snap
          /\ c.update = "Executing" => new.worker = c.worker
          /\ c.update \in Answers \cup {"KeepAlive", "Executing"}
      <3>1. c.snap \in AwaitedAction /\ c.update \in Updates
        BY <1>0, Zenon DEF Call
      <3>2. c.update \in Answers \cup {"KeepAlive", "Executing"}
        BY <3>1 DEF Updates, WorkerUpdates, Answers
      <3>3. QED
        <4>1. \A s \in AwaitedAction, u \in Updates : \A w :
                 /\ u \in Answers => Updated(s, w, u).stage # "Executing"
                 /\ u = "KeepAlive" => Updated(s, w, u) = s
                 /\ u = "Executing" => Updated(s, w, u).worker = w
          BY UpdatedStage
        <4>2. QED
          BY <3>1, <3>2, <4>1
    <2> HIDE DEF new
    <2>4. new \in AwaitedAction /\ new.version = awaited[c.op].version
      BY <2>2, Zenon DEF LegalWrite
    <2>5. /\ UNCHANGED <<used, known, clientOp>>
          /\ awaited' # awaited
          /\ \A op \in Operations, w \in Workers : ExecutesOn(op, w)' =>
                \/ ExecutesOn(op, w) /\ op # c.op
                \/ op = c.op /\ new.stage = "Executing" /\ new.worker = w
      BY <1>3, <2>1, <2>4, Zenon
    <2>6. ASSUME NEW op \in Operations, NEW w \in Workers, ExecutesOn(op, w)'
          PROVE  \/ ExecutesOn(op, w) /\ (c.update \in Answers => op # c.op)
                 \/ c.update = "Executing" /\ op = c.op /\ w = c.worker
      <3>1. CASE ExecutesOn(op, w) /\ op # c.op
        BY <3>1, Zenon
      <3>2. CASE op = c.op /\ new.stage = "Executing" /\ new.worker = w
        BY <2>2, <2>3, <3>2, Zenon DEF ExecutesOn
      <3>3. QED
        BY <2>5, <2>6, <3>1, <3>2, Zenon
    <2>7. QED
      BY <1>1, <1>2, <2>1, <2>5, <2>6, Zenon
  <1>5. CASE FilterCommits(a)
    <2> DEFINE new == TimedOut(c.snap)
    <2>1. c.pc = "filter" /\ (UpdateAwaitedAction(c.op, new) \/ UNCHANGED dbVars)
      BY <1>5 DEF FilterCommits
    <2>2. CASE UNCHANGED dbVars
      BY <1>1, <1>2, <2>1, <2>2, SMTT(45) DEF dbVars
    <2>3. CASE UpdateAwaitedAction(c.op, new)
      <3>1. LegalWrite(c.op, new)
        BY <2>1, <2>3, FilterIsLegal DEF UpdateAwaitedAction, SInv
      <3>2. new.stage = "Completed"
        BY <1>0 DEF TimedOut, Call, AwaitedAction
      <3> HIDE DEF new
      <3>3. new \in AwaitedAction /\ new.version = awaited[c.op].version
        BY <3>1, Zenon DEF LegalWrite
      <3>4. /\ UNCHANGED <<used, known, clientOp>>
            /\ awaited' # awaited
            /\ \A op \in Operations, w \in Workers : ExecutesOn(op, w)' => ExecutesOn(op, w)
        BY <1>3, <2>3, <3>2, <3>3, Zenon
      <3>5. QED
        BY <1>1, <1>2, <2>1, <3>4
    <2>4. QED
      BY <2>1, <2>2, <2>3, Zenon
  <1>6. QED
    BY <1>4, <1>5, Zenon

\* Whose call goes on, the task that made it is where it was.
LEMMA CallGoesKeeps ==
    ASSUME SInv, NEW a \in Callers, NEW x, CallGoes(a, x),
           UNCHANGED <<used, clientOp, poolVars, matcher, client, jobs, replies>>
    PROVE  /\ NamesSound' /\ TasksSound' /\ MatcherSound' /\ HandlerSound' /\ PoolSound'
           /\ \A op \in Operations, w \in Workers : HandsOver(op, w) => HandsOver(op, w)'
           /\ a # Match => call'[Match] = call[Match]
           /\ a # Api => call'[Api] = call[Api]
           /\ a = Match \/ a = Api => call'[a] = x
PROOF
  <1>1. /\ a # Match => call'[Match] = call[Match]
        /\ a # Api => call'[Api] = call[Api]
        /\ call'[a] = x
    BY TaskFacts DEF CallGoes
  <1>2. NamesSound'
    BY NamesFrame DEF SInv, poolVars
  <1>3. TasksSound'
    <2>1. a # Match /\ x.pc \in {"read", "commit"} => x.update # "Executing"
      <3>1. ASSUME a # Match, x.pc \in {"read", "commit"}, x.update = "Executing"
            PROVE  FALSE
        <4>1. call[a].pc \in {"read", "commit"} /\ call[a].update = "Executing"
          BY <3>1, Zenon DEF CallGoes
        <4>2. QED
          BY <3>1, <4>1, Zenon DEF SInv, TasksSound
      <3>2. QED
        BY <3>1
    <2>2. \A c \in Clients : client'[c] = "new" => client[c] = "new" /\ c # a
      BY Zenon DEF SInv, TasksSound, CallGoes
    <2>3. QED
      BY <2>1, <2>2, TasksMove, Zenon DEF CallGoes
  <1>4. MatcherSound'
    <2>1. CASE a # Match
      BY <1>1, <2>1, MatcherFrame DEF LinksGrow, poolVars
    <2>2. CASE a = Match
      <3>1. matcher.pc \in {"filter", "assign"}
        BY <2>2, Zenon DEF CallGoes, SInv, MatcherSound, SchedulerTypeOK
      <3>2. matcher.pc = "filter" => x.pc = "done"
        BY <2>2, <3>1, Zenon DEF CallGoes, SInv, MatcherSound
      <3>3. matcher.pc = "assign" /\ x.pc \in {"read", "commit"} =>
               /\ x.op = matcher.op /\ x.worker = matcher.worker
               /\ x.update = "Executing"
        BY <2>2, Zenon DEF CallGoes, SInv, MatcherSound
      <3>4. x.pc \in {"read", "commit", "done"}
        BY DEF CallGoes
      <3>5. QED
        BY <1>1, <2>2, <3>1, <3>2, <3>3, <3>4, Zenon DEF SInv, MatcherSound, poolVars
    <2>3. QED
      BY <2>1, <2>2, Zenon
  <1>5. HandlerSound'
    <2>1. CASE a # Api
      BY <1>1, <2>1, HandlerFrame, Zenon DEF poolVars
    <2>2. CASE a = Api
      <3>1. handler.kind # "free" /\ x.pc \in {"read", "commit", "done"}
        BY <2>2, Zenon DEF CallGoes, SInv, HandlerSound
      <3>2. handler.kind = "update" /\ x.pc \in {"read", "commit"} =>
               /\ x.op = handler.op /\ x.worker = handler.worker
               /\ x.update \in Answers
        BY <2>2, Zenon DEF CallGoes, SInv, HandlerSound
      <3>3. QED
        BY <1>1, <2>2, <3>1, <3>2, Zenon DEF SInv, HandlerSound, poolVars
    <2>3. QED
      BY <2>1, <2>2
  <1>6. PoolSound'
    BY PoolFrame DEF LinksGrow, poolVars
  <1>7. \A op \in Operations, w \in Workers : HandsOver(op, w) => HandsOver(op, w)'
    <2>1. a = Match => matcher.pc # "notify" /\ call[Match].pc # "done"
      BY Zenon DEF CallGoes, SInv, MatcherSound
    <2>2. QED
      BY <1>1, <2>1, Zenon DEF HandsOver
  <1>8. QED
    BY <1>1, <1>2, <1>3, <1>4, <1>5, <1>6, <1>7, Zenon

LEMMA CallKeeps ==
    ASSUME SInv, IInv', NEW a \in Callers, CallSteps(a)
    PROVE  Sound'
PROOF
  <1>0. /\ UNCHANGED <<poolVars, matcher, client, jobs, replies>> /\ TaskNotify
        /\ known \subseteq Operations /\ known' \subseteq Operations
    BY DEF CallSteps, SInv, IInv, TypeOK, DbTypeOK
  <1>1. CASE CommitOperation(a) \/ FilterCommits(a)
    <2> DEFINE x == Returned("Ok")
    <2>1. UNCHANGED <<used, known, clientOp, lapsed>> /\ CallGoes(a, x)
      BY <1>1, WritingCallStep, Zenon
    <2>2. x.pc = "done" /\ x.result = "Ok"
      BY ReturnedFacts
    <2> HIDE DEF x
    <2>3. /\ NamesSound' /\ TasksSound' /\ MatcherSound' /\ HandlerSound' /\ PoolSound'
          /\ \A op \in Operations, w \in Workers : HandsOver(op, w) => HandsOver(op, w)'
          /\ a # Match => call'[Match] = call[Match]
          /\ a # Api => call'[Api] = call[Api]
          /\ a = Match \/ a = Api => call'[a] = x
      BY <1>0, <2>1, CallGoesKeeps, Zenon
    <2>4. \A op \in Operations, w \in Workers : ExecutesOn(op, w)' =>
             \/ /\ ExecutesOn(op, w)
                /\ call[a].pc = "commit" /\ call[a].update \in Answers => op # call[a].op
             \/ HandsOver(op, w)' /\ link[w] # "new"
      <3>1. CASE UNCHANGED dbVars /\ call[a].pc = "filter"
        BY <3>1, Zenon DEF ExecutesOn, dbVars
      <3>2. ASSUME call[a].pc = "commit", call[a].update = "Executing"
            PROVE  \A op, w : op = call[a].op /\ w = call[a].worker =>
                                HandsOver(op, w)' /\ link[w] # "new"
        <4>1. a = Match /\ matcher.pc = "assign"
          BY <3>2, Zenon DEF SInv, TasksSound, MatcherSound, SchedulerTypeOK
        <4>2. /\ call[a].op = matcher.op /\ call[a].worker = matcher.worker
              /\ link[matcher.worker] # "new"
          BY <3>2, <4>1, Zenon DEF SInv, MatcherSound
        <4>3. call'[Match].pc = "done" /\ call'[Match].result = "Ok"
          BY <2>2, <2>3, <4>1, Zenon
        <4>4. matcher'.op = matcher.op /\ matcher'.worker = matcher.worker
              /\ matcher'.pc = "assign"
          BY <1>0, <4>1, SMTT(45)
        <4>5. \A op, w : op = matcher.op /\ w = matcher.worker => HandsOver(op, w)'
          BY <4>3, <4>4 DEF HandsOver
        <4>6. QED
          BY <4>2, <4>5, Zenon
      <3>3. QED
        BY <1>1, <3>1, <3>2, WritingCallStep, Zenon
    <2>5. TrackingSound'
      <3>1. ASSUME NEW op \in known', NEW w \in Workers, ExecutesOn(op, w)'
            PROVE  /\ link'[w] # "new"
                   /\ w \in pool' => op \in running'[w] \/ HandsOver(op, w)'
        <4>1. op \in Operations /\ op \in known
          BY <1>0, <2>1
        <4>2. CASE ExecutesOn(op, w)
          <5>1. link[w] # "new" /\ (w \in pool => op \in running[w] \/ HandsOver(op, w))
            BY <4>1, <4>2, Zenon DEF SInv, TrackingSound
          <5>2. QED
            BY <1>0, <2>3, <4>1, <5>1, Zenon DEF poolVars
        <4>3. QED
          BY <1>0, <2>4, <3>1, <4>1, <4>2, Zenon DEF poolVars
      <3>2. ASSUME handler'.kind = "update", call'[Api].pc = "done",
                   call'[Api].result = "Ok", ExecutesOn(handler.op, handler.worker)'
            PROVE  HandsOver(handler.op, handler.worker)'
        <4>0. handler' = handler /\ handler.op \in Operations /\ handler.worker \in Workers
          BY <1>0, <3>2, Zenon DEF ExecutesOn, poolVars, SInv, HandlerSound, SchedulerTypeOK,
                            PoolTypeOK
        <4>1. CASE HandsOver(handler.op, handler.worker)'
          BY <4>1
        <4>2. CASE ~HandsOver(handler.op, handler.worker)'
          <5>1. /\ ExecutesOn(handler.op, handler.worker)
                /\ call[a].pc = "commit" /\ call[a].update \in Answers =>
                      handler.op # call[a].op
            BY <2>4, <3>2, <4>0, <4>2, Zenon DEF ExecutesOn, HandsOver
          <5>2. a # Api
            BY <1>1, <3>2, <4>0, <5>1, Zenon
               DEF CommitOperation, FilterCommits, SInv, HandlerSound
          <5>3. call'[Api] = call[Api]
            BY <2>3, <5>2, Zenon
          <5>4. HandsOver(handler.op, handler.worker)
            BY <3>2, <4>0, <5>1, <5>3, Zenon DEF SInv, TrackingSound
          <5>5. QED
            BY <2>3, <4>0, <4>2, <5>4, Zenon DEF HandsOver
        <4>3. QED
          BY <4>1, <4>2
      <3>3. QED
        BY <3>1, <3>2, Zenon DEF TrackingSound
    <2>6. WakeupSound'
      <3>1. CASE awaited' # awaited
        BY <1>0, <3>1, Zenon DEF TaskNotify, WakeupSound
      <3>2. CASE UNCHANGED dbVars /\ call[a].pc = "filter"
        <4>1. taskPermit = taskPermit'
          BY <1>0, <3>2, Zenon DEF TaskNotify, dbVars, SInv, SchedulerTypeOK
        <4>2. CASE a # Match
          BY <1>0, <2>1, <2>3, <3>2, <4>1, <4>2, WakeupFrame, Zenon DEF dbVars, poolVars
        <4>3. CASE a = Match
          <5>1. matcher.pc = "filter"
            BY <3>2, <4>3, Zenon DEF SInv, MatcherSound, SchedulerTypeOK
          <5>2. ASSUME NEW op, Ahead(op) PROVE Ahead(op)'
            BY <1>0, <5>1, <5>2, Zenon DEF Ahead
          <5>3. QED
            BY <1>0, <2>1, <3>2, <4>1, <5>1, <5>2, Zenon
               DEF SInv, WakeupSound, CanRun, dbVars, poolVars
        <4>4. QED
          BY <4>2, <4>3
      <3>3. QED
        BY <1>1, <3>1, <3>2, WritingCallStep, Zenon
    <2>7. QED
      BY <2>3, <2>5, <2>6, Zenon DEF Sound
  <1>2. CASE ReadOperation(a) \/ CommitFails(a) \/ TimeoutOperationId(a)
    <2>0. UNCHANGED <<dbVars, lapsed>>
      BY <1>2, QuietCallStep, Zenon
    <2>1. PICK x :
              /\ CallGoes(a, x)
              /\ call[a].pc \in {"read", "commit"} /\ x.pc = "done" =>
                    \/ call[a].op \notin sorted["Queued"]
                    \/ call[a].pc = "commit" /\ awaited[call[a].op] # call[a].snap
              /\ call[a].pc \in {"read", "commit"} /\ x.pc = "done" /\ x.result = "Ok" =>
                    call[a].op \notin known
      BY <1>2, QuietCallStep, Zenon
    <2>2. taskPermit' = taskPermit
      BY <1>0, <2>0 DEF TaskNotify, dbVars, SInv, SchedulerTypeOK
    <2>3. /\ NamesSound' /\ TasksSound' /\ MatcherSound' /\ HandlerSound' /\ PoolSound'
          /\ \A op \in Operations, w \in Workers : HandsOver(op, w) => HandsOver(op, w)'
          /\ a # Match => call'[Match] = call[Match]
          /\ a # Api => call'[Api] = call[Api]
          /\ a = Match \/ a = Api => call'[a] = x
      BY <1>0, <2>0, <2>1, CallGoesKeeps, Zenon DEF dbVars
    <2>4. TrackingSound'
      <3>1. ASSUME NEW op \in known', NEW w \in Workers, ExecutesOn(op, w)'
            PROVE  /\ link'[w] # "new"
                   /\ w \in pool' => op \in running'[w] \/ HandsOver(op, w)'
        <4>1. op \in Operations /\ op \in known /\ ExecutesOn(op, w)
          BY <1>0, <2>0, <3>1 DEF ExecutesOn, dbVars
        <4>2. link[w] # "new" /\ (w \in pool => op \in running[w] \/ HandsOver(op, w))
          BY <4>1, Zenon DEF SInv, TrackingSound
        <4>3. QED
          BY <1>0, <2>3, <4>1, <4>2, Zenon DEF poolVars
      <3>2. ASSUME handler'.kind = "update", call'[Api].pc = "done",
                   call'[Api].result = "Ok", ExecutesOn(handler.op, handler.worker)'
            PROVE  HandsOver(handler.op, handler.worker)'
        <4>0. /\ handler' = handler /\ handler.op \in Operations
              /\ handler.worker \in Workers
              /\ ExecutesOn(handler.op, handler.worker)
          BY <1>0, <2>0, <3>2, Zenon DEF ExecutesOn, poolVars, dbVars, SInv, HandlerSound,
             SchedulerTypeOK, PoolTypeOK
        <4>1. a # Api
          <5>1. ASSUME a = Api PROVE FALSE
            <6>1. /\ call[a].pc \in {"read", "commit", "timeout", "filter"}
                  /\ call[a].pc \in {"read", "commit", "done"}
                  /\ call[a].pc \in {"read", "commit"} => call[a].op = handler.op
              BY <2>1, <3>2, <4>0, <5>1, Zenon DEF CallGoes, SInv, HandlerSound
            <6>2. handler.op \notin known
              BY <2>1, <2>3, <3>2, <5>1, <6>1, Zenon
            <6>3. QED
              BY <4>0, <6>2 DEF ExecutesOn
          <5>2. QED
            BY <5>1
        <4>2. HandsOver(handler.op, handler.worker)
          BY <2>3, <3>2, <4>0, <4>1, Zenon DEF SInv, TrackingSound
        <4>3. QED
          BY <2>3, <4>0, <4>2, Zenon DEF HandsOver
      <3>3. QED
        BY <3>1, <3>2, Zenon DEF TrackingSound
    <2>5. WakeupSound'
      <3>1. CASE a # Match
        BY <1>0, <2>0, <2>2, <2>3, <3>1, WakeupFrame, Zenon DEF dbVars, poolVars
      <3>2. CASE a = Match
        <4>1. /\ matcher.pc \in {"filter", "assign"}
              /\ matcher.pc = "filter" => call[a].pc = "filter"
              /\ matcher.pc = "assign" =>
                    call[a].pc \in {"read", "commit"} /\ call[a].op = matcher.op
          BY <2>1, <3>2, Zenon DEF CallGoes, SInv, MatcherSound, SchedulerTypeOK
        <4>2. matcher.pc = "assign" /\ x.pc = "done" =>
                 taskPermit \/ matcher.op \notin sorted["Queued"]
          BY <2>1, <3>2, <4>1, Zenon DEF SInv, WakeupSound
        <4>3. /\ matcher.pc = "filter" => x.pc = "done"
              /\ x.pc = "commit" => x.snap = awaited[x.op]
              /\ x.pc \in {"read", "commit"} => x.op = call[a].op
              /\ x.pc \in {"read", "commit", "done"}
          BY <2>1, <4>1, Zenon DEF CallGoes
        <4>4. ASSUME NEW op \in sorted["Queued"], ~taskPermit, Ahead(op)
              PROVE  Ahead(op)'
          BY <1>0, <2>3, <3>2, <4>1, <4>2, <4>3, <4>4, Zenon DEF Ahead
        <4>5. QED
          BY <1>0, <2>0, <2>2, <2>3, <3>2, <4>1, <4>2, <4>3, <4>4, Zenon
             DEF SInv, WakeupSound, CanRun, dbVars, poolVars
      <3>3. QED
        BY <3>1, <3>2
    <2>6. QED
      BY <2>3, <2>4, <2>5, Zenon DEF Sound
  <1>3. QED
    BY <1>1, <1>2, SMTT(45) DEF CallSteps, CallStep

\* A refused answer, or a step that changes nothing here.
LEMMA QuietKeeps ==
    ASSUME SInv, IInv', UNCHANGED <<vars, pool, running, slots, paused, draining,
                                    handler, workerPermit, link, matcher, taskPermit,
                                    client, jobs>>,
           replies' \subseteq replies
    PROVE  Sound'
PROOF
  <1>1. UNCHANGED <<dbVars, call, lapsed>> /\ LinksGrow
    BY DEF vars, LinksGrow
  <1>2. MatcherSound' /\ HandlerSound' /\ PoolSound' /\ TrackingSound' /\ WakeupSound'
    BY <1>1, Undisturbed, Zenon DEF dbVars
  <1>3. NamesSound' /\ TasksSound'
    BY <1>1, Zenon DEF dbVars, SInv, NamesSound, TasksSound
  <1>4. QED
    BY <1>2, <1>3 DEF Sound

\* The inductive step: one case per action of the scheduler.
LEMMA SchedulerStepKeeps ==
    ASSUME SInv, [SchedulerNext]_allVars
    PROVE  SInv'
PROOF
  <1>1. [OpenNext]_vars
    BY StepUsesManager
  <1>2. IInv' /\ used \subseteq used'
    BY <1>1, StepPreserves, StepKeepsDb, Zenon DEF SInv, Advances
  <1>3. SchedulerTypeOK'
    BY <1>2, StepKeepsTypes
  <1>4. SUFFICES Sound'
    BY <1>2, <1>3 DEF SInv, Sound
  <1>5. CASE UNCHANGED allVars
    BY <1>2, <1>5, QuietKeeps DEF allVars, poolVars, schedVars
  <1>6. CASE MatchStep
    BY <1>2, <1>6, MatchWakesKeeps, MatchReadsChunkKeeps, MatchTakesNextKeeps,
       MatchSkipsKeep, MatchFindsWorkerKeeps, MatchAssignedKeeps, MatchNotifiesKeeps,
       MatchWorkerGoneKeeps, Zenon DEF MatchStep
  <1>7. CASE PoolStep
    BY <1>2, <1>3, <1>7, HandlerKeeps, UpdateCompletesKeeps, KeepAliveKeeps DEF PoolStep
  <1>8. CASE DatabaseStep
    BY <1>2, <1>8, DatabaseKeeps
  <1>9. ASSUME NEW W \in SUBSET pool, RemoveWorkers(W), UNCHANGED schedVars
        PROVE  Sound'
    BY <1>2, <1>9, RemovalKeeps DEF RemoveWorkers, schedVars
  <1>10. CASE TimeoutRemovesWorkers
    BY <1>9, <1>10 DEF TimeoutRemovesWorkers, LateWorkers
  <1>11. CASE \E a \in Callers : CallSteps(a)
    BY <1>2, <1>11, CallKeeps
  <1>12. CASE \E c \in Clients : ClientStep(c)
    <2>1. PICK c \in Clients : ClientStep(c)
      BY <1>12
    <2>2. CASE ClientExecutes(c)
      BY <1>2, <2>2, ExecuteKeeps
    <2>3. CASE ClientSeesChange(c) \/ ClientLosesOperation(c) \/ ClientTimerFires(c)
      BY <1>2, <2>3, SilentClientKeeps
    <2>4. CASE ClientTimesOut(c) \/ ClientTimeoutReturns(c)
      BY <1>2, <2>4, TimeoutCallKeeps
    <2>5. CASE ClientSendsKeepAlive(c)
      BY <1>2, <2>5, DatabaseKeeps
    <2>6. QED
      BY <2>1, <2>2, <2>3, <2>4, <2>5 DEF ClientStep
  <1>13. CASE \E r \in replies : ReplyArrives(r)
    <2>1. PICK r \in replies : ReplyArrives(r)
      BY <1>13
    <2>2. /\ replies' = replies \ {r}
          /\ UNCHANGED <<matcher, taskPermit, client, seen, jobs, silent, dispatched>>
      BY <2>1 DEF ReplyArrives
    <2>3. CASE UpdateFromUnknown(r.worker)
      BY <1>2, <2>2, <2>3, QuietKeeps DEF UpdateFromUnknown, vars
    <2>4. CASE UpdateNotRunning(r.worker, r.op)
      <3>1. {r.worker} \in SUBSET pool /\ Evict({r.worker}, running) /\ MutexFree
            /\ UNCHANGED <<link, dbVars, call, lapsed>>
        BY <2>4, Zenon DEF UpdateNotRunning
      <3>2. QED
        BY <1>2, <2>2, <3>1, RemovalKeeps
    <2>5. CASE UpdateActionStarts(r.worker, r.op, r.update)
      BY <1>2, <2>2, <2>5, UpdateStartsKeeps
    <2>6. QED
      BY <2>1, <2>3, <2>4, <2>5 DEF ReplyArrives, UpdateAction
  <1>14. CASE \E w \in Workers : ToldWorkerLeaves(w) \/ NewWorker(w)
    BY <1>2, <1>14, ProcessKeeps, AddWorkerKeeps DEF ToldWorkerLeaves, NewWorker
  <1>15. ASSUME NEW w \in Workers, NEW op \in Operations, NEW u \in Answers,
                JobEnds(w, op, u)
         PROVE  Sound'
    BY <1>2, <1>15, ProcessKeeps
  <1>16. CASE \E w \in Workers, op \in Operations : JobEnds(w, op, "Completed")
    BY <1>15, <1>16 DEF Answers
  <1>17. CASE EnvStep
    <2>1. CASE \E w \in Workers : WorkerDown(w) \/ WorkerStalls(w) \/ WorkerResumes(w)
      BY <1>2, <2>1, ProcessKeeps
    <2>2. CASE \E w \in pool : RemoveWorkers({w}) /\ UNCHANGED schedVars
      BY <1>9, <2>2
    <2>3. CASE \E w \in Workers, d \in BOOLEAN :
                  SetDrainWorker(w, d) /\ UNCHANGED schedVars
      BY <1>2, <2>3, DrainKeeps
    <2>4. CASE \E w \in Workers, op \in Operations :
                  JobEnds(w, op, "Error") \/ JobEnds(w, op, "Backpressure")
      BY <1>15, <2>4 DEF Answers
    <2>5. CASE \E w \in Workers, op \in Operations :
                  KeepAliveReceived(w, op) /\ UNCHANGED schedVars
      BY <1>2, <2>5, KeepAliveKeeps
    <2>6. CASE \E op \in Operations :
                  ClientKeepaliveLapses(op) /\ UNCHANGED <<poolVars, schedVars>>
      BY <1>2, <2>6, LapseKeeps
    <2>7. CASE \E c \in Clients : ClientHangsUp(c) \/ ClientEntryGrowsOld(c)
      BY <1>2, <2>7, TimeoutCallKeeps, DatabaseKeeps
    <2>8. QED
      BY <1>17, <2>1, <2>2, <2>3, <2>4, <2>5, <2>6, <2>7, Zenon DEF EnvStep
  <1>18. QED
    BY <1>5, <1>6, <1>7, <1>8, <1>10, <1>11, <1>12, <1>13, <1>14, <1>16, <1>17, SMTT(45)
       DEF SchedulerNext, SystemStep

LEMMA SchedulerInitKeeps == SchedulerInit => SInv
PROOF
  <1> SUFFICES ASSUME SchedulerInit PROVE SInv
    OBVIOUS
  <1>1. Init /\ IInv
    BY InitEstablishes DEF SchedulerInit
  <1>2. PoolInit /\ matcher = IdleMatcher
    BY DEF SchedulerInit
  <1>3. /\ used = {} /\ known = {} /\ lapsed = {} /\ sorted["Queued"] = {}
        /\ call = [a \in Callers |-> NoCall]
    BY <1>1 DEF Init, DbInit, Stages
  <1>4. /\ matcher.pc = "idle" /\ matcher.todo = {} /\ NoCall.pc = "idle"
        /\ handler.kind = "free" /\ handler.rest = {}
    BY <1>2, Zenon DEF IdleMatcher, NoCall, PoolInit, Free
  <1>5. SchedulerTypeOK
    <2>1. PoolTypeOK
      <3>1. Free \in Handler
        BY Zenon DEF Free, Handler, Updates, WorkerUpdates
      <3>2. /\ running \in [Workers -> SUBSET Operations]
            /\ slots \in [Workers -> Int]
            /\ link \in [Workers -> {"new", "up", "down"}]
        BY <1>2 DEF PoolInit
      <3>3. /\ pool \subseteq Workers /\ paused \subseteq Workers
            /\ draining \subseteq Workers /\ told \subseteq Workers
            /\ workerPermit \in BOOLEAN /\ handler = Free
        BY <1>2, Zenon DEF PoolInit
      <3>4. QED
        BY <3>1, <3>2, <3>3 DEF PoolTypeOK
    <2>2. TypeOK
      BY <1>1 DEF IInv
    <2>3. matcher \in Matcher
      BY <1>2, Zenon DEF IdleMatcher, Matcher
    <2>4. QED
      BY <2>1, <2>2, <2>3, Zenon DEF SchedulerInit, SchedulerTypeOK, Matcher
  <1>6. NamesSound /\ TasksSound
    BY <1>2, <1>3, <1>4, SchedulerAssumption, Zenon DEF SchedulerInit, PoolInit, NamesSound, TasksSound
  <1>7. MatcherSound /\ HandlerSound
    <2>1. call[Match] = NoCall /\ call[Api] = NoCall
      BY <1>3, PoolAssumption, SchedulerAssumption, Zenon
    <2>2. QED
      BY <1>3, <1>4, <2>1, Zenon DEF MatcherSound, HandlerSound
  <1>8. PoolSound /\ TrackingSound /\ WakeupSound
    <2>1. PoolSound
      BY <1>2, <1>4 DEF PoolInit, PoolSound, SlotsNeverNegative, PausedHasActions
    <2>2. TrackingSound /\ WakeupSound
      BY <1>3, <1>4, Zenon DEF TrackingSound, WakeupSound
    <2>3. QED
      BY <2>1, <2>2, SMTT(45)
  <1>9. QED
    BY <1>1, <1>5, <1>6, <1>7, <1>8 DEF SInv

-----------------------------------------------------------------------------
(* What holds of the whole scheduler: any number of clients, workers and    *)
(* operations, any capacity, and any of the faults.                        *)

\* SInv is an invariant of the matching engine, the pool, the clients, the
\* worker processes and the state manager together.
THEOREM SchedulerInvariant == SchedulerSpec => []SInv
PROOF
  <1>1. SInv /\ [SchedulerNext]_allVars => SInv'
    BY SchedulerStepKeeps
  <1>2. QED
    BY <1>1, SchedulerInitKeeps, PTL DEF SchedulerSpec

\* Every reachable state of the scheduler is well typed.
THEOREM SchedulerTypeCorrect == SchedulerSpec => []SchedulerTypeOK
PROOF BY SchedulerInvariant, PTL DEF SInv

\* An action that executes on a worker of the pool is in the worker's
\* running_action_infos or about to be handed to it, so immediate_evict_worker
\* gives back every action the worker was assigned.
THEOREM ExecutingAlwaysTracked == SchedulerSpec => []ExecutingIsTracked
PROOF
  <1>1. SInv => ExecutingIsTracked
    <2> SUFFICES ASSUME SInv, NEW op \in known, awaited[op].stage = "Executing",
                        awaited[op].worker \in pool
                 PROVE  \/ op \in running[awaited[op].worker]
                        \/ matcher.op = op /\ matcher.worker = awaited[op].worker
      BY Zenon DEF ExecutingIsTracked
    <2>1. awaited[op].worker \in Workers
      BY Zenon DEF SInv, SchedulerTypeOK, PoolTypeOK
    <2>2. QED
      BY <2>1, Zenon DEF SInv, TrackingSound, ExecutesOn, HandsOver
  <1>2. QED
    BY <1>1, SchedulerInvariant, PTL

\* reduce_platform_properties never goes below zero: only the matching engine
\* takes capacity, so what find_worker_for_action saw is still there after the
\* write to the database that lies in between.
THEOREM SlotsStayNonNegative == SchedulerSpec => []SlotsNeverNegative
PROOF BY SchedulerInvariant, PTL DEF SInv, PoolSound

\* A paused worker of the pool has an action whose end lifts the pause.
THEOREM PauseIsLifted == SchedulerSpec => []PausedHasActions
PROOF BY SchedulerInvariant, PTL DEF SInv, PoolSound

\* The matching engine never sleeps without a permit while a queued action fits
\* a worker: no change of the database or of the pool between its scan and its
\* wait is lost.
THEOREM WakeupsAreKept == SchedulerSpec => []NoLostWakeup
PROOF
  <1>1. SInv => NoLostWakeup
    BY DEF SInv, WakeupSound, NoLostWakeup, Ahead
  <1>2. QED
    BY <1>1, SchedulerInvariant, PTL

\* Every step of the scheduler is one that the open state manager allows: the
\* callers keep the rules it was verified under.
THEOREM SchedulerUsesManager == SchedulerSpec => UsesStateManager
PROOF
  <1>1. SchedulerInit => Init
    BY DEF SchedulerInit
  <1>2. SInv /\ [SchedulerNext]_allVars => [OpenNext]_vars
    BY StepUsesManager
  <1>3. QED
    BY <1>1, <1>2, SchedulerInvariant, PTL DEF SchedulerSpec, UsesStateManager, OpenSpec

\* So what is proved of the state manager holds in the scheduler: the indexes
\* and counts of the database are in step with its records, completed actions
\* never change, an executing one is changed only by its owner or a timeout,
\* and each operation lives the abstract life of OperationLifecycle.
THEOREM SchedulerKeepsDatabase ==
    SchedulerSpec => /\ [](SortedInSync /\ KeyMapSound /\ ConnectedCountsClients)
                     /\ [](WorkerMatchesStage /\ AttemptsWithinLimit)
                     /\ CompletedIsFinal
                     /\ OnlyOwnerUpdates
                     /\ ImplementsLifecycle
PROOF
  <1>1. SchedulerSpec => OpenSpec
    BY SchedulerUsesManager DEF UsesStateManager
  <1>2. QED
    BY <1>1, SortedSetsInSync, KeysLeadToLiveOperations, ClientCountsExact,
       WorkerFollowsStage, AttemptsBounded, CompletedStays, OwnerUpdates,
       RefinesLifecycle, PTL
=============================================================================
