------------------ MODULE SimpleSchedulerStateManagerProofs ------------------
(***************************************************************************)
(* Theorems about SimpleSchedulerStateManager, for any numbers of          *)
(* operations, clients, keys, workers and calling tasks, any retry limits  *)
(* and any number of updates.                                              *)
(*                                                                         *)
(* The inductive invariant IInv adds three facts to the invariants of the  *)
(* module: every call in progress is about an operation that was created,  *)
(* an unfinished action carries no result, and the clients that count are  *)
(* either mapped or dropping, never both.                                  *)
(***************************************************************************)
EXTENDS SimpleSchedulerStateManager, FiniteSetTheorems, TLAPS

-----------------------------------------------------------------------------
CallsSound ==
    \A a \in Callers :
        /\ call[a].pc \in {"read", "commit", "timeout", "filter"} =>
              call[a].op \in used
        /\ call[a].update = "Executing" => call[a].worker \in Workers
        /\ call[a].pc = "commit" => ~WorkerMismatch(call[a], call[a].snap)

ResultsMatchStage ==
    \A op \in used : IsFinished(awaited[op]) <=> awaited[op].result # "none"

ClientsSound ==
    /\ mapped \cap dropping = {}
    /\ \A c \in mapped \cup dropping : clientOp[c] \in used

RecordsSound == WorkerMatchesStage /\ AttemptsWithinLimit /\ ResultsMatchStage

\* The part about the database alone, and the whole.
DbInv ==
    /\ DbTypeOK
    /\ RecordsSound
    /\ SortedInSync
    /\ KeyMapSound
    /\ ClientsSound
    /\ ConnectedCountsClients

IInv ==
    /\ TypeOK
    /\ DbInv
    /\ CallsSound
    /\ SnapshotsCurrent

-----------------------------------------------------------------------------
(* Writes.  Both writers of the database, CommitOperation and              *)
(* FilterCommits, make legal ones.                                         *)

\* What a write to op may put in place of the record.
LegalWrite(op, new) ==
    /\ op \in known
    /\ new \in AwaitedAction
    /\ new.key = awaited[op].key
    /\ new.version = awaited[op].version
    /\ ~IsFinished(awaited[op])
    /\ IsFinished(new) <=> new.result # "none"
    /\ new.stage = "Queued" => new.worker = NoWorker
    /\ new.stage = "Executing" => new.worker \in Workers
    /\ new.attempts <= MaxJobRetries + 1
    /\ new.attempts > MaxJobRetries <=> new.result = "too_many_attempts"

\* What inner_update_operation writes, case by case: the record stays a record
\* of the same key and version; the other fields follow the kind of update.
LEMMA UpdatedCases ==
    ASSUME NEW s \in AwaitedAction, NEW w \in Workers \cup {NoWorker},
           NEW u \in Updates
    PROVE  LET new == Updated(s, w, u) IN
           /\ new \in AwaitedAction
           /\ new.key = s.key
           /\ new.version = s.version
           /\ \/ new = s
              \/ /\ u = "Executing"
                 /\ new.stage = "Executing" /\ new.worker = w
                 /\ new.attempts = s.attempts /\ new.result = s.result
              \/ /\ new.stage = "Completed" /\ new.result = "worker"
                 /\ new.attempts = s.attempts
              \/ /\ new.stage = "Completed" /\ new.result = "too_many_attempts"
                 /\ new.attempts > MaxJobRetries
                 /\ new.attempts \in {s.attempts, s.attempts + 1}
              \/ /\ new.stage = "Queued" /\ new.worker = NoWorker
                 /\ new.result = s.result
                 /\ new.attempts <= MaxJobRetries
                 /\ new.attempts \in {s.attempts, s.attempts + 1}
PROOF
  <1> DEFINE new == Updated(s, w, u)
             attempts == s.attempts + (IF u = "Error" THEN 1 ELSE 0)
  <1>1. CASE u = "KeepAlive"
    <2>1. new = s
      BY <1>1 DEF Updated
    <2>2. QED
      BY <2>1
  <1>2. CASE u = "Executing"
    <2>1. new = [s EXCEPT !.stage = "Executing", !.worker = w]
      BY <1>2 DEF Updated
    <2>2. QED
      BY <1>2, <2>1 DEF AwaitedAction, Stages
  <1>3. CASE u = "Completed"
    <2>1. new = [s EXCEPT !.stage = "Completed", !.worker = w, !.result = "worker"]
      BY <1>3 DEF Updated
    <2>2. QED
      BY <2>1 DEF AwaitedAction, Stages, Results
  <1>4. CASE u \in {"Error", "Backpressure"}
    <2>1. new = WithError(s, w, u)
      BY <1>4 DEF Updated
    <2>2. attempts \in Nat /\ attempts \in {s.attempts, s.attempts + 1}
      BY DEF AwaitedAction
    <2>3. CASE attempts > MaxJobRetries
      <3>1. new = [s EXCEPT !.attempts = attempts, !.stage = "Completed",
                            !.worker = w, !.result = "too_many_attempts"]
        BY <2>1, <2>3 DEF WithError
      <3>2. QED
        BY <2>2, <2>3, <3>1 DEF AwaitedAction, Stages, Results
    <2>4. CASE ~(attempts > MaxJobRetries)
      <3>1. new = [s EXCEPT !.attempts = attempts, !.stage = "Queued",
                            !.worker = NoWorker]
        BY <2>1, <2>4 DEF WithError
      <3>2. attempts <= MaxJobRetries
        BY <2>2, <2>4, StateManagerAssumption
      <3>3. QED
        BY <2>2, <3>1, <3>2 DEF AwaitedAction, Stages
    <2>5. QED
      BY <2>3, <2>4
  <1>5. QED
    BY <1>1, <1>2, <1>3, <1>4 DEF Updates, WorkerUpdates

\* A write of inner_update_operation that the database accepts is legal: the
\* version check makes the copy that was read the record that is replaced.
LEMMA CommitIsLegal ==
    ASSUME IInv, NEW a \in Callers, call[a].pc = "commit",
           UpdateResult(call[a].op, Updated(call[a].snap, call[a].worker,
                                            call[a].update)) = "Ok"
    PROVE  /\ LegalWrite(call[a].op, Updated(call[a].snap, call[a].worker,
                                             call[a].update))
           /\ call[a].snap = awaited[call[a].op]
PROOF
  <1> DEFINE c == call[a]
             new == Updated(c.snap, c.worker, c.update)
  <1>1. /\ c \in Call /\ c.op \in used /\ used \subseteq Operations
        /\ c.snap \in AwaitedAction /\ c.update \in Updates
        /\ c.worker \in Workers \cup {NoWorker}
        /\ awaited[c.op] \in AwaitedAction
    BY DEF IInv, TypeOK, DbTypeOK, CallsSound, Call
  <1>2. c.op \in known /\ awaited[c.op].version = new.version
    BY DEF UpdateResult
  <1>3. /\ new \in AwaitedAction
        /\ new.key = c.snap.key
        /\ new.version = c.snap.version
    BY <1>1, UpdatedCases
  <1>4. c.snap = awaited[c.op] /\ ~IsFinished(c.snap)
    BY <1>2, <1>3 DEF IInv, SnapshotsCurrent
  <1>5. /\ c.snap.result = "none"
        /\ c.snap.attempts \in Nat /\ c.snap.attempts <= MaxJobRetries
        /\ c.snap.stage = "Queued" => c.snap.worker = NoWorker
        /\ c.snap.stage = "Executing" => c.snap.worker \in Workers
    BY <1>1, <1>4, StateManagerAssumption
       DEF IInv, DbInv, RecordsSound, ResultsMatchStage, AttemptsWithinLimit,
           WorkerMatchesStage, AwaitedAction
  <1>6. c.update = "Executing" => c.worker \in Workers
    BY DEF IInv, CallsSound
  <1>7. /\ IsFinished(new) <=> new.result # "none"
        /\ new.stage = "Queued" => new.worker = NoWorker
        /\ new.stage = "Executing" => new.worker \in Workers
        /\ new.attempts <= MaxJobRetries + 1
        /\ new.attempts > MaxJobRetries <=> new.result = "too_many_attempts"
    <2> HIDE DEF c, new
    <2>1. /\ new \in AwaitedAction
          /\ \/ new = c.snap
             \/ /\ c.update = "Executing"
                /\ new.stage = "Executing" /\ new.worker = c.worker
                /\ new.attempts = c.snap.attempts /\ new.result = c.snap.result
             \/ /\ new.stage = "Completed" /\ new.result = "worker"
                /\ new.attempts = c.snap.attempts
             \/ /\ new.stage = "Completed" /\ new.result = "too_many_attempts"
                /\ new.attempts > MaxJobRetries
                /\ new.attempts \in {c.snap.attempts, c.snap.attempts + 1}
             \/ /\ new.stage = "Queued" /\ new.worker = NoWorker
                /\ new.result = c.snap.result
                /\ new.attempts <= MaxJobRetries
                /\ new.attempts \in {c.snap.attempts, c.snap.attempts + 1}
      BY <1>1, UpdatedCases DEF new
    <2>2. new.attempts \in Nat
      BY <2>1 DEF AwaitedAction
    <2>3. QED
      BY <1>4, <1>5, <1>6, <2>1, <2>2, StateManagerAssumption DEF IsFinished
  <1>8. QED
    BY <1>2, <1>3, <1>4, <1>7 DEF LegalWrite

\* So is the write of a client timeout.
LEMMA FilterIsLegal ==
    ASSUME IInv, NEW a \in Callers, call[a].pc = "filter",
           UpdateResult(call[a].op, TimedOut(call[a].snap)) = "Ok"
    PROVE  /\ LegalWrite(call[a].op, TimedOut(call[a].snap))
           /\ call[a].snap = awaited[call[a].op]
PROOF
  <1> DEFINE c == call[a]
             new == TimedOut(c.snap)
  <1>1. /\ c \in Call /\ c.op \in used /\ used \subseteq Operations
        /\ c.snap \in AwaitedAction /\ awaited[c.op] \in AwaitedAction
    BY DEF IInv, TypeOK, DbTypeOK, CallsSound, Call
  <1>2. c.op \in known /\ awaited[c.op].version = new.version
    BY DEF UpdateResult
  <1>3. /\ new \in AwaitedAction
        /\ new.key = c.snap.key
        /\ new.version = c.snap.version
        /\ new.attempts = c.snap.attempts
        /\ new.result = "no_clients"
        /\ new.stage = "Completed"
    BY <1>1 DEF TimedOut, AwaitedAction, Stages, Results
  <1>4. c.snap = awaited[c.op] /\ ~IsFinished(c.snap)
    BY <1>2, <1>3 DEF IInv, SnapshotsCurrent
  <1>5. /\ c.snap.attempts \in Nat /\ c.snap.attempts <= MaxJobRetries
    BY <1>1, <1>4, StateManagerAssumption
       DEF IInv, DbInv, RecordsSound, ResultsMatchStage, AttemptsWithinLimit,
           AwaitedAction
  <1>6. QED
    BY <1>2, <1>3, <1>4, <1>5, StateManagerAssumption
       DEF LegalWrite, IsFinished

\* A legal write keeps the database sound: one record and its place in the
\* indexes change together.
LEMMA WriteKeepsDb ==
    ASSUME DbInv, NEW op, NEW new, LegalWrite(op, new),
           UpdateAwaitedAction(op, new)
    PROVE  DbInv'
PROOF
  <1> USE DEF LegalWrite
  <1> DEFINE rec == [new EXCEPT !.version = @ + 1]
  <1>1. /\ op \in known /\ op \in used /\ op \in Operations
        /\ used \subseteq Operations /\ known \subseteq used
        /\ awaited \in [Operations -> AwaitedAction]
        /\ awaited[op].stage \in Stages /\ new.stage \in Stages
    BY DEF DbInv, DbTypeOK, AwaitedAction
  <1>2. /\ rec \in AwaitedAction
        /\ rec.key = new.key /\ rec.stage = new.stage /\ rec.worker = new.worker
        /\ rec.attempts = new.attempts /\ rec.result = new.result
    BY DEF AwaitedAction
  <1> HIDE DEF rec
  <1>3. /\ awaited' = [awaited EXCEPT ![op] = rec]
        /\ UNCHANGED <<used, known, clientOp, mapped, expired, dropping, connected>>
    BY DEF UpdateAwaitedAction, rec
  <1>4. awaited'[op] = rec /\ \A o \in Operations : o # op => awaited'[o] = awaited[o]
    BY <1>1, <1>3
  <1>5. sorted' = Resorted(op, awaited[op].stage, new.stage)
    <2>1. CASE awaited[op].stage = new.stage
      <3>1. op \in sorted[new.stage]
        BY <1>1, <2>1 DEF DbInv, SortedInSync
      <3>2. sorted' = sorted
        BY <2>1 DEF UpdateAwaitedAction
      <3>3. QED
        BY <1>1, <2>1, <3>1, <3>2 DEF Resorted, DbInv, DbTypeOK
    <2>2. CASE awaited[op].stage # new.stage
      BY <2>2 DEF UpdateAwaitedAction
    <2>3. QED
      BY <2>1, <2>2
  <1>6. keyToOp' = ReleaseKey(new)
    BY DEF UpdateAwaitedAction, ReleaseKey, IsFinished
  <1>7. DbTypeOK'
    <2>1. awaited' \in [Operations -> AwaitedAction]
      BY <1>1, <1>2, <1>3
    <2>2. sorted' \in [Stages -> SUBSET Operations]
      BY <1>1, <1>5 DEF DbInv, DbTypeOK, Resorted
    <2>3. keyToOp' \in [Keys -> Operations \cup {NoOperation}]
      BY <1>6 DEF DbInv, DbTypeOK, ReleaseKey
    <2>4. QED
      BY <1>3, <2>1, <2>2, <2>3 DEF DbInv, DbTypeOK
  <1>8. RecordsSound'
    BY <1>1, <1>2, <1>3, <1>4
       DEF DbInv, RecordsSound, WorkerMatchesStage, AttemptsWithinLimit,
           ResultsMatchStage, IsFinished
  <1>9. SortedInSync'
    <2> SUFFICES ASSUME NEW s \in Stages
                 PROVE  sorted'[s] = {o \in known : awaited'[o].stage = s}
      BY <1>3 DEF SortedInSync
    <2>1. sorted[s] = {o \in known : awaited[o].stage = s}
      BY DEF DbInv, SortedInSync
    <2>2. sorted'[s] = IF s = new.stage THEN sorted[s] \cup {op}
                       ELSE IF s = awaited[op].stage THEN sorted[s] \ {op}
                       ELSE sorted[s]
      BY <1>1, <1>5, <2>1 DEF Resorted, DbInv, DbTypeOK
    <2>3. QED
      BY <1>1, <1>2, <1>4, <2>1, <2>2
  <1>10. KeyMapSound'
    <2> SUFFICES ASSUME NEW k \in Keys, keyToOp'[k] # NoOperation
                 PROVE  /\ keyToOp'[k] \in known
                        /\ awaited'[keyToOp'[k]].key = k
                        /\ ~IsFinished(awaited'[keyToOp'[k]])
      BY <1>3 DEF KeyMapSound, IsFinished
    <2>1. keyToOp'[k] = keyToOp[k] /\ ~(IsFinished(new) /\ new.key = k)
      BY <1>6, DbAssumption DEF ReleaseKey, DbInv, DbTypeOK
    <2>2. /\ keyToOp[k] \in known /\ awaited[keyToOp[k]].key = k
          /\ ~IsFinished(awaited[keyToOp[k]])
      BY <2>1 DEF DbInv, KeyMapSound
    <2>3. QED
      BY <1>1, <1>2, <1>4, <2>1, <2>2 DEF IsFinished
  <1>11. ClientsSound' /\ ConnectedCountsClients'
    BY <1>3 DEF DbInv, ClientsSound, ConnectedCountsClients, ClientsOf
  <1>12. QED
    BY <1>7, <1>8, <1>9, <1>10, <1>11 DEF DbInv

-----------------------------------------------------------------------------
(* The other steps of the database.  The clients of an operation are       *)
(* counted: joining adds one client to a finite set, and a drop removes    *)
(* one.                                                                    *)

\* Joining: c, which had no operation, becomes a client of op and of no other.
LEMMA InsertClientCounts ==
    ASSUME DbInv, NEW c \in Clients, NEW op \in Operations,
           clientOp[c] = NoOperation, InsertClient(c, op)
    PROVE  /\ mapped' \subseteq Clients /\ expired' \subseteq mapped'
           /\ dropping' \subseteq Clients
           /\ clientOp' \in [Clients -> Operations \cup {NoOperation}]
           /\ mapped' \cap dropping' = {}
           /\ \A d \in mapped' \cup dropping' :
                 clientOp'[d] = IF d = c THEN op ELSE clientOp[d]
           /\ \A d \in (mapped' \cup dropping') \ {c} : d \in mapped \cup dropping
           /\ ClientsOf(op)' = ClientsOf(op) \cup {c}
           /\ Cardinality(ClientsOf(op)') = Cardinality(ClientsOf(op)) + 1
           /\ \A o \in Operations \ {op} : ClientsOf(o)' = ClientsOf(o)
PROOF
  <1>1. /\ c \notin mapped \cup dropping
        /\ mapped \subseteq Clients /\ expired \subseteq mapped
        /\ dropping \subseteq Clients /\ mapped \cap dropping = {}
        /\ clientOp \in [Clients -> Operations \cup {NoOperation}]
    BY DbAssumption DEF DbInv, DbTypeOK, ClientsSound
  <1>2. /\ mapped' \cup dropping' = mapped \cup dropping \cup {c}
        /\ mapped' \cap dropping' = {}
        /\ expired' = {} /\ mapped' \subseteq Clients /\ dropping' \subseteq Clients
    BY <1>1 DEF InsertClient
  <1>3. clientOp' = [clientOp EXCEPT ![c] = op]
    BY DEF InsertClient
  <1>4. \A d \in Clients : clientOp'[d] = IF d = c THEN op ELSE clientOp[d]
    BY <1>1, <1>3
  <1>5. ClientsOf(op)' = ClientsOf(op) \cup {c} /\ c \notin ClientsOf(op)
    BY <1>1, <1>2, <1>4 DEF ClientsOf
  <1>6. \A o \in Operations \ {op} : ClientsOf(o)' = ClientsOf(o)
    BY <1>1, <1>2, <1>4, DbAssumption DEF ClientsOf
  <1>7. IsFiniteSet(ClientsOf(op))
    <2>1. ClientsOf(op) \subseteq Clients
      BY <1>1 DEF ClientsOf
    <2>2. QED
      BY <2>1, FS_Subset, DbAssumption
  <1>8. Cardinality(ClientsOf(op)') = Cardinality(ClientsOf(op)) + 1
    BY <1>5, <1>7, FS_AddElement
  <1>9. QED
    BY <1>1, <1>2, <1>3, <1>4, <1>5, <1>6, <1>8

\* try_subscribe: one more client for an operation that is there.
LEMMA TrySubscribeKeepsDb ==
    ASSUME DbInv, NEW c \in Clients, NEW k \in Keys \cup {NoKey}, TrySubscribe(c, k)
    PROVE  DbInv'
PROOF
  <1>1. PICK op \in Operations : op = keyToOp[k] /\ op \in known /\ op \in used
    BY DEF TrySubscribe, DbInv, DbTypeOK
  <1>2. /\ clientOp[c] = NoOperation /\ InsertClient(c, op)
        /\ connected' = [connected EXCEPT ![op] = @ + 1]
        /\ UNCHANGED <<used, known, awaited, sorted, keyToOp>>
    BY <1>1 DEF TrySubscribe
  <1>3. /\ mapped' \subseteq Clients /\ expired' \subseteq mapped'
        /\ dropping' \subseteq Clients
        /\ clientOp' \in [Clients -> Operations \cup {NoOperation}]
        /\ mapped' \cap dropping' = {}
        /\ \A d \in mapped' \cup dropping' :
              clientOp'[d] = IF d = c THEN op ELSE clientOp[d]
        /\ \A d \in (mapped' \cup dropping') \ {c} : d \in mapped \cup dropping
        /\ ClientsOf(op)' = ClientsOf(op) \cup {c}
        /\ Cardinality(ClientsOf(op)') = Cardinality(ClientsOf(op)) + 1
        /\ \A o \in Operations \ {op} : ClientsOf(o)' = ClientsOf(o)
    BY <1>1, <1>2, InsertClientCounts
  <1>4. connected' \in [Operations -> Nat]
    BY <1>1, <1>2 DEF DbInv, DbTypeOK
  <1>5. DbTypeOK'
    BY <1>2, <1>3, <1>4 DEF DbInv, DbTypeOK
  <1>6. RecordsSound' /\ SortedInSync' /\ KeyMapSound'
    BY <1>2 DEF DbInv, RecordsSound, WorkerMatchesStage, AttemptsWithinLimit,
               ResultsMatchStage, SortedInSync, KeyMapSound, IsFinished
  <1>7. ClientsSound'
    BY <1>1, <1>2, <1>3 DEF DbInv, ClientsSound
  <1>8. ConnectedCountsClients'
    <2>1. \A o \in Operations : connected'[o] = Cardinality(ClientsOf(o)')
      BY <1>1, <1>2, <1>3 DEF DbInv, DbTypeOK, ConnectedCountsClients
    <2>2. \A o \in Operations : o \in known' <=> ClientsOf(o)' # {}
      BY <1>1, <1>2, <1>3 DEF DbInv, ConnectedCountsClients
    <2>3. QED
      BY <2>1, <2>2 DEF ConnectedCountsClients
  <1>9. QED
    BY <1>5, <1>6, <1>7, <1>8 DEF DbInv

\* add_action: the new operation enters all indexes, with one client.
LEMMA AddNewActionKeepsDb ==
    ASSUME DbInv, NEW c \in Clients, NEW k \in Keys \cup {NoKey}, AddNewAction(c, k)
    PROVE  DbInv'
PROOF
  <1>1. PICK op \in Operations \ used :
          /\ used' = used \cup {op}
          /\ known' = known \cup {op}
          /\ awaited' = [awaited EXCEPT ![op] = NewAwaitedAction(k)]
          /\ connected' = [connected EXCEPT ![op] = 1]
          /\ InsertClient(c, op)
          /\ keyToOp' = IF k = NoKey THEN keyToOp ELSE [keyToOp EXCEPT ![k] = op]
          /\ sorted' = [sorted EXCEPT !["Queued"] = @ \cup {op}]
    BY DEF AddNewAction
  <1>2. /\ op \in Operations /\ op \notin used /\ op \notin known
        /\ used \subseteq Operations /\ known \subseteq used
        /\ awaited \in [Operations -> AwaitedAction]
        /\ clientOp[c] = NoOperation
    BY <1>1 DEF AddNewAction, DbInv, DbTypeOK
  <1>3. /\ mapped' \subseteq Clients /\ expired' \subseteq mapped'
        /\ dropping' \subseteq Clients
        /\ clientOp' \in [Clients -> Operations \cup {NoOperation}]
        /\ mapped' \cap dropping' = {}
        /\ \A d \in mapped' \cup dropping' :
              clientOp'[d] = IF d = c THEN op ELSE clientOp[d]
        /\ \A d \in (mapped' \cup dropping') \ {c} : d \in mapped \cup dropping
        /\ ClientsOf(op)' = ClientsOf(op) \cup {c}
        /\ Cardinality(ClientsOf(op)') = Cardinality(ClientsOf(op)) + 1
        /\ \A o \in Operations \ {op} : ClientsOf(o)' = ClientsOf(o)
    BY <1>1, <1>2, InsertClientCounts
  <1>4. /\ NewAwaitedAction(k) \in AwaitedAction
        /\ NewAwaitedAction(k).key = k /\ NewAwaitedAction(k).stage = "Queued"
        /\ NewAwaitedAction(k).worker = NoWorker
        /\ NewAwaitedAction(k).attempts = 0 /\ NewAwaitedAction(k).result = "none"
    BY DEF NewAwaitedAction, AwaitedAction, Stages, Results
  <1>5. /\ awaited'[op] = NewAwaitedAction(k)
        /\ \A o \in Operations : o # op => awaited'[o] = awaited[o]
    BY <1>1, <1>2
  <1>6. DbTypeOK'
    <2>1. awaited' \in [Operations -> AwaitedAction]
      BY <1>1, <1>2, <1>4
    <2>2. sorted' \in [Stages -> SUBSET Operations]
      BY <1>1, <1>2 DEF DbInv, DbTypeOK, Stages
    <2>3. keyToOp' \in [Keys -> Operations \cup {NoOperation}]
      BY <1>1, <1>2 DEF DbInv, DbTypeOK
    <2>4. connected' \in [Operations -> Nat]
      BY <1>1, <1>2 DEF DbInv, DbTypeOK
    <2>5. QED
      BY <1>1, <1>2, <1>3, <2>1, <2>2, <2>3, <2>4 DEF DbTypeOK
  <1>7. RecordsSound'
    BY <1>1, <1>2, <1>4, <1>5, StateManagerAssumption
       DEF DbInv, RecordsSound, WorkerMatchesStage, AttemptsWithinLimit,
           ResultsMatchStage, IsFinished
  <1>8. SortedInSync'
    <2> SUFFICES ASSUME NEW s \in Stages
                 PROVE  sorted'[s] = {o \in known' : awaited'[o].stage = s}
      BY DEF SortedInSync
    <2>1. sorted[s] = {o \in known : awaited[o].stage = s}
      BY DEF DbInv, SortedInSync
    <2>2. sorted'[s] = IF s = "Queued" THEN sorted[s] \cup {op} ELSE sorted[s]
      BY <1>1 DEF DbInv, DbTypeOK, Stages
    <2>3. QED
      BY <1>1, <1>2, <1>4, <1>5, <2>1, <2>2
  <1>9. KeyMapSound'
    <2> SUFFICES ASSUME NEW j \in Keys, keyToOp'[j] # NoOperation
                 PROVE  /\ keyToOp'[j] \in known'
                        /\ awaited'[keyToOp'[j]].key = j
                        /\ ~IsFinished(awaited'[keyToOp'[j]])
      BY DEF KeyMapSound, IsFinished
    <2>1. CASE j = k
      BY <1>1, <1>2, <1>4, <1>5, <2>1, DbAssumption
         DEF IsFinished, DbInv, DbTypeOK
    <2>2. CASE j # k
      <3>1. keyToOp'[j] = keyToOp[j]
        BY <1>1, <2>2 DEF DbInv, DbTypeOK
      <3>2. /\ keyToOp[j] \in known /\ awaited[keyToOp[j]].key = j
            /\ ~IsFinished(awaited[keyToOp[j]])
        BY <3>1 DEF DbInv, KeyMapSound
      <3>3. QED
        BY <1>1, <1>2, <1>5, <3>1, <3>2
    <2>3. QED
      BY <2>1, <2>2
  <1>10. ClientsSound'
    BY <1>1, <1>3 DEF DbInv, ClientsSound
  <1>11. ConnectedCountsClients'
    <2>1. ClientsOf(op) = {}
      BY <1>2 DEF DbInv, ConnectedCountsClients
    <2>2. Cardinality(ClientsOf(op)') = 1
      BY <1>3, <2>1, FS_EmptySet
    <2>3. \A o \in Operations : connected'[o] = Cardinality(ClientsOf(o)')
      BY <1>1, <1>2, <1>3, <2>2 DEF DbInv, DbTypeOK, ConnectedCountsClients
    <2>4. \A o \in Operations : o \in known' <=> ClientsOf(o)' # {}
      BY <1>1, <1>2, <1>3 DEF DbInv, ConnectedCountsClients
    <2>5. QED
      BY <2>3, <2>4 DEF ConnectedCountsClients
  <1>12. QED
    BY <1>6, <1>7, <1>8, <1>9, <1>10, <1>11 DEF DbInv

\* Dropping: c, whose event is handled, is a client no more.
LEMMA DropCounts ==
    ASSUME DbInv, NEW c \in dropping, dropping' = dropping \ {c},
           UNCHANGED <<clientOp, mapped>>
    PROVE  /\ clientOp[c] \in known
           /\ ClientsOf(clientOp[c]) # {}
           /\ \A op \in Operations :
                 IF op = clientOp[c]
                 THEN /\ ClientsOf(op)' = ClientsOf(op) \ {c}
                      /\ IsFiniteSet(ClientsOf(op)')
                      /\ Cardinality(ClientsOf(op)') = connected[op] - 1
                 ELSE ClientsOf(op)' = ClientsOf(op)
PROOF
  <1>1. /\ mapped \subseteq Clients /\ dropping \subseteq Clients
        /\ mapped \cap dropping = {} /\ clientOp[c] \in used
        /\ used \subseteq Operations /\ known \subseteq used
    BY DEF DbInv, DbTypeOK, ClientsSound
  <1>2. c \in ClientsOf(clientOp[c])
    BY DEF ClientsOf
  <1>3. clientOp[c] \in known
    BY <1>1, <1>2 DEF DbInv, ConnectedCountsClients
  <1>4. ASSUME NEW op \in Operations, op = clientOp[c]
        PROVE  /\ ClientsOf(op)' = ClientsOf(op) \ {c}
               /\ IsFiniteSet(ClientsOf(op)')
               /\ Cardinality(ClientsOf(op)') = connected[op] - 1
    <2>1. ClientsOf(op)' = ClientsOf(op) \ {c}
      BY <1>1 DEF ClientsOf
    <2>2. IsFiniteSet(ClientsOf(op))
      <3>1. ClientsOf(op) \subseteq Clients
        BY <1>1 DEF ClientsOf
      <3>2. QED
        BY <3>1, FS_Subset, DbAssumption
    <2>3. /\ IsFiniteSet(ClientsOf(op)')
          /\ Cardinality(ClientsOf(op)') = Cardinality(ClientsOf(op)) - 1
      BY <1>2, <1>4, <2>1, <2>2, FS_RemoveElement
    <2>4. QED
      BY <2>1, <2>3 DEF DbInv, ConnectedCountsClients
  <1>5. ASSUME NEW op \in Operations, op # clientOp[c]
        PROVE  ClientsOf(op)' = ClientsOf(op)
    BY <1>1, <1>5 DEF ClientsOf
  <1>6. QED
    BY <1>2, <1>3, <1>4, <1>5

\* ClientDroppedOperation with clients left: the count stays positive.
LEMMA DropOneOfManyKeepsDb ==
    ASSUME DbInv, NEW c \in Clients, DropOneOfMany(c)
    PROVE  DbInv'
PROOF
  <1>1. /\ c \in dropping /\ dropping' = dropping \ {c}
        /\ UNCHANGED <<used, known, awaited, sorted, keyToOp, clientOp, mapped,
                       expired>>
    BY DEF DropOneOfMany
  <1>2. PICK op \in Operations : op = clientOp[c] /\ op \in known
    BY <1>1, DropCounts DEF DbInv, DbTypeOK
  <1>3. /\ ClientsOf(op)' = ClientsOf(op) \ {c} /\ ClientsOf(op) # {}
        /\ IsFiniteSet(ClientsOf(op)')
        /\ Cardinality(ClientsOf(op)') = connected[op] - 1
        /\ \A o \in Operations \ {op} : ClientsOf(o)' = ClientsOf(o)
    BY <1>1, <1>2, DropCounts
  <1>4. /\ connected' = [connected EXCEPT ![op] = @ - 1]
        /\ connected[op] # 1 /\ connected[op] \in Nat
    BY <1>2 DEF DropOneOfMany, DbInv, DbTypeOK
  <1>5. connected[op] - 1 \in Nat /\ connected[op] - 1 # 0
    BY <1>3, <1>4, FS_CardinalityType
  <1>6. connected' \in [Operations -> Nat]
    BY <1>4, <1>5 DEF DbInv, DbTypeOK
  <1>7. DbTypeOK'
    BY <1>1, <1>6 DEF DbInv, DbTypeOK
  <1>8. RecordsSound' /\ SortedInSync' /\ KeyMapSound' /\ ClientsSound'
    BY <1>1 DEF DbInv, RecordsSound, WorkerMatchesStage, AttemptsWithinLimit,
               ResultsMatchStage, SortedInSync, KeyMapSound, ClientsSound,
               IsFinished
  <1>9. ConnectedCountsClients'
    <2>1. ClientsOf(op)' # {}
      BY <1>3, <1>5, FS_EmptySet
    <2>2. \A o \in Operations : connected'[o] = Cardinality(ClientsOf(o)')
      BY <1>3, <1>4 DEF DbInv, DbTypeOK, ConnectedCountsClients
    <2>3. \A o \in Operations : o \in known' <=> ClientsOf(o)' # {}
      BY <1>1, <1>2, <1>3, <2>1 DEF DbInv, ConnectedCountsClients
    <2>4. QED
      BY <2>2, <2>3 DEF ConnectedCountsClients
  <1>10. QED
    BY <1>7, <1>8, <1>9 DEF DbInv

\* ClientDroppedOperation of the last client: the operation leaves all indexes.
LEMMA DropLastKeepsDb ==
    ASSUME DbInv, NEW c \in Clients, DropLast(c)
    PROVE  DbInv'
PROOF
  <1>1. /\ c \in dropping /\ dropping' = dropping \ {c}
        /\ UNCHANGED <<used, awaited, clientOp, mapped, expired>>
    BY DEF DropLast
  <1>2. PICK op \in Operations : op = clientOp[c] /\ op \in known
    BY <1>1, DropCounts DEF DbInv, DbTypeOK
  <1>3. /\ ClientsOf(op)' = ClientsOf(op) \ {c}
        /\ IsFiniteSet(ClientsOf(op)')
        /\ Cardinality(ClientsOf(op)') = connected[op] - 1
        /\ \A o \in Operations \ {op} : ClientsOf(o)' = ClientsOf(o)
    BY <1>1, <1>2, DropCounts
  <1>4. /\ connected[op] = 1 /\ known' = known \ {op}
        /\ connected' = [connected EXCEPT ![op] = 0]
        /\ keyToOp' = IF awaited[op].key = NoKey THEN keyToOp
                      ELSE [keyToOp EXCEPT ![awaited[op].key] = NoOperation]
        /\ sorted' = [sorted EXCEPT ![awaited[op].stage] = @ \ {op}]
    BY <1>2 DEF DropLast
  <1>5. /\ awaited \in [Operations -> AwaitedAction]
        /\ used \subseteq Operations /\ known \subseteq used
        /\ awaited[op].stage \in Stages
    BY <1>2 DEF DbInv, DbTypeOK, AwaitedAction
  <1>6. DbTypeOK'
    BY <1>1, <1>4, <1>5 DEF DbInv, DbTypeOK
  <1>7. RecordsSound' /\ ClientsSound'
    BY <1>1 DEF DbInv, RecordsSound, WorkerMatchesStage, AttemptsWithinLimit,
               ResultsMatchStage, ClientsSound, IsFinished
  <1>8. SortedInSync'
    <2> SUFFICES ASSUME NEW s \in Stages
                 PROVE  sorted'[s] = {o \in known' : awaited[o].stage = s}
      BY <1>1 DEF SortedInSync
    <2>1. sorted[s] = {o \in known : awaited[o].stage = s}
      BY DEF DbInv, SortedInSync
    <2>2. sorted'[s] = IF s = awaited[op].stage THEN sorted[s] \ {op} ELSE sorted[s]
      BY <1>4, <1>5 DEF DbInv, DbTypeOK
    <2>3. QED
      BY <1>4, <2>1, <2>2
  <1>9. KeyMapSound'
    <2> SUFFICES ASSUME NEW k \in Keys, keyToOp'[k] # NoOperation
                 PROVE  /\ keyToOp'[k] \in known'
                        /\ awaited[keyToOp'[k]].key = k
                        /\ ~IsFinished(awaited[keyToOp'[k]])
      BY <1>1 DEF KeyMapSound, IsFinished
    <2>1. keyToOp'[k] = keyToOp[k] /\ awaited[op].key # k
      BY <1>4, DbAssumption DEF DbInv, DbTypeOK
    <2>2. QED
      BY <1>4, <2>1 DEF DbInv, KeyMapSound
  <1>10. ConnectedCountsClients'
    <2>1. Cardinality(ClientsOf(op)') = 0 /\ ClientsOf(op)' = {}
      BY <1>3, <1>4, FS_EmptySet
    <2>2. \A o \in Operations : connected'[o] = Cardinality(ClientsOf(o)')
      BY <1>3, <1>4, <2>1 DEF DbInv, DbTypeOK, ConnectedCountsClients
    <2>3. \A o \in Operations : o \in known' <=> ClientsOf(o)' # {}
      BY <1>3, <1>4, <2>1 DEF DbInv, ConnectedCountsClients
    <2>4. QED
      BY <2>2, <2>3 DEF ConnectedCountsClients
  <1>11. QED
    BY <1>6, <1>7, <1>8, <1>9, <1>10 DEF DbInv

\* Growing old and being evicted only move a client's entry.
LEMMA EntriesKeepDb ==
    ASSUME DbInv,
           \/ \E c \in Clients : ClientKeepAlive(c) \/ ClientEntryExpires(c)
           \/ GetAwaitedActionById
    PROVE  DbInv'
PROOF
  <1>1. /\ UNCHANGED <<used, known, awaited, sorted, keyToOp, clientOp, connected>>
        /\ mapped' \cup dropping' = mapped \cup dropping
        /\ mapped' \cap dropping' = {}
        /\ mapped' \subseteq Clients /\ dropping' \subseteq Clients
        /\ expired' \subseteq mapped'
    BY DEF ClientKeepAlive, ClientEntryExpires, GetAwaitedActionById, DbInv,
           DbTypeOK, ClientsSound
  <1>2. DbTypeOK' /\ ClientsSound'
    BY <1>1 DEF DbInv, DbTypeOK, ClientsSound
  <1>3. RecordsSound' /\ SortedInSync' /\ KeyMapSound'
    BY <1>1 DEF DbInv, RecordsSound, WorkerMatchesStage, AttemptsWithinLimit,
               ResultsMatchStage, SortedInSync, KeyMapSound, IsFinished
  <1>4. \A op \in Operations : ClientsOf(op)' = ClientsOf(op)
    BY <1>1 DEF ClientsOf
  <1>5. ConnectedCountsClients'
    BY <1>1, <1>4 DEF DbInv, ConnectedCountsClients
  <1>6. QED
    BY <1>2, <1>3, <1>5 DEF DbInv

-----------------------------------------------------------------------------
(* The step of the whole module.                                           *)

\* Records of operations that exist change only while they are unfinished,
\* and then their version moves on.
Advances ==
    /\ used \subseteq used'
    /\ \A op \in used :
          awaited'[op] # awaited[op] =>
             /\ op \in known
             /\ ~IsFinished(awaited[op])
             /\ awaited'[op].version = awaited[op].version + 1

\* A legal write advances one record.
LEMMA WriteAdvances ==
    ASSUME DbInv, NEW op, NEW new, LegalWrite(op, new),
           UpdateAwaitedAction(op, new)
    PROVE  Advances
PROOF
  <1>1. /\ op \in known /\ op \in Operations /\ used \subseteq Operations
        /\ awaited \in [Operations -> AwaitedAction] /\ new \in AwaitedAction
        /\ new.version = awaited[op].version /\ ~IsFinished(awaited[op])
    BY DEF LegalWrite, DbInv, DbTypeOK
  <1>2. /\ awaited' = [awaited EXCEPT ![op] = [new EXCEPT !.version = @ + 1]]
        /\ used' = used
    BY DEF UpdateAwaitedAction
  <1>3. [new EXCEPT !.version = @ + 1].version = new.version + 1
    BY <1>1 DEF AwaitedAction
  <1>4. QED
    BY <1>1, <1>2, <1>3 DEF Advances

\* Every step keeps the database sound and only advances records.
LEMMA StepKeepsDb ==
    ASSUME IInv, [OpenNext]_vars
    PROVE  DbInv' /\ Advances
PROOF
  <1>0. DbInv
    BY DEF IInv
  <1>1. ASSUME UNCHANGED dbVars
        PROVE  DbInv' /\ Advances
    <2>1. UNCHANGED <<used, known, awaited, sorted, keyToOp, clientOp, mapped,
                      expired, dropping, connected>>
      BY <1>1 DEF dbVars
    <2>2. \A op \in Operations : ClientsOf(op)' = ClientsOf(op)
      BY <2>1 DEF ClientsOf
    <2>3. DbTypeOK' /\ RecordsSound' /\ SortedInSync' /\ KeyMapSound'
          /\ ClientsSound' /\ ConnectedCountsClients'
      BY <1>0, <2>1, <2>2
         DEF DbInv, DbTypeOK, RecordsSound, WorkerMatchesStage,
             AttemptsWithinLimit, ResultsMatchStage, SortedInSync, KeyMapSound,
             ClientsSound, ConnectedCountsClients, IsFinished
    <2>4. QED
      BY <2>1, <2>3 DEF DbInv, Advances
  <1>2. ASSUME NEW a \in Callers, CommitOperation(a)
        PROVE  DbInv' /\ Advances
    BY <1>0, <1>2, CommitIsLegal, WriteKeepsDb, WriteAdvances
       DEF CommitOperation, UpdateAwaitedAction
  <1>3. ASSUME NEW a \in Callers, FilterCommits(a)
        PROVE  DbInv' /\ Advances
    <2>1. CASE UpdateResult(call[a].op, TimedOut(call[a].snap)) = "Ok"
      BY <1>0, <1>3, <2>1, FilterIsLegal, WriteKeepsDb, WriteAdvances
         DEF FilterCommits
    <2>2. CASE UpdateResult(call[a].op, TimedOut(call[a].snap)) # "Ok"
      BY <1>1, <1>3, <2>2 DEF FilterCommits
    <2>3. QED
      BY <2>1, <2>2
  <1>4. ASSUME DbStep
        PROVE  DbInv' /\ Advances
    <2>1. ASSUME NEW c \in Clients, NEW k \in Keys \cup {NoKey}, AddAction(c, k)
          PROVE  DbInv' /\ Advances
      <3>1. CASE TrySubscribe(c, k)
        BY <1>0, <3>1, TrySubscribeKeepsDb DEF TrySubscribe, Advances
      <3>2. CASE AddNewAction(c, k)
        <4>1. Advances
          BY <1>0, <3>2 DEF AddNewAction, Advances, DbInv, DbTypeOK
        <4>2. QED
          BY <1>0, <3>2, <4>1, AddNewActionKeepsDb
      <3>3. QED
        BY <2>1, <3>1, <3>2 DEF AddAction
    <2>2. ASSUME NEW c \in Clients, ClientDroppedOperation(c)
          PROVE  DbInv' /\ Advances
      BY <1>0, <2>2, DropOneOfManyKeepsDb, DropLastKeepsDb
         DEF ClientDroppedOperation, DropOneOfMany, DropLast, Advances
    <2>3. ASSUME \/ \E c \in Clients : ClientKeepAlive(c) \/ ClientEntryExpires(c)
                 \/ GetAwaitedActionById
          PROVE  DbInv' /\ Advances
      BY <1>0, <2>3, EntriesKeepDb
         DEF ClientKeepAlive, ClientEntryExpires, GetAwaitedActionById, Advances
    <2>4. QED
      BY <1>4, <2>1, <2>2, <2>3 DEF DbStep
  <1>5. ASSUME NEW a \in Callers, Begin(a)
        PROVE  UNCHANGED dbVars
    BY <1>5 DEF Begin, StartUpdate, StartTimeout, FilterReadsLapsed
  <1>6. ASSUME NEW a \in Callers, \/ ReadOperation(a) \/ CommitFails(a)
                                  \/ TimeoutOperationId(a) \/ Finish(a)
        PROVE  UNCHANGED dbVars
    BY <1>6 DEF ReadOperation, CommitFails, TimeoutOperationId, Finish
  <1>7. ASSUME NEW op \in Operations, ClientKeepaliveLapses(op)
        PROVE  UNCHANGED dbVars
    BY <1>7 DEF ClientKeepaliveLapses
  <1>8. CASE UNCHANGED vars
    BY <1>1, <1>8 DEF vars
  <1>9. QED
    BY <1>1, <1>2, <1>3, <1>4, <1>5, <1>6, <1>7, <1>8 DEF OpenNext, CallStep

-----------------------------------------------------------------------------
(* Calls in progress.                                                      *)

\* The part of the invariant about one caller.
CallOK(a) ==
    /\ call[a] \in Call
    /\ call[a].pc \in {"read", "commit", "timeout", "filter"} => call[a].op \in used
    /\ call[a].update = "Executing" => call[a].worker \in Workers
    /\ call[a].pc = "commit" => ~WorkerMismatch(call[a], call[a].snap)
    /\ call[a].pc \in {"commit", "filter"} =>
          /\ call[a].op \in used
          /\ ~IsFinished(call[a].snap)
          /\ call[a].snap.version <= awaited[call[a].op].version
          /\ call[a].snap.version = awaited[call[a].op].version
                => call[a].snap = awaited[call[a].op]

\* A call that does not move stays sound whatever the other tasks do.
LEMMA WaitingCallOK ==
    ASSUME IInv, DbInv', Advances, NEW b \in Callers, call'[b] = call[b]
    PROVE  CallOK(b)'
PROOF
  <1> DEFINE c == call[b]
  <1>1. /\ c \in Call
        /\ c.pc \in {"read", "commit", "timeout", "filter"} => c.op \in used
        /\ c.update = "Executing" => c.worker \in Workers
        /\ c.pc = "commit" => ~WorkerMismatch(c, c.snap)
        /\ c.snap \in AwaitedAction
        /\ used \subseteq Operations /\ used \subseteq used'
    BY DEF IInv, TypeOK, DbTypeOK, CallsSound, Call, Advances
  <1>2. ASSUME c.pc \in {"commit", "filter"}
        PROVE  /\ c.op \in used'
               /\ ~IsFinished(c.snap)
               /\ c.snap.version <= awaited'[c.op].version
               /\ c.snap.version = awaited'[c.op].version => c.snap = awaited'[c.op]
    <2>1. /\ c.op \in used
          /\ ~IsFinished(c.snap)
          /\ c.snap.version <= awaited[c.op].version
          /\ c.snap.version = awaited[c.op].version => c.snap = awaited[c.op]
      BY <1>2 DEF IInv, SnapshotsCurrent
    <2>2. c.snap.version \in Nat /\ awaited[c.op].version \in Nat
      BY <1>1, <2>1 DEF IInv, TypeOK, DbTypeOK, AwaitedAction
    <2>3. \/ awaited'[c.op] = awaited[c.op]
          \/ awaited'[c.op].version = awaited[c.op].version + 1
      BY <2>1 DEF Advances
    <2> HIDE DEF c
    <2>4. QED
      BY <1>1, <2>1, <2>2, <2>3
  <1>3. QED
    BY <1>1, <1>2 DEF CallOK, IsFinished, WorkerMismatch

\* A call that ended, or has no copy of a record yet, is sound.
LEMMA QuietCallOK ==
    ASSUME NEW b \in Callers, call'[b] \in Call,
           call'[b].pc \in {"read", "timeout"} => call'[b].op \in used',
           call'[b].pc \notin {"commit", "filter"},
           call'[b].update = "Executing" => call'[b].worker \in Workers
    PROVE  CallOK(b)'
PROOF BY DEF CallOK

\* A call that just copied the record of an unfinished action is sound.
LEMMA ReadingCallOK ==
    ASSUME IInv, UNCHANGED dbVars, NEW b \in Callers, call'[b] \in Call,
           call'[b].op \in used, ~IsFinished(awaited[call'[b].op]),
           call'[b].snap = awaited[call'[b].op],
           call'[b].pc = "commit" => ~WorkerMismatch(call'[b], call'[b].snap),
           call'[b].update = "Executing" => call'[b].worker \in Workers
    PROVE  CallOK(b)'
PROOF
  <1>1. used' = used /\ awaited' = awaited
    BY DEF dbVars
  <1>2. awaited[call'[b].op].version \in Nat
    BY DEF IInv, TypeOK, DbTypeOK, AwaitedAction
  <1>3. QED
    BY <1>1, <1>2 DEF CallOK, IsFinished, WorkerMismatch

\* Calls that are idle or have returned are well typed.
LEMMA NoCallFacts ==
    /\ NoCall \in Call /\ NoCall.pc = "idle" /\ NoCall.update = "KeepAlive"
    /\ NoCall.snap \in AwaitedAction
    /\ \A r \in {"Ok", "Aborted", "Internal", "NotFound"} :
          /\ Returned(r) \in Call
          /\ Returned(r).pc = "done"
          /\ Returned(r).update = "KeepAlive"
PROOF
  <1>1. NewAwaitedAction(NoKey) \in AwaitedAction
    BY DEF NewAwaitedAction, AwaitedAction, Stages, Results
  <1>2. QED
    BY <1>1 DEF NoCall, Returned, Call, Pcs, Updates, WorkerUpdates

\* One task's call moves, the others wait.
LEMMA OneCallMoves ==
    ASSUME IInv, DbInv', Advances, NEW a \in Callers, NEW x,
           call' = [call EXCEPT ![a] = x], CallOK(a)'
    PROVE  call' \in [Callers -> Call] /\ \A b \in Callers : CallOK(b)'
PROOF
  <1>1. call \in [Callers -> Call]
    BY DEF IInv, TypeOK
  <1>2. call'[a] = x /\ x \in Call
    BY <1>1 DEF CallOK
  <1>3. ASSUME NEW b \in Callers, b # a PROVE CallOK(b)'
    BY <1>1, <1>3, WaitingCallOK
  <1>4. QED
    BY <1>1, <1>2, <1>3

\* The moves of a call, action by action.
LEMMA MovedCallOK ==
    ASSUME IInv, DbInv', Advances, NEW a \in Callers,
           Begin(a) \/ CallStep(a) \/ Finish(a)
    PROVE  \E x : call' = [call EXCEPT ![a] = x] /\ CallOK(a)'
PROOF
  <1> DEFINE c == call[a]
  <1>0. /\ call \in [Callers -> Call] /\ c \in Call
        /\ used \subseteq Operations /\ known \subseteq used
        /\ lapsed \subseteq used /\ used \subseteq used'
        /\ awaited \in [Operations -> AwaitedAction]
        /\ c.pc \in {"read", "commit", "timeout", "filter"} => c.op \in used
        /\ c.update = "Executing" => c.worker \in Workers
    BY DEF IInv, TypeOK, DbTypeOK, CallsSound, Advances
  <1>1. ASSUME NEW r \in {"Ok", "Aborted", "Internal", "NotFound"},
               call' = [call EXCEPT ![a] = Returned(r)]
        PROVE  CallOK(a)'
    <2>1. call'[a] = Returned(r)
      BY <1>0, <1>1
    <2>2. QED
      BY <2>1, NoCallFacts, QuietCallOK
  <1>2. ASSUME NEW op \in used, NEW w \in Workers, NEW u \in Updates,
               StartUpdate(a, op, w, u)
        PROVE  \E x : call' = [call EXCEPT ![a] = x] /\ CallOK(a)'
    <2> DEFINE x == [NoCall EXCEPT !.pc = "read", !.op = op, !.worker = w,
                                   !.update = u]
    <2>1. /\ x \in Call /\ x.pc = "read" /\ x.op = op /\ x.worker = w
      BY <1>0, NoCallFacts DEF Call, Pcs
    <2> HIDE DEF x
    <2>2. call' = [call EXCEPT ![a] = x] /\ call'[a] = x
      BY <1>0, <1>2 DEF StartUpdate, x
    <2>3. QED
      BY <1>0, <2>1, <2>2, QuietCallOK
  <1>3. ASSUME NEW op \in used, StartTimeout(a, op)
        PROVE  \E x : call' = [call EXCEPT ![a] = x] /\ CallOK(a)'
    <2> DEFINE x == [NoCall EXCEPT !.pc = "timeout", !.op = op]
    <2>1. /\ x \in Call /\ x.pc = "timeout" /\ x.op = op
          /\ x.update = "KeepAlive"
      BY <1>0, NoCallFacts DEF Call, Pcs
    <2> HIDE DEF x
    <2>2. call' = [call EXCEPT ![a] = x] /\ call'[a] = x
      BY <1>0, <1>3 DEF StartTimeout, x
    <2>3. QED
      BY <1>0, <2>1, <2>2, QuietCallOK
  <1>4. ASSUME NEW op \in used, FilterReadsLapsed(a, op)
        PROVE  \E x : call' = [call EXCEPT ![a] = x] /\ CallOK(a)'
    <2>0. PICK rec \in AwaitedAction : rec = awaited[op]
      BY <1>0
    <2> DEFINE x == [NoCall EXCEPT !.pc = "filter", !.op = op, !.snap = rec]
    <2>1. /\ x \in Call /\ x.pc = "filter" /\ x.op = op /\ x.snap = rec
          /\ x.update = "KeepAlive"
      BY <1>0, NoCallFacts DEF Call, Pcs
    <2> HIDE DEF x
    <2>2. /\ call' = [call EXCEPT ![a] = x] /\ call'[a] = x
          /\ ~IsFinished(awaited[op]) /\ UNCHANGED dbVars
      BY <1>0, <1>4, <2>0 DEF FilterReadsLapsed, x
    <2>3. QED
      BY <2>0, <2>1, <2>2, ReadingCallOK
  <1>5. ASSUME ReadOperation(a)
        PROVE  \E x : call' = [call EXCEPT ![a] = x] /\ CallOK(a)'
    <2>0. PICK rec : rec = awaited[c.op]
      OBVIOUS
    <2>1. c.pc = "read" /\ UNCHANGED dbVars
      BY <1>5 DEF ReadOperation
    <2>2. CASE \E r \in {"Ok", "Aborted", "Internal"} :
                  call' = [call EXCEPT ![a] = Returned(r)]
      BY <1>1, <2>2
    <2>3. CASE /\ c.op \in known /\ ~IsFinished(rec) /\ ~WorkerMismatch(c, rec)
               /\ call' = [call EXCEPT ![a] = [c EXCEPT !.pc = "commit",
                                                        !.snap = rec]]
      <3>1. c.op \in used /\ rec \in AwaitedAction
        BY <1>0, <2>0, <2>1
      <3>2. call'[a] = [c EXCEPT !.pc = "commit", !.snap = rec]
        BY <1>0, <2>3
      <3>3. /\ call'[a] \in Call /\ call'[a].op = c.op /\ call'[a].snap = rec
            /\ call'[a].update = c.update /\ call'[a].worker = c.worker
        BY <1>0, <3>1, <3>2 DEF Call, Pcs
      <3>4. CallOK(a)'
        BY <1>0, <2>0, <2>1, <2>3, <3>1, <3>3, ReadingCallOK DEF WorkerMismatch
      <3>5. QED
        BY <2>3, <3>4
    <2>4. QED
      BY <1>5, <2>0, <2>2, <2>3 DEF ReadOperation
  <1>6. ASSUME CommitOperation(a)
        PROVE  \E x : call' = [call EXCEPT ![a] = x] /\ CallOK(a)'
    BY <1>1, <1>6 DEF CommitOperation
  <1>7. ASSUME CommitFails(a)
        PROVE  \E x : call' = [call EXCEPT ![a] = x] /\ CallOK(a)'
    <2> DEFINE x == [c EXCEPT !.pc = "read", !.tries = @ + 1, !.snap = NoCall.snap]
    <2>1. \/ call' = [call EXCEPT ![a] = x]
          \/ \E r \in {"Aborted", "Internal"} :
                call' = [call EXCEPT ![a] = Returned(r)]
      BY <1>7 DEF CommitFails, UpdateResult
    <2>2. CASE call' = [call EXCEPT ![a] = x]
      <3>1. c.pc = "commit"
        BY <1>7 DEF CommitFails
      <3>2. call'[a] = x
        BY <1>0, <2>2
      <3>3. /\ x \in Call /\ x.pc = "read" /\ x.op = c.op
            /\ x.update = c.update /\ x.worker = c.worker
        <4>1. NoCall.snap \in AwaitedAction /\ c.tries + 1 \in Nat /\ "read" \in Pcs
          BY <1>0, NoCallFacts DEF Call, Pcs
        <4> HIDE DEF c
        <4>2. QED
          BY <1>0, <4>1 DEF Call
      <3>4. CallOK(a)'
        BY <1>0, <3>1, <3>2, <3>3, QuietCallOK
      <3>5. QED
        BY <2>2, <3>4
    <2>3. QED
      BY <1>1, <2>1, <2>2
  <1>8. ASSUME TimeoutOperationId(a)
        PROVE  \E x : call' = [call EXCEPT ![a] = x] /\ CallOK(a)'
    <2> DEFINE x == [c EXCEPT !.pc = "read", !.update = "Error"]
    <2>1. \/ call' = [call EXCEPT ![a] = x]
          \/ \E r \in {"Ok", "NotFound"} :
                call' = [call EXCEPT ![a] = Returned(r)]
      BY <1>8 DEF TimeoutOperationId
    <2>2. CASE call' = [call EXCEPT ![a] = x]
      <3>1. c.pc = "timeout"
        BY <1>8 DEF TimeoutOperationId
      <3>2. call'[a] = x
        BY <1>0, <2>2
      <3>3. x \in Call /\ x.pc = "read" /\ x.op = c.op /\ x.update = "Error"
        BY <1>0 DEF Call, Pcs, Updates, WorkerUpdates
      <3>4. CallOK(a)'
        BY <1>0, <3>1, <3>2, <3>3, QuietCallOK
      <3>5. QED
        BY <2>2, <3>4
    <2>3. QED
      BY <1>1, <2>1, <2>2
  <1>9. ASSUME FilterCommits(a)
        PROVE  \E x : call' = [call EXCEPT ![a] = x] /\ CallOK(a)'
    BY <1>1, <1>9 DEF FilterCommits
  <1>10. ASSUME Finish(a)
         PROVE  \E x : call' = [call EXCEPT ![a] = x] /\ CallOK(a)'
    <2>1. call' = [call EXCEPT ![a] = NoCall] /\ call'[a] = NoCall
      BY <1>0, <1>10 DEF Finish
    <2>2. QED
      BY <2>1, NoCallFacts, QuietCallOK
  <1>11. QED
    BY <1>2, <1>3, <1>4, <1>5, <1>6, <1>7, <1>8, <1>9, <1>10 DEF Begin, CallStep

\* IInv holds initially ...
LEMMA InitEstablishes == Init => IInv
PROOF
  <1> SUFFICES ASSUME Init PROVE IInv
    OBVIOUS
  <1>1. NewAwaitedAction(NoKey) \in AwaitedAction
    BY DEF NewAwaitedAction, AwaitedAction, Stages, Results
  <1>2. DbTypeOK
    BY <1>1 DEF Init, DbInit, DbTypeOK
  <1>3. TypeOK
    BY <1>2, NoCallFacts DEF Init, TypeOK
  <1>4. \A op \in Operations : ClientsOf(op) = {} /\ Cardinality(ClientsOf(op)) = 0
    BY FS_EmptySet DEF Init, DbInit, ClientsOf
  <1>5. ConnectedCountsClients
    BY <1>4 DEF Init, DbInit, ConnectedCountsClients
  <1>6. RecordsSound /\ SortedInSync /\ KeyMapSound /\ ClientsSound
    BY DEF Init, DbInit, RecordsSound, WorkerMatchesStage, AttemptsWithinLimit,
           ResultsMatchStage, SortedInSync, KeyMapSound, ClientsSound
  <1>7. CallsSound /\ SnapshotsCurrent
    BY NoCallFacts DEF Init, CallsSound, SnapshotsCurrent
  <1>8. QED
    BY <1>2, <1>3, <1>5, <1>6, <1>7 DEF IInv, DbInv

\* ... and every step preserves it.
LEMMA StepPreserves == IInv /\ [OpenNext]_vars => IInv'
PROOF
  <1> SUFFICES ASSUME IInv, [OpenNext]_vars PROVE IInv'
    OBVIOUS
  <1>1. DbInv' /\ Advances
    BY StepKeepsDb
  <1>2. call' \in [Callers -> Call] /\ \A b \in Callers : CallOK(b)'
    <2>1. CASE \E a \in Callers : Begin(a) \/ CallStep(a) \/ Finish(a)
      BY <1>1, <2>1, MovedCallOK, OneCallMoves
    <2>2. CASE UNCHANGED call
      BY <1>1, <2>2, WaitingCallOK DEF IInv, TypeOK
    <2>3. QED
      BY <2>1, <2>2 DEF OpenNext, DbStep, ClientKeepaliveLapses, vars
  <1>3. lapsed' \subseteq used'
    <2>1. lapsed' = lapsed \/ \E op \in used : lapsed' = lapsed \cup {op}
      BY DEF OpenNext, Begin, StartUpdate, StartTimeout, FilterReadsLapsed, CallStep,
             ReadOperation, CommitOperation, CommitFails, TimeoutOperationId,
             FilterCommits, Finish, ClientKeepaliveLapses, DbStep, vars
    <2>2. QED
      BY <1>1, <2>1 DEF IInv, TypeOK, Advances
  <1>4. TypeOK' /\ CallsSound' /\ SnapshotsCurrent'
    BY <1>1, <1>2, <1>3 DEF DbInv, TypeOK, CallsSound, SnapshotsCurrent, CallOK
  <1>5. QED
    BY <1>1, <1>4 DEF IInv

\* So it is an invariant of the state manager over the in-memory database.
THEOREM InductiveInvariant == OpenSpec => []IInv
PROOF BY InitEstablishes, StepPreserves, PTL DEF OpenSpec

\* What TLC runs is the same with a bound, so what holds of the open module
\* holds of it.
LEMMA BoundedIsOpen == Spec => OpenSpec
PROOF
  <1>1. [Next]_vars => [OpenNext]_vars
    BY DEF Next
  <1>2. QED
    BY <1>1, PTL DEF Spec, OpenSpec

-----------------------------------------------------------------------------
\* Every reachable state is well typed; in particular the count of connected
\* clients, which handle_action_events decrements, never goes below zero.
THEOREM TypeCorrect == OpenSpec => []TypeOK
PROOF BY InductiveInvariant, PTL DEF IInv

\* The sorted sets mirror the stages of the operations in the map: the "out of
\* sync" errors of process_state_changes are unreachable.
THEOREM SortedSetsInSync == OpenSpec => []SortedInSync
PROOF BY InductiveInvariant, PTL DEF IInv, DbInv

\* A key leads to a live, unfinished operation of that key, so try_subscribe
\* never meets "Tried to subscribe to a completed action".
THEOREM KeysLeadToLiveOperations == OpenSpec => []KeyMapSound
PROOF BY InductiveInvariant, PTL DEF IInv, DbInv

\* The connected-client counts are exact: an operation is removed when, and
\* only when, the last of its clients is dropped.
THEOREM ClientCountsExact == OpenSpec => []ConnectedCountsClients
PROOF BY InductiveInvariant, PTL DEF IInv, DbInv

\* Optimistic concurrency is sound: a copy with the current version is the
\* current record.
THEOREM CopiesCurrent == OpenSpec => []SnapshotsCurrent
PROOF BY InductiveInvariant, PTL DEF IInv

\* A queued action has no worker and an executing one has one.
THEOREM WorkerFollowsStage == OpenSpec => []WorkerMatchesStage
PROOF BY InductiveInvariant, PTL DEF IInv, DbInv, RecordsSound

\* Attempts never pass the limit, and reach it only by giving up.
THEOREM AttemptsBounded == OpenSpec => []AttemptsWithinLimit
PROOF BY InductiveInvariant, PTL DEF IInv, DbInv, RecordsSound

\* No step of any task changes a completed action.
THEOREM CompletedStays == OpenSpec => CompletedIsFinal
PROOF
  <1>1. IInv /\ [OpenNext]_vars =>
          [\A op \in used : IsFinished(awaited[op]) => awaited'[op] = awaited[op]]_vars
    BY StepKeepsDb DEF Advances
  <1>2. QED
    BY <1>1, InductiveInvariant, PTL DEF OpenSpec, CompletedIsFinal

\* Only the owner of an executing action, a timeout or the client timeout
\* changes it.
THEOREM OwnerUpdates == OpenSpec => OnlyOwnerUpdates
PROOF
  <1> DEFINE Allowed(op) ==
        awaited[op].stage = "Executing" /\ awaited'[op] # awaited[op] =>
            \E a \in Callers :
                /\ call[a].op = op
                /\ \/ call[a].pc = "filter"
                   \/ /\ call[a].pc = "commit"
                      /\ call[a].worker \in {awaited[op].worker, NoWorker}
  <1>1. ASSUME IInv, [OpenNext]_vars, NEW op \in used
        PROVE  Allowed(op)
    <2> SUFFICES ASSUME awaited[op].stage = "Executing", awaited'[op] # awaited[op]
                 PROVE  \E a \in Callers :
                           /\ call[a].op = op
                           /\ \/ call[a].pc = "filter"
                              \/ /\ call[a].pc = "commit"
                                 /\ call[a].worker \in {awaited[op].worker, NoWorker}
      OBVIOUS
    <2>0. /\ op \in Operations /\ awaited \in [Operations -> AwaitedAction]
          /\ used \subseteq Operations /\ NoWorker \notin Workers
          /\ awaited[op].worker \in Workers
      BY <1>1, DbAssumption
         DEF IInv, DbInv, RecordsSound, WorkerMatchesStage, TypeOK, DbTypeOK
    <2>1. \/ \E a \in Callers : CommitOperation(a) \/ FilterCommits(a)
          \/ \E c \in Clients, k \in Keys \cup {NoKey} : AddNewAction(c, k)
      BY <1>1
         DEF OpenNext, Begin, StartUpdate, StartTimeout, FilterReadsLapsed, CallStep,
             ReadOperation, CommitFails, TimeoutOperationId, Finish,
             ClientKeepaliveLapses, DbStep, AddAction, TrySubscribe,
             ClientDroppedOperation, DropOneOfMany, DropLast, ClientKeepAlive,
             ClientEntryExpires, GetAwaitedActionById, vars, dbVars
    <2>2. ASSUME NEW c \in Clients, NEW k \in Keys \cup {NoKey}, AddNewAction(c, k)
          PROVE  FALSE
      BY <2>0, <2>2 DEF AddNewAction
    <2>3. ASSUME NEW a \in Callers, CommitOperation(a)
          PROVE  /\ call[a].op = op /\ call[a].pc = "commit"
                 /\ call[a].worker \in {awaited[op].worker, NoWorker}
      <3>1. /\ call[a].pc = "commit" /\ call[a].op = op
            /\ UpdateResult(call[a].op, Updated(call[a].snap, call[a].worker,
                                                call[a].update)) = "Ok"
        BY <2>0, <2>3 DEF CommitOperation, UpdateAwaitedAction
      <3>2. call[a].snap = awaited[op]
        BY <1>1, <3>1, CommitIsLegal
      <3>3. ~WorkerMismatch(call[a], call[a].snap)
        BY <1>1, <3>1 DEF IInv, CallsSound
      <3>4. QED
        BY <2>0, <3>1, <3>2, <3>3 DEF WorkerMismatch
    <2>4. ASSUME NEW a \in Callers, FilterCommits(a)
          PROVE  call[a].op = op /\ call[a].pc = "filter"
      BY <2>0, <2>4 DEF FilterCommits, UpdateAwaitedAction, dbVars
    <2>5. QED
      BY <2>1, <2>2, <2>3, <2>4
  <1>2. IInv /\ [OpenNext]_vars => [\A op \in used : Allowed(op)]_vars
    BY <1>1
  <1>3. QED
    BY <1>2, InductiveInvariant, PTL DEF OpenSpec, OnlyOwnerUpdates

-----------------------------------------------------------------------------
(* Refinement: the state manager implements OperationLifecycle.            *)

life == [op \in Operations |-> LifeOf(op)]

\* Nothing the abstract operation shows has changed.
LEMMA LifeUnchanged ==
    ASSUME UNCHANGED <<used, known, awaited>>
    PROVE  life' = life
PROOF BY DEF life, LifeOf

\* Only one operation has changed.
LEMMA LifeChangesAt ==
    ASSUME NEW op \in Operations,
           \A o \in Operations \ {op} :
              /\ o \in used' <=> o \in used
              /\ o \in known' <=> o \in known
              /\ awaited'[o] = awaited[o]
    PROVE  life' = [life EXCEPT ![op] = LifeOf(op)']
PROOF
  <1>1. \A o \in Operations \ {op} : LifeOf(o)' = LifeOf(o)
    BY DEF LifeOf
  <1>2. QED
    BY <1>1 DEF life

\* A legal write that moves the record of op: what the abstract operation
\* shows before and after.
LEMMA WriteChangesLife ==
    ASSUME DbInv, NEW op, NEW new, LegalWrite(op, new),
           UpdateAwaitedAction(op, new)
    PROVE  /\ op \in Operations /\ awaited[op].stage \in {"Queued", "Executing"}
           /\ life[op] = [stage |-> awaited[op].stage,
                          owner |-> IF awaited[op].stage = "Executing"
                                    THEN awaited[op].worker ELSE NoWorker,
                          attempts |-> awaited[op].attempts]
           /\ life' = [life EXCEPT ![op] =
                         [stage |-> new.stage,
                          owner |-> IF new.stage = "Executing"
                                    THEN new.worker ELSE NoWorker,
                          attempts |-> new.attempts]]
PROOF
  <1>1. /\ op \in known /\ op \in Operations
        /\ awaited \in [Operations -> AwaitedAction] /\ new \in AwaitedAction
        /\ ~IsFinished(awaited[op])
    BY DEF LegalWrite, DbInv, DbTypeOK
  <1>2. /\ awaited' = [awaited EXCEPT ![op] = [new EXCEPT !.version = @ + 1]]
        /\ UNCHANGED <<used, known>>
    BY DEF UpdateAwaitedAction
  <1>3. /\ awaited'[op].stage = new.stage /\ awaited'[op].worker = new.worker
        /\ awaited'[op].attempts = new.attempts
    BY <1>1, <1>2 DEF AwaitedAction
  <1>4. life' = [life EXCEPT ![op] = LifeOf(op)']
    BY <1>1, <1>2, LifeChangesAt
  <1>5. LifeOf(op)' = [stage |-> new.stage,
                       owner |-> IF new.stage = "Executing"
                                 THEN new.worker ELSE NoWorker,
                       attempts |-> new.attempts]
    BY <1>1, <1>2, <1>3 DEF LifeOf
  <1>6. awaited[op].stage \in {"Queued", "Executing"}
    BY <1>1 DEF IsFinished, AwaitedAction, Stages
  <1>7. QED
    BY <1>1, <1>4, <1>5, <1>6 DEF life, LifeOf

\* How a change of life at op is an action of the abstract specification.
LEMMA LifeSteps ==
    ASSUME NEW op \in Operations, NEW stage, NEW owner, NEW attempts,
           life' = [life EXCEPT ![op] = [stage |-> stage, owner |-> owner,
                                         attempts |-> attempts]]
    PROVE  /\ /\ life[op].stage = "Queued" /\ stage = "Executing"
              /\ attempts = life[op].attempts
              => Lifecycle!Assign(op, owner)
           /\ /\ life[op].stage \in {"Queued", "Executing"}
              /\ life[op].attempts < MaxJobRetries
              /\ stage = "Queued" /\ owner = NoWorker
              /\ attempts = life[op].attempts + 1
              => Lifecycle!Retry(op)
           /\ /\ life[op].stage \in {"Queued", "Executing"}
              /\ life[op].attempts = MaxJobRetries
              /\ stage = "Completed" /\ owner = NoWorker
              /\ attempts = life[op].attempts + 1
              => Lifecycle!GiveUp(op)
           /\ /\ life[op].stage = "Executing" /\ stage = "Queued"
              /\ owner = NoWorker /\ attempts = life[op].attempts
              => Lifecycle!HandBack(op)
           /\ /\ life[op].stage \in {"Queued", "Executing"}
              /\ stage = "Completed" /\ owner = NoWorker
              /\ attempts = life[op].attempts
              => Lifecycle!Complete(op)
PROOF BY DEF life, Lifecycle!Assign, Lifecycle!Retry, Lifecycle!GiveUp,
             Lifecycle!HandBack, Lifecycle!Complete, Lifecycle!Unfinished,
             Lifecycle!Become, Lifecycle!Life

\* The same for a legal write, in terms of the records.
LEMMA WriteSteps ==
    ASSUME DbInv, NEW op, NEW new, LegalWrite(op, new),
           UpdateAwaitedAction(op, new)
    PROVE  /\ op \in Operations /\ awaited[op].stage \in {"Queued", "Executing"}
           /\ /\ awaited[op].stage = "Queued" /\ new.stage = "Executing"
              /\ new.attempts = awaited[op].attempts
              => \E w \in Workers : Lifecycle!Assign(op, w)
           /\ /\ awaited[op].attempts < MaxJobRetries /\ new.stage = "Queued"
              /\ new.attempts = awaited[op].attempts + 1
              => Lifecycle!Retry(op)
           /\ /\ awaited[op].attempts = MaxJobRetries /\ new.stage = "Completed"
              /\ new.attempts = awaited[op].attempts + 1
              => Lifecycle!GiveUp(op)
           /\ /\ awaited[op].stage = "Executing" /\ new.stage = "Queued"
              /\ new.attempts = awaited[op].attempts
              => Lifecycle!HandBack(op)
           /\ new.stage = "Completed" /\ new.attempts = awaited[op].attempts
              => Lifecycle!Complete(op)
PROOF
  <1>1. PICK stage, owner, attempts :
          /\ stage = new.stage /\ attempts = new.attempts
          /\ owner = IF new.stage = "Executing" THEN new.worker ELSE NoWorker
    OBVIOUS
  <1>2. /\ op \in Operations /\ awaited[op].stage \in {"Queued", "Executing"}
        /\ life[op].stage = awaited[op].stage
        /\ life[op].attempts = awaited[op].attempts
    <2>1. /\ op \in Operations /\ awaited[op].stage \in {"Queued", "Executing"}
          /\ life[op] = [stage |-> awaited[op].stage,
                         owner |-> IF awaited[op].stage = "Executing"
                                   THEN awaited[op].worker ELSE NoWorker,
                         attempts |-> awaited[op].attempts]
      BY WriteChangesLife
    <2>2. QED
      BY <2>1
  <1>3. life' = [life EXCEPT ![op] = [stage |-> stage, owner |-> owner,
                                      attempts |-> attempts]]
    BY <1>1, WriteChangesLife
  <1>4. /\ /\ life[op].stage = "Queued" /\ stage = "Executing"
           /\ attempts = life[op].attempts
           => Lifecycle!Assign(op, owner)
        /\ /\ life[op].stage \in {"Queued", "Executing"}
           /\ life[op].attempts < MaxJobRetries
           /\ stage = "Queued" /\ owner = NoWorker
           /\ attempts = life[op].attempts + 1
           => Lifecycle!Retry(op)
        /\ /\ life[op].stage \in {"Queued", "Executing"}
           /\ life[op].attempts = MaxJobRetries
           /\ stage = "Completed" /\ owner = NoWorker
           /\ attempts = life[op].attempts + 1
           => Lifecycle!GiveUp(op)
        /\ /\ life[op].stage = "Executing" /\ stage = "Queued"
           /\ owner = NoWorker /\ attempts = life[op].attempts
           => Lifecycle!HandBack(op)
        /\ /\ life[op].stage \in {"Queued", "Executing"}
           /\ stage = "Completed" /\ owner = NoWorker
           /\ attempts = life[op].attempts
           => Lifecycle!Complete(op)
    BY <1>2, <1>3, LifeSteps, Zenon
  <1>5. stage = "Executing" => owner \in Workers
    BY <1>1 DEF LegalWrite
  <1>6. stage # "Executing" => owner = NoWorker
    BY <1>1
  <1>7. QED
    BY <1>1, <1>2, <1>4, <1>5, <1>6

\* Each of the writes of inner_update_operation is one abstract step.
LEMMA CommitRefines ==
    ASSUME IInv, NEW a \in Callers, CommitOperation(a)
    PROVE  Lifecycle!Next \/ life' = life
PROOF
  <1>0. PICK c \in Call : c = call[a]
    BY DEF IInv, TypeOK
  <1>1. PICK op : op = c.op
    OBVIOUS
  <1>2. PICK old : old = c.snap
    OBVIOUS
  <1>3. PICK new : new = Updated(old, c.worker, c.update)
    OBVIOUS
  <1>4. /\ UpdateAwaitedAction(op, new) /\ c.pc = "commit"
        /\ UpdateResult(op, new) = "Ok"
    BY <1>0, <1>1, <1>2, <1>3 DEF CommitOperation, UpdateAwaitedAction
  <1>5. LegalWrite(op, new) /\ old = awaited[op]
    BY <1>0, <1>1, <1>2, <1>3, <1>4, CommitIsLegal
  <1>6. /\ op \in Operations /\ old.stage \in {"Queued", "Executing"}
        /\ /\ old.stage = "Queued" /\ new.stage = "Executing"
           /\ new.attempts = old.attempts
           => \E w \in Workers : Lifecycle!Assign(op, w)
        /\ /\ old.attempts < MaxJobRetries /\ new.stage = "Queued"
           /\ new.attempts = old.attempts + 1
           => Lifecycle!Retry(op)
        /\ /\ old.attempts = MaxJobRetries /\ new.stage = "Completed"
           /\ new.attempts = old.attempts + 1
           => Lifecycle!GiveUp(op)
        /\ /\ old.stage = "Executing" /\ new.stage = "Queued"
           /\ new.attempts = old.attempts
           => Lifecycle!HandBack(op)
        /\ new.stage = "Completed" /\ new.attempts = old.attempts
           => Lifecycle!Complete(op)
    BY <1>4, <1>5, WriteSteps DEF IInv
  <1>6a. /\ life[op] = [stage |-> old.stage,
                       owner |-> IF old.stage = "Executing"
                                 THEN old.worker ELSE NoWorker,
                       attempts |-> old.attempts]
        /\ life' = [life EXCEPT ![op] =
                      [stage |-> new.stage,
                       owner |-> IF new.stage = "Executing"
                                 THEN new.worker ELSE NoWorker,
                       attempts |-> new.attempts]]
    BY <1>4, <1>5, WriteChangesLife DEF IInv
  <1>7. /\ old \in AwaitedAction /\ c.worker \in Workers \cup {NoWorker}
        /\ c.update \in Updates /\ old.attempts \in Nat
    BY <1>0, <1>2 DEF Call, AwaitedAction
  <1>8. /\ old.attempts <= MaxJobRetries
        /\ old.stage = "Executing" => old.worker \in Workers
        /\ old.stage = "Queued" => old.worker = NoWorker
    BY <1>5, <1>7, StateManagerAssumption
       DEF IInv, DbInv, RecordsSound, ResultsMatchStage, AttemptsWithinLimit,
           WorkerMatchesStage, LegalWrite, DbTypeOK
  <1>9. CASE new = old
    BY <1>6, <1>6a, <1>9 DEF life
  <1>10. CASE /\ c.update = "Executing"
              /\ new.stage = "Executing" /\ new.worker = c.worker
              /\ new.attempts = old.attempts
    <2>1. c.worker \in Workers /\ ~WorkerMismatch(c, old)
      BY <1>0, <1>2, <1>4, <1>10 DEF IInv, CallsSound
    <2>2. CASE old.stage = "Queued"
      <3>1. \E w \in Workers : Lifecycle!Assign(op, w)
        BY <1>5, <1>6, <1>10, <2>2
      <3>2. QED
        BY <1>6, <3>1 DEF Lifecycle!Next
    <2>3. CASE old.stage = "Executing"
      <3>1. old.worker = c.worker
        BY <1>8, <2>1, <2>3, DbAssumption DEF WorkerMismatch
      <3>2. QED
        BY <1>6, <1>6a, <1>10, <2>3, <3>1 DEF life
    <2>4. QED
      BY <1>6, <2>2, <2>3
  <1>11. CASE new.stage = "Completed" /\ new.attempts = old.attempts
    <2>1. Lifecycle!Complete(op)
      BY <1>5, <1>6, <1>11
    <2>2. QED
      BY <1>6, <2>1 DEF Lifecycle!Next
  <1>12. CASE /\ new.stage = "Completed" /\ new.attempts > MaxJobRetries
              /\ new.attempts \in {old.attempts, old.attempts + 1}
    <2>1. new.attempts = old.attempts + 1 /\ old.attempts = MaxJobRetries
      BY <1>7, <1>8, <1>12, StateManagerAssumption
    <2>2. Lifecycle!GiveUp(op)
      BY <1>5, <1>6, <1>12, <2>1
    <2>3. QED
      BY <1>6, <2>2 DEF Lifecycle!Next
  <1>13. CASE /\ new.stage = "Queued" /\ new.attempts <= MaxJobRetries
              /\ new.attempts \in {old.attempts, old.attempts + 1}
    <2>1. CASE new.attempts = old.attempts + 1
      <3>1. old.attempts < MaxJobRetries
        BY <1>7, <1>13, <2>1, StateManagerAssumption
      <3>2. Lifecycle!Retry(op)
        BY <1>5, <1>6, <1>13, <2>1, <3>1
      <3>3. QED
        BY <1>6, <3>2 DEF Lifecycle!Next
    <2>2. CASE new.attempts = old.attempts /\ old.stage = "Executing"
      <3>1. Lifecycle!HandBack(op)
        BY <1>5, <1>6, <1>13, <2>2
      <3>2. QED
        BY <1>6, <3>1 DEF Lifecycle!Next
    <2>3. CASE new.attempts = old.attempts /\ old.stage = "Queued"
      BY <1>6, <1>6a, <1>13, <2>3 DEF life
    <2>4. QED
      BY <1>6, <1>13, <2>1, <2>2, <2>3
  <1>14. QED
    BY <1>3, <1>7, <1>9, <1>10, <1>11, <1>12, <1>13, UpdatedCases

\* Every step is an abstract step, or one that the abstraction does not show.
LEMMA StepRefines ==
    ASSUME IInv, [OpenNext]_vars
    PROVE  Lifecycle!Next \/ life' = life
PROOF
  <1>0. /\ DbInv /\ known \subseteq used /\ used \subseteq Operations
        /\ awaited \in [Operations -> AwaitedAction]
    BY DEF IInv, DbInv, DbTypeOK
  <1>1. ASSUME NEW a \in Callers, CommitOperation(a)
        PROVE  Lifecycle!Next \/ life' = life
    BY <1>1, CommitRefines
  <1>2. ASSUME NEW a \in Callers, FilterCommits(a)
        PROVE  Lifecycle!Next \/ life' = life
    <2>1. CASE UpdateResult(call[a].op, TimedOut(call[a].snap)) = "Ok"
      <3>1. PICK op, new : op = call[a].op /\ new = TimedOut(call[a].snap)
        OBVIOUS
      <3>2. /\ LegalWrite(op, new) /\ UpdateAwaitedAction(op, new)
            /\ call[a].snap = awaited[op] /\ call[a].snap \in AwaitedAction
        BY <1>2, <2>1, <3>1, FilterIsLegal
           DEF FilterCommits, IInv, TypeOK, Call
      <3>3. new.stage = "Completed" /\ new.attempts = awaited[op].attempts
        BY <3>1, <3>2 DEF TimedOut, AwaitedAction
      <3>4. op \in Operations /\ Lifecycle!Complete(op)
        BY <1>0, <3>2, <3>3, WriteSteps
      <3>5. QED
        BY <3>4 DEF Lifecycle!Next
    <2>2. CASE UpdateResult(call[a].op, TimedOut(call[a].snap)) # "Ok"
      BY <1>2, <2>2, LifeUnchanged DEF FilterCommits, dbVars
    <2>3. QED
      BY <2>1, <2>2
  <1>3. ASSUME NEW c \in Clients, NEW k \in Keys \cup {NoKey}, AddNewAction(c, k)
        PROVE  Lifecycle!Next
    <2>1. PICK op \in Operations \ used :
            /\ used' = used \cup {op} /\ known' = known \cup {op}
            /\ awaited' = [awaited EXCEPT ![op] = NewAwaitedAction(k)]
      BY <1>3 DEF AddNewAction
    <2>2. life' = [life EXCEPT ![op] = LifeOf(op)']
      BY <1>0, <2>1, LifeChangesAt
    <2>3. /\ LifeOf(op)' = [stage |-> "Queued", owner |-> NoWorker, attempts |-> 0]
          /\ life[op].stage = "Absent"
      BY <1>0, <2>1 DEF LifeOf, NewAwaitedAction, life
    <2>4. Lifecycle!Create(op)
      BY <2>2, <2>3 DEF Lifecycle!Create, Lifecycle!Become, Lifecycle!Life, life
    <2>5. QED
      BY <2>4 DEF Lifecycle!Next
  <1>4. ASSUME NEW c \in Clients, DropLast(c)
        PROVE  Lifecycle!Next
    <2>1. PICK op \in Operations : /\ op = clientOp[c] /\ op \in known
                                   /\ known' = known \ {op}
                                   /\ UNCHANGED <<used, awaited>>
      BY <1>0, <1>4 DEF DropLast
    <2>2. life' = [life EXCEPT ![op] = LifeOf(op)']
      BY <2>1, LifeChangesAt
    <2>3. /\ LifeOf(op)' = [stage |-> "Removed", owner |-> NoWorker, attempts |-> 0]
          /\ life[op].stage \in Stages
      BY <1>0, <2>1 DEF LifeOf, life, AwaitedAction
    <2>4. Lifecycle!Remove(op)
      BY <2>2, <2>3 DEF Lifecycle!Remove, Lifecycle!Unfinished,
                        Lifecycle!Become, Lifecycle!Life, life, Stages
    <2>5. QED
      BY <2>4 DEF Lifecycle!Next
  <1>5. \/ \E a \in Callers : CommitOperation(a) \/ FilterCommits(a)
        \/ \E c \in Clients, k \in Keys \cup {NoKey} : AddNewAction(c, k)
        \/ \E c \in Clients : DropLast(c)
        \/ UNCHANGED <<used, known, awaited>>
    BY DEF OpenNext, Begin, StartUpdate, StartTimeout, FilterReadsLapsed, CallStep,
           ReadOperation, CommitFails, TimeoutOperationId, Finish,
           ClientKeepaliveLapses, DbStep, AddAction, TrySubscribe,
           ClientDroppedOperation, DropOneOfMany, ClientKeepAlive,
           ClientEntryExpires, GetAwaitedActionById, vars, dbVars
  <1>6. QED
    BY <1>1, <1>2, <1>3, <1>4, <1>5, LifeUnchanged

\* The state manager with its optimistic writes, indexes and clients, called
\* by any number of tasks, implements the abstract life of an operation.
THEOREM RefinesLifecycle == OpenSpec => ImplementsLifecycle
PROOF
  <1>1. Init => Lifecycle!Init
    BY DEF Init, DbInit, Lifecycle!Init, Lifecycle!Life, LifeOf
  <1>2. IInv /\ [OpenNext]_vars => [Lifecycle!Next]_life
    BY StepRefines
  <1>3. QED
    BY <1>1, <1>2, InductiveInvariant, PTL
       DEF OpenSpec, ImplementsLifecycle, Lifecycle!Spec, life
=============================================================================
