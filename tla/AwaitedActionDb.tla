--------------------------- MODULE AwaitedActionDb ---------------------------
(***************************************************************************)
(* The in-memory database of awaited actions,                              *)
(* nativelink-scheduler/src/memory_awaited_action_db.rs, together with the *)
(* AwaitedAction record it stores (awaited_action_db/awaited_action.rs).   *)
(*                                                                         *)
(* Every method of MemoryAwaitedActionDb takes the one async mutex for its *)
(* whole body, so each method is one atomic action here.  Two activities   *)
(* of the database run outside its callers: the event loop that handles    *)
(* ClientDroppedOperation and ClientKeepAlive, and the passage of time,    *)
(* which makes an entry of the client EvictingMap old enough to evict.     *)
(*                                                                         *)
(* This module has the state, the initial state and the actions; the       *)
(* module SimpleSchedulerStateManager, the database's only caller, has the *)
(* next-state relation.                                                    *)
(***************************************************************************)
EXTENDS Integers, FiniteSets

CONSTANTS
    Operations,     \* operation ids (OperationId::default() mints a new one)
    Clients,        \* client operation ids, a fresh one for every Execute
    Keys,           \* ActionUniqueKeys of cachable actions
    Workers,        \* worker ids
    NoOperation,    \* no entry in a map from something to an operation id
    NoWorker,       \* worker_id = None
    NoKey           \* the qualifier ActionUniqueQualifier::Uncachable

ASSUME DbAssumption ==
    /\ NoOperation \notin Operations
    /\ NoWorker \notin Workers
    /\ NoKey \notin Keys
    /\ IsFiniteSet(Clients)

VARIABLES
    used,       \* operation ids already minted
    known,      \* keys of operation_id_to_awaited_action
    awaited,    \* operation -> content of its watch channel, which keeps
                \*   its last value for the subscribers of a removed operation
    sorted,     \* sorted_action_info_hash_keys: stage -> set of operations
    keyToOp,    \* action_info_hash_key_to_awaited_action
    clientOp,   \* client -> operation of its ClientAwaitedAction
    mapped,     \* keys of client_operation_to_awaited_action
    expired,    \* the entries of mapped that are past max_seconds
    dropping,   \* clients whose ClientDroppedOperation is in the event channel
    connected   \* connected_clients_for_operation_id, 0 for no entry

dbVars == <<used, known, awaited, sorted, keyToOp,
            clientOp, mapped, expired, dropping, connected>>

-----------------------------------------------------------------------------
(* The AwaitedAction record.  Timestamps are left out: what they decide is  *)
(* a nondeterministic event of the modules that read them.  The stages      *)
(* Unknown and CacheCheck are never entered by the scheduler, and the two   *)
(* finished stages are one here (is_finished() and the btrees agree).       *)

Stages == {"Queued", "Executing", "Completed"}

\* What a completed action carries: the answer of a worker, the error of the
\* retry limit, or the error of the client timeout.
Results == {"none", "worker", "too_many_attempts", "no_clients"}

AwaitedAction ==
    [key : Keys \cup {NoKey}, stage : Stages, worker : Workers \cup {NoWorker},
     attempts : Nat, version : Nat, result : Results]

NewAwaitedAction(k) ==
    [key |-> k, stage |-> "Queued", worker |-> NoWorker,
     attempts |-> 0, version |-> 0, result |-> "none"]

IsFinished(a) == a.stage = "Completed"

-----------------------------------------------------------------------------
DbInit ==
    /\ used = {}
    /\ known = {}
    /\ awaited = [op \in Operations |-> NewAwaitedAction(NoKey)]
    /\ sorted = [s \in Stages |-> {}]
    /\ keyToOp = [k \in Keys |-> NoOperation]
    /\ clientOp = [c \in Clients |-> NoOperation]
    /\ mapped = {}
    /\ expired = {}
    /\ dropping = {}
    /\ connected = [op \in Operations |-> 0]

\* Mutant: an evicted entry sends no ClientDroppedOperation.
InsertClientQuietly(c, op) ==
    /\ clientOp' = [clientOp EXCEPT ![c] = op]
    /\ mapped' = (mapped \ expired) \cup {c}
    /\ expired' = {}
    /\ UNCHANGED dropping

\* EvictingMap::insert puts the new entry and then evicts what is too old;
\* dropping an evicted ClientAwaitedAction sends a ClientDroppedOperation.
InsertClient(c, op) ==
    /\ clientOp' = [clientOp EXCEPT ![c] = op]
    /\ mapped' = (mapped \ expired) \cup {c}
    /\ dropping' = dropping \cup expired
    /\ expired' = {}

\* try_subscribe finds an operation for the key and joins it.  When the maps
\* disagree it returns an error and changes nothing.
TrySubscribe(c, k) ==
    /\ clientOp[c] = NoOperation
    /\ k # NoKey
    /\ keyToOp[k] \in known
    /\ ~IsFinished(awaited[keyToOp[k]])
    /\ connected' = [connected EXCEPT ![keyToOp[k]] = @ + 1]
    /\ InsertClient(c, keyToOp[k])
    /\ UNCHANGED <<used, known, awaited, sorted, keyToOp>>

\* The rest of add_action: nothing to join, so a new operation is queued.
AddNewAction(c, k) ==
    /\ clientOp[c] = NoOperation
    /\ k # NoKey => keyToOp[k] = NoOperation
    /\ \E op \in Operations \ used :
          /\ used' = used \cup {op}
          /\ known' = known \cup {op}
          /\ awaited' = [awaited EXCEPT ![op] = NewAwaitedAction(k)]
          /\ connected' = [connected EXCEPT ![op] = 1]
          /\ InsertClient(c, op)
          /\ keyToOp' = IF k = NoKey THEN keyToOp
                                     ELSE [keyToOp EXCEPT ![k] = op]
          /\ sorted' = [sorted EXCEPT !["Queued"] = @ \cup {op}]

AddAction(c, k) == TrySubscribe(c, k) \/ AddNewAction(c, k)

-----------------------------------------------------------------------------
(* update_awaited_action(new), where new was made from a copy of the       *)
(* record read earlier and still carries the version of that copy.         *)

\* Mutant: the version is not compared.
UpdateResultUnversioned(op, new) == IF op \in known THEN "Ok" ELSE "Internal"

\* The Result of update_awaited_action.  A failed take or a double insert in
\* the sorted sets is the error "out of sync"; SortedInSync says that it
\* does not happen.
UpdateResult(op, new) ==
    IF op \notin known THEN "Internal"
    ELSE IF awaited[op].version # new.version THEN "Aborted"
    ELSE IF /\ awaited[op].stage # new.stage
            /\ op \notin sorted[awaited[op].stage] \/ op \in sorted[new.stage]
    THEN "Internal"
    ELSE "Ok"

\* Mutant: the operation stays in the set of its old stage.
ResortedTwice(op, old, new) == [sorted EXCEPT ![new] = @ \cup {op}]

\* process_state_changes: move the operation to the set of its new stage.
Resorted(op, old, new) ==
    [sorted EXCEPT ![old] = @ \ {op}, ![new] = @ \cup {op}]

\* Mutant: a finished action keeps its key.
KeepKey(new) == keyToOp

\* process_state_changes_for_hash_key_map: a finished action gives up its key,
\* whichever operation the key leads to.
ReleaseKey(new) ==
    IF IsFinished(new) /\ new.key # NoKey
    THEN [keyToOp EXCEPT ![new.key] = NoOperation]
    ELSE keyToOp

\* The state change of an update that returns Ok.
UpdateAwaitedAction(op, new) ==
    /\ UpdateResult(op, new) = "Ok"
    /\ awaited' = [awaited EXCEPT ![op] = [new EXCEPT !.version = @ + 1]]
    /\ IF awaited[op].stage = new.stage
       THEN UNCHANGED <<sorted, keyToOp>>
       ELSE /\ sorted' = Resorted(op, awaited[op].stage, new.stage)
            /\ keyToOp' = ReleaseKey(new)
    /\ UNCHANGED <<used, known, clientOp, mapped, expired, dropping, connected>>

-----------------------------------------------------------------------------
(* The event loop and the eviction of client entries.                      *)

\* handle_action_events, ClientDroppedOperation, for an operation that other
\* clients still listen to (or that is not there any more).
DropOneOfMany(c) ==
    LET op == clientOp[c] IN
    /\ c \in dropping
    /\ op \notin known \/ connected[op] # 1
    /\ dropping' = dropping \ {c}
    /\ connected' = IF op \in known THEN [connected EXCEPT ![op] = @ - 1]
                                    ELSE connected
    /\ UNCHANGED <<used, known, awaited, sorted, keyToOp,
                   clientOp, mapped, expired>>

\* The last client of the operation: the operation is removed, and so is the
\* entry of its key, whichever operation that entry leads to.
DropLast(c) ==
    LET op == clientOp[c]
        key == awaited[op].key IN
    /\ c \in dropping
    /\ op \in known
    /\ connected[op] = 1
    /\ dropping' = dropping \ {c}
    /\ known' = known \ {op}
    /\ connected' = [connected EXCEPT ![op] = 0]
    /\ keyToOp' = IF key = NoKey THEN keyToOp
                                 ELSE [keyToOp EXCEPT ![key] = NoOperation]
    /\ sorted' = [sorted EXCEPT ![awaited[op].stage] = @ \ {op}]
    /\ UNCHANGED <<used, awaited, clientOp, mapped, expired>>

ClientDroppedOperation(c) == DropOneOfMany(c) \/ DropLast(c)

\* Mutant: the evicted entry stays in the list of old ones.
ClientKeepAliveForgets(c) ==
    /\ c \in expired
    /\ mapped' = mapped \ {c}
    /\ dropping' = dropping \cup {c}
    /\ UNCHANGED <<used, known, awaited, sorted, keyToOp, clientOp, expired,
                   connected>>

\* ClientKeepAlive: size_for_key refreshes an entry (which this model does not
\* see) unless the entry is already too old, when it is evicted instead.
ClientKeepAlive(c) ==
    /\ c \in expired
    /\ mapped' = mapped \ {c}
    /\ expired' = expired \ {c}
    /\ dropping' = dropping \cup {c}
    /\ UNCHANGED <<used, known, awaited, sorted, keyToOp, clientOp, connected>>

\* get_awaited_action_by_id (WaitExecution): EvictingMap::get evicts every
\* entry that is too old before it looks.
GetAwaitedActionById ==
    /\ expired # {}
    /\ mapped' = mapped \ expired
    /\ dropping' = dropping \cup expired
    /\ expired' = {}
    /\ UNCHANGED <<used, known, awaited, sorted, keyToOp, clientOp, connected>>

\* max_seconds pass since the entry of c was last touched.  Any entry may be
\* the next: the clients' keep-alives, which touch entries, are not ordered.
ClientEntryExpires(c) ==
    /\ c \in mapped \ expired
    /\ expired' = expired \cup {c}
    /\ UNCHANGED <<used, known, awaited, sorted, keyToOp,
                   clientOp, mapped, dropping, connected>>

-----------------------------------------------------------------------------
DbTypeOK ==
    /\ used \subseteq Operations
    /\ known \subseteq used
    /\ awaited \in [Operations -> AwaitedAction]
    /\ sorted \in [Stages -> SUBSET Operations]
    /\ keyToOp \in [Keys -> Operations \cup {NoOperation}]
    /\ clientOp \in [Clients -> Operations \cup {NoOperation}]
    /\ mapped \subseteq Clients
    /\ expired \subseteq mapped
    /\ dropping \subseteq Clients
    /\ connected \in [Operations -> Nat]

\* Every operation of the map is in exactly the sorted set of its stage and
\* the sets hold nothing else, so the errors "already in the sorted map. This
\* should never happen" and "are out of sync" of process_state_changes, and
\* the error log of a drop that finds no sorted entry, are unreachable.
SortedInSync ==
    \A s \in Stages : sorted[s] = {op \in known : awaited[op].stage = s}

\* A key leads to an operation that exists, has that key and is unfinished, so
\* a client never joins a finished action ("Tried to subscribe to a completed
\* action ... This should never happen").
KeyMapSound ==
    \A k \in Keys : keyToOp[k] # NoOperation =>
        /\ keyToOp[k] \in known
        /\ awaited[keyToOp[k]].key = k
        /\ ~IsFinished(awaited[keyToOp[k]])

\* The clients that count for an operation: those with an entry, and those
\* whose drop is still in the event channel.
ClientsOf(op) == {c \in mapped \cup dropping : clientOp[c] = op}

\* The count of an operation is the number of its clients, and an operation
\* that was removed has none: the count never underflows, no operation is
\* removed under a client or kept without one, and no drop event arrives for
\* an operation that is gone.
ConnectedCountsClients ==
    /\ \A op \in Operations : connected[op] = Cardinality(ClientsOf(op))
    /\ \A op \in Operations : op \in known <=> ClientsOf(op) # {}

\* An unfinished cachable operation is the one its key leads to, so that the
\* next client with the same action joins it.
KeyMapComplete ==
    \A op \in known :
        awaited[op].key # NoKey /\ ~IsFinished(awaited[op])
            => keyToOp[awaited[op].key] = op
=============================================================================
