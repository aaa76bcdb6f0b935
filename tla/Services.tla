------------------------------ MODULE Services ------------------------------
(***************************************************************************)
(* The gRPC services a client talks to: ContentAddressableStorage          *)
(* (nativelink-service/src/cas_server.rs), ActionCache (ac_server.rs),     *)
(* PublishBuildEvent (bep_server.rs) and Execution (execution_server.rs).  *)
(*                                                                         *)
(* Requests of different services share nothing but the stores, so a       *)
(* behaviour follows one of them (focus).  The stores behind the services  *)
(* are external: a put is atomic and may fail, an entry may be evicted.    *)
(* Digests are model values, an instance name is the sequence of its       *)
(* '/'-separated parts, and the name of an operation is such a sequence.   *)
(***************************************************************************)
EXTENDS Naturals, Sequences, FiniteSets, SequencesExt

CONSTANTS
    Foci,           \* the services followed
    Batches,        \* requests of a batch upload: sequences of [digest, fits]
    Trees,          \* directory trees: functions from a digest to its children
    Root,           \* the root digest of every tree
    PageSizes,      \* page sizes a client asks for, 0 for no paging
    MaxPaged,       \* a client that was given so many directories asks for no more
    AcEndpoints,      \* action cache instances: name -> read_only
    Results,        \* action results
    Instances,      \* execution instance names
    LastState,      \* the updates of an operation are 1 .. LastState
    MaxOperations,  \* operations a client starts
    MaxBuildEvents,      \* build events of a stream
    StoreFaults     \* store failures and evictions in one behaviour

VARIABLES
    focus,
    blobs,          \* the digests in the CAS
    batch,          \* a BatchUpdateBlobs or BatchReadBlobs call
    tree,           \* the directory tree the CAS holds
    page,           \* a client reading the tree page by page
    results,        \* the action cache: {} or {result}, with its writer
    fetched,        \* the answer to the last GetActionResult
    operations,     \* operations the scheduler knows: [instance, state]
    stream,         \* the client's execution stream
    buildEvents,         \* the keys in the build event store
    publish,        \* the client's build event stream
    storeFaults

casVars == <<blobs, batch>>
treeVars == <<tree, page>>
acVars == <<results, fetched>>
execVars == <<operations, stream>>
bepVars == <<buildEvents, publish>>
serviceVars == <<focus, casVars, treeVars, acVars, execVars, bepVars, storeFaults>>

NoBatch == [pc |-> "idle", items |-> <<>>, left |-> {}, ok |-> {}]
NoStream == [pc |-> "idle", name |-> <<>>, op |-> 0, seen |-> 0]

ServicesInit ==
    /\ focus \in Foci
    /\ blobs = {}
    /\ batch = NoBatch
    /\ tree \in (IF focus = "tree" THEN Trees ELSE {[d \in {Root} |-> <<>>]})
    /\ page = [pc |-> "idle", size |-> 0, token |-> <<>>, got |-> <<>>]
    /\ results = {}
    /\ fetched = {}
    /\ operations = <<>>
    /\ stream = NoStream
    /\ buildEvents = {}
    /\ publish = [sent |-> 0, acked |-> <<>>, pc |-> "open"]
    /\ storeFaults = 0

-----------------------------------------------------------------------------
\* ContentAddressableStorage: every item of a batch is a future of its own,
\* completed in any order.

StartBatch ==
    /\ batch.pc \in {"idle", "ok", "error"}
    /\ \E items \in Batches :
         batch' = [pc |-> "run", items |-> items, left |-> DOMAIN items,
                   ok |-> {}]
    /\ UNCHANGED <<blobs, storeFaults>>

\* Mutant: every item reports success.
StatusAlwaysOk(i, stored) == {i}

\* What an item reports: the status of its own write.
Status(i, stored) == IF stored THEN {i} ELSE {}

\* One item of inner_batch_update_blobs: an item whose digest is unusable or
\* whose data has another length ends the whole call (try_collect) and drops
\* the futures still running, after others may have stored theirs; a failing
\* store is only that item's status.
UpdateBlob(i) ==
    /\ batch.pc = "run" /\ i \in batch.left
    /\ IF ~batch.items[i].fits
       THEN /\ batch' = [batch EXCEPT !.pc = "error", !.left = {}, !.ok = {}]
            /\ UNCHANGED <<blobs, storeFaults>>
       ELSE \E stored \in BOOLEAN :
              /\ stored \/ storeFaults < StoreFaults
              /\ storeFaults' = IF stored THEN storeFaults ELSE storeFaults + 1
              /\ blobs' = IF stored THEN blobs \cup {batch.items[i].digest} ELSE blobs
              /\ batch' = [batch EXCEPT !.left = @ \ {i}, !.ok = @ \cup Status(i, stored)]

EndBatch ==
    /\ batch.pc = "run" /\ batch.left = {}
    /\ batch' = [batch EXCEPT !.pc = "ok"]
    /\ UNCHANGED <<blobs, storeFaults>>

\* inner_find_missing_blobs and inner_batch_read_blobs: the items the store
\* does not answer for.
FindMissing(digests) == {d \in digests : d \notin blobs}

BlobEvicted ==
    /\ storeFaults < StoreFaults
    /\ storeFaults' = storeFaults + 1
    /\ \E d \in blobs : blobs' = blobs \ {d}
    /\ batch' = [batch EXCEPT !.ok = {i \in @ : batch.items[i].digest \in blobs'}]
    \* (ok keeps the items whose digest has not been evicted since)

CasNext == StartBatch \/ (\E i \in batch.left : UpdateBlob(i)) \/ EndBatch \/ BlobEvicted

-----------------------------------------------------------------------------
\* GetTree: a breadth-first walk from the root on every call.

\* The directories of the walk from the state of the deque on, in the order
\* they are popped.  A digest met twice is walked twice.
Walk == LET walk[deque \in Seq(DOMAIN tree)] ==
              IF deque = <<>> THEN <<>>
              ELSE <<Head(deque)>> \o walk[Tail(deque) \o tree[Head(deque)]]
        IN  walk[<<Root>>]

\* page_token_matched: the place in the walk where the page starts.
TokenAt(token) ==
    CASE page.size = 0 -> 1
      [] token = <<>> -> 1
      [] OTHER -> Min({i \in DOMAIN Walk : Walk[i] = token[1]})

\* Mutant: the token names the last directory of the page.
NextTokenOfLast(at, n) == IF at + n <= Len(Walk) THEN <<Walk[at + n - 1]>> ELSE <<>>

NextToken(at, n) == IF at + n <= Len(Walk) THEN <<Walk[at + n]>> ELSE <<>>

StartPaging ==
    /\ page.pc = "idle"
    /\ \E n \in PageSizes : page' = [page EXCEPT !.pc = "ask", !.size = n]
    /\ UNCHANGED tree

\* inner_get_tree: the page that starts at the token, and the digest at the
\* front of the deque as the token of the next one.
GetTree ==
    LET at == TokenAt(page.token)
        n == IF page.size = 0 THEN Len(Walk) ELSE page.size
    IN  /\ page.pc = "ask" /\ Len(page.got) < MaxPaged
        /\ page' = [page EXCEPT
              !.got = @ \o SubSeq(Walk, at, IF at + n - 1 < Len(Walk) THEN at + n - 1 ELSE Len(Walk)),
              !.token = NextToken(at, n),
              !.pc = IF NextToken(at, n) = <<>> THEN "done" ELSE "ask"]
        /\ UNCHANGED tree

TreeNext == StartPaging \/ GetTree

-----------------------------------------------------------------------------
\* ActionCache: two instances may share a store, one of them read-only.

\* Mutant: a read-only endpoint writes.
WritableAlways(name) == TRUE

Writable(name) == ~AcEndpoints[name]

UpdateActionResult ==
    /\ \E name \in DOMAIN AcEndpoints, r \in Results :
         /\ Writable(name)
         /\ results' = {[result |-> r, by |-> name]}
    /\ UNCHANGED <<fetched, storeFaults>>

GetActionResult ==
    /\ fetched' = results
    /\ UNCHANGED <<results, storeFaults>>

AcEvicts ==
    /\ storeFaults < StoreFaults
    /\ storeFaults' = storeFaults + 1
    /\ results' = {}
    /\ UNCHANGED fetched

AcNext == UpdateActionResult \/ GetActionResult \/ AcEvicts

-----------------------------------------------------------------------------
\* Execution.  The scheduler (external) knows the operations by their id, and
\* moves them on from one state to the next.

\* NativelinkOperationId: Display and from_name, which splits at the first '/'.
ToName(instance, op) == instance \o <<op>>
\* Mutant: the instance is left out of what a name is split into.
FromNameBare(name) == [instance |-> <<>>, op |-> Tail(name)]

FromName(name) == [instance |-> <<Head(name)>>, op |-> Tail(name)]

Execute ==
    /\ stream.pc \in {"idle", "ended"}
    /\ Len(operations) < MaxOperations
    /\ \E instance \in Instances :
         /\ operations' = Append(operations, [instance |-> instance, state |-> 1])
         /\ stream' = [pc |-> "open", op |-> Len(operations'), seen |-> 0,
                       name |-> ToName(instance, Len(operations'))]
    /\ UNCHANGED storeFaults

\* Mutant: the stream ends one state early.
LastUpdateEarly(state) == state + 1 = LastState

\* to_execute_stream: the listener's next change; the stream ends with the
\* state that is finished.
LastUpdate(state) == state = LastState

SendUpdate ==
    /\ stream.pc = "open"
    /\ stream.seen < operations[stream.op].state
    /\ stream' = [stream EXCEPT !.seen = operations[stream.op].state,
                                !.pc = IF LastUpdate(operations[stream.op].state) THEN "ended" ELSE "open"]
    /\ UNCHANGED <<operations, storeFaults>>

SchedulerMoves ==
    /\ \E o \in DOMAIN operations :
         /\ operations[o].state < LastState
         /\ operations' = [operations EXCEPT ![o].state = @ + 1]
    /\ UNCHANGED <<stream, storeFaults>>

\* The connection is lost before the last update.
StreamLost ==
    /\ stream.pc = "open"
    /\ storeFaults < StoreFaults
    /\ storeFaults' = storeFaults + 1
    /\ stream' = [stream EXCEPT !.pc = "lost", !.seen = 0]
    /\ UNCHANGED operations

\* inner_wait_execution: the instance and the operation must both be found.
WaitExecution ==
    LET id == FromName(stream.name)
        found == /\ id.instance \in Instances
                 /\ \E o \in DOMAIN operations :
                      id.op = <<o>> /\ operations[o].instance = id.instance
    IN  /\ stream.pc = "lost"
        /\ stream' = [stream EXCEPT !.pc = IF found THEN "open" ELSE "not_found", !.seen = 0]
        /\ UNCHANGED <<operations, storeFaults>>

ExecNext == Execute \/ SendUpdate \/ SchedulerMoves \/ StreamLost \/ WaitExecution

-----------------------------------------------------------------------------
\* PublishBuildEvent.

\* Mutant: an event is acknowledged whether or not it was written.
AckedAnyway(n, stored) == <<n>>

\* process_request: an event is acknowledged once its write has succeeded; the
\* first failure is the last answer of the stream.
Acked(n, stored) == IF stored THEN <<n>> ELSE <<>>

PublishEvent ==
    /\ publish.pc = "open" /\ publish.sent < MaxBuildEvents
    /\ \E stored \in BOOLEAN :
         /\ stored \/ storeFaults < StoreFaults
         /\ storeFaults' = IF stored THEN storeFaults ELSE storeFaults + 1
         /\ buildEvents' = IF stored THEN buildEvents \cup {publish.sent + 1} ELSE buildEvents
         /\ publish' = [sent |-> publish.sent + 1,
                        acked |-> publish.acked \o Acked(publish.sent + 1, stored),
                        pc |-> IF stored THEN "open" ELSE "failed"]

\* The tool opens a new stream and sends again what was not acknowledged.
Republish ==
    /\ publish.pc = "failed"
    /\ publish' = [publish EXCEPT !.pc = "open", !.sent = Len(publish.acked)]
    /\ UNCHANGED <<buildEvents, storeFaults>>

BepNext == PublishEvent \/ Republish

-----------------------------------------------------------------------------

ServicesNext ==
    /\ UNCHANGED focus
    /\ \/ focus = "cas" /\ CasNext /\ UNCHANGED <<treeVars, acVars, execVars, bepVars>>
       \/ focus = "tree" /\ TreeNext /\ UNCHANGED <<casVars, acVars, execVars, bepVars, storeFaults>>
       \/ focus = "ac" /\ AcNext /\ UNCHANGED <<casVars, treeVars, execVars, bepVars>>
       \/ focus = "exec" /\ ExecNext /\ UNCHANGED <<casVars, treeVars, acVars, bepVars>>
       \/ focus = "bep" /\ BepNext /\ UNCHANGED <<casVars, treeVars, acVars, execVars>>

ServicesSpec == ServicesInit /\ [][ServicesNext]_serviceVars

-----------------------------------------------------------------------------
\* Properties

\* After a batch upload, the blobs it reported as stored, and only evicted ones
\* excepted, are not reported missing, whatever the other items of the batch
\* met (inner_batch_update_blobs and inner_find_missing_blobs).
ReportedIsStored ==
    batch.pc = "ok" => FindMissing({batch.items[i].digest : i \in batch.ok}) = {}

\* The pages a client of GetTree puts together are the directories of the walk
\* in order, none missing and none twice, and the last page comes with an empty
\* token (inner_get_tree). This is so for trees in which no directory occurs twice,
\* and without paging; a token that names a directory the walk met before leads
\* back to the first place.
PagesFollowWalk ==
    IsInjective(Walk) \/ page.size = 0 =>
        /\ IsPrefix(page.got, Walk)
        /\ page.pc = "done" => page.got = Walk

\* A result the action cache serves was accepted at a writable endpoint, though
\* a read-only one shares the store (AcServer).
ServedFromWriter == \A r \in fetched : ~AcEndpoints[r.by]

\* An operation the server has named to a client, and the scheduler still knows,
\* is found again under that name (inner_wait_execution), unless the name of its
\* instance has a slash, where from_name splits it.
NamedIsFound == stream.pc = "not_found" => Len(operations[stream.op].instance) > 1

\* A stream of updates ends with the operation's last state, and not before
\* (to_execute_stream).
StreamEndsWithLast == stream.seen > 0 => (stream.pc = "ended" <=> stream.seen = LastState)

\* The acknowledged build events are stored, and are an initial segment of the
\* build's, across streams that failed and were opened again
\* (inner_publish_build_tool_event_stream).
AckedEventsStored ==
    /\ \A i \in DOMAIN publish.acked : publish.acked[i] = i
    /\ ToSet(publish.acked) \subseteq buildEvents
=============================================================================
