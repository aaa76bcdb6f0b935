--------------------------- MODULE ServicesProofs ---------------------------
(***************************************************************************)
(* What is proved of the parts of MCServices holds of their composition:   *)
(* a behaviour of the composition is one of every part.                    *)
(***************************************************************************)
EXTENDS MCServices, ClientUpdatesProofs, WorkerProofs, OriginProofs, StreamProofs

LEMMA PartSteps ==
    ASSUME [Next]_allVars
    PROVE  /\ [SharedNext]_storeVars /\ [ClNext]_clVars /\ [GsNext]_gsVars
           /\ [WorkerNext]_workerVars /\ [PropNext]_propVars /\ [OriginNext]_originVars
           /\ [BufNext]_bufVars
PROOF
  <1>1. CASE UNCHANGED allVars
    BY <1>1 DEF allVars
  <1>2. CASE Only("shared_db") /\ SharedNext
    BY <1>2 DEF Only
  <1>3. CASE Only("cache_lookup") /\ ClNext
    BY <1>3 DEF Only
  <1>4. CASE Only("grpc_scheduler") /\ GsNext
    BY <1>4 DEF Only
  <1>5. CASE Only("worker") /\ WorkerNext
    BY <1>5 DEF Only
  <1>6. CASE Only("properties") /\ PropNext
    BY <1>6 DEF Only
  <1>7. CASE Only("origin") /\ OriginNext
    BY <1>7 DEF Only
  <1>8. CASE Only("buffers") /\ BufNext
    BY <1>8 DEF Only
  <1>9. CASE \E p \in {"s3", "names", "services", "messages", "directories", "process"} : Only(p)
    <2>1. /\ UNCHANGED storeVars /\ UNCHANGED clVars /\ UNCHANGED gsVars
          /\ UNCHANGED workerVars /\ UNCHANGED propVars /\ UNCHANGED originVars
          /\ UNCHANGED bufVars
      BY <1>9 DEF Only
    <2>2. QED
      BY <2>1
  <1>10. QED
    BY <1>1, <1>2, <1>3, <1>4, <1>5, <1>6, <1>7, <1>8, <1>9 DEF Next

LEMMA SpecIsShared == Spec => SharedSpec
PROOF
  <1>1. Init => SharedInit
    BY DEF Init
  <1>2. [Next]_allVars => [SharedNext]_storeVars
    BY PartSteps
  <1>3. QED
    BY <1>1, <1>2, PTL DEF Spec, SharedSpec

LEMMA SpecIsLookup == Spec => ClSpec
PROOF
  <1>1. Init => ClInit
    BY DEF Init
  <1>2. [Next]_allVars => [ClNext]_clVars
    BY PartSteps
  <1>3. QED
    BY <1>1, <1>2, PTL DEF Spec, ClSpec

LEMMA SpecIsGs == Spec => GsSpec
PROOF
  <1>1. Init => GsInit
    BY DEF Init
  <1>2. [Next]_allVars => [GsNext]_gsVars
    BY PartSteps
  <1>3. QED
    BY <1>1, <1>2, PTL DEF Spec, GsSpec

LEMMA SpecIsWorker == Spec => WorkerSpec
PROOF
  <1>1. Init => WorkerInit
    BY DEF Init
  <1>2. [Next]_allVars => [WorkerNext]_workerVars
    BY PartSteps
  <1>3. QED
    BY <1>1, <1>2, PTL DEF Spec, WorkerSpec

LEMMA SpecIsProps == Spec => PropSpec
PROOF
  <1>1. Init => PropInit
    BY DEF Init
  <1>2. [Next]_allVars => [PropNext]_propVars
    BY PartSteps
  <1>3. QED
    BY <1>1, <1>2, PTL DEF Spec, PropSpec

LEMMA SpecIsOrigin == Spec => OriginSpec
PROOF
  <1>1. Init => OriginInit
    BY DEF Init
  <1>2. [Next]_allVars => [OriginNext]_originVars
    BY PartSteps
  <1>3. QED
    BY <1>1, <1>2, PTL DEF Spec, OriginSpec

LEMMA SpecIsBuf == Spec => BufSpec
PROOF
  <1>1. Init => BufInit
    BY DEF Init
  <1>2. [Next]_allVars => [BufNext]_bufVars
    BY PartSteps
  <1>3. QED
    BY <1>1, <1>2, PTL DEF Spec, BufSpec

\* What a client sees of its operation, for every number of clients, requests,
\* stages, faults and retries: through the shared database, the cache lookup and
\* the forwarding scheduler.
THEOREM ClientsAreUpdated == Spec => []UpdatesReachClients
PROOF
  <1>1. /\ ForwardedOnce /\ EntryHasLookup /\ WatchedIsPublished /\ SeenAdvances /\ EndedSawLast
        => UpdatesReachClients
    BY DEF UpdatesReachClients
  <1>2. QED
    BY <1>1, SpecIsShared, SpecIsLookup, SpecIsGs, RequestsForwardedOnce, EntriesAreServed,
       WatchedArePublished, StagesSeenAdvance, EndedClientsSawLast, PTL

\* The stages of an operation in Redis only advance in the composition, too.
THEOREM ComposedStagesAdvance == Spec => StagesOnlyAdvance
PROOF BY SpecIsShared, StagesAdvance, PTL

\* An action is where it belongs, for every number of actions, jobs, connections,
\* failures and properties: a kill finds it, its directory is its own, none is
\* left of an earlier connection, and its worker has what it asks for.
THEOREM ActionsStayInPlace == Spec => []ActionsInPlace
PROOF
  <1>1. RunsWhereItFits /\ AliveIsRegistered /\ DirectoryInUse /\ QuietBeforeReconnect => ActionsInPlace
    BY DEF ActionsInPlace
  <1>2. QED
    BY <1>1, SpecIsWorker, SpecIsProps, AliveAreRegistered, DirectoriesInUse, QuietBeforeReconnects,
       RunWhereTheyFit, PTL

\* Concurrent requests are kept apart, for every number of threads, calls and
\* panics: code never runs in the context of another request, and every origin
\* event names the caller it is about.
THEOREM CallersStayApart == Spec => []CallersKeptApart
PROOF
  <1>1. ContextsInPlace /\ EventsAttributed => CallersKeptApart
    BY DEF CallersKeptApart
  <1>2. QED
    BY <1>1, SpecIsOrigin, ContextsStayInPlace, EventsStayAttributed, PTL

\* Every stream of the system goes through a byte queue, for a stream of any
\* length cut into chunks in any way: the refinement holds in the composition.
THEOREM StreamsAreByteQueues == ASSUME ~ResetsFreely PROVE Spec => ImplementsByteQueue
PROOF BY SpecIsBuf, ChannelIsByteQueue, PTL
=============================================================================
