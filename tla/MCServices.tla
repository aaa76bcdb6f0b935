------------------------------ MODULE MCServices ------------------------------
(***************************************************************************)
(* Everything but the stores and the scheduler's core, each part on a      *)
(* small instance of its own: streams, names and messages, the gRPC        *)
(* services, the worker, the other schedulers and the process.             *)
(* `part` says which one a behaviour is about; the others stay in one      *)
(* initial state.                                                          *)
(***************************************************************************)
EXTENDS BufStream, S3Store, WireFormats, Services, Directories, LocalWorker,
        StoreAwaitedActionDb, RelaySchedulers, NativelinkMain,
        PlatformProperties, OriginContext

CONSTANTS x, y, t, none   \* contents of files and links

CONSTANT ActiveParts   \* the parts an instance is about

VARIABLE part

MCParts == {"buffers", "s3", "names", "services", "messages", "directories", "worker", "shared_db", "cache_lookup",
            "grpc_scheduler", "process", "properties", "origin"}

(***************************************************************************)
(* Instances                                                               *)
(***************************************************************************)
MCRetry == [max_retries |-> 2, delay |-> 1, retry_on_errors |-> {}]
MCUpstreamRetry == [max_retries |-> 1, delay |-> 1, retry_on_errors |-> {}]
MCLengths == {{}, {1}, {2}}
MCInstanceNames == {<<>>, <<"main">>, <<"blobs">>, <<"a", "b">>, <<"uploads", "blobs">>,
                    <<"blobs", "hash", "5">>, <<"a", "compressed-blobs", "zstd">>}

Blob(d, fits) == [digest |-> d, fits |-> fits]
MCBatches == {<<Blob("a", TRUE), Blob("b", TRUE), Blob("c", TRUE)>>,
              <<Blob("a", TRUE), Blob("b", FALSE), Blob("a", TRUE)>>, <<Blob("c", TRUE)>>}
DirNames == {"r", "s", "t", "u"}
MCTrees == {[d \in DirNames |-> CASE d = "r" -> <<"s", "t">> [] d = "s" -> <<"u">> [] OTHER -> <<>>],
            [d \in DirNames |-> CASE d = "r" -> <<"s">> [] d = "s" -> <<"t", "u">> [] OTHER -> <<>>],
            [d \in DirNames |-> CASE d = "r" -> <<"s", "t">> [] d \in {"s", "t"} -> <<"u">> [] OTHER -> <<>>],
            [d \in {"r"} |-> <<>>]}
MCEndpoints == [n \in {"rw", "ro"} |-> n = "ro"]
MCInstances == {<<"main">>, <<"">>, <<"main", "sub">>}
MCOutputs == {<<>>, <<"a">>, <<"a", "b">>}

Node(k, d, e) == [kind |-> k, data |-> d, exec |-> e]
Dir == Node("dir", none, FALSE)
MCFileTrees ==
    {<<>> :> Dir @@ <<1>> :> Node("file", x, FALSE) @@ <<2>> :> Dir
        @@ <<3>> :> Node("link", t, FALSE)
        @@ <<2, 1>> :> Node("file", y, TRUE) @@ <<2, 2>> :> Node("file", x, FALSE),
     <<>> :> Dir @@ <<1>> :> Dir @@ <<2>> :> Node("file", x, FALSE) @@ <<1, 1>> :> Dir
        @@ <<1, 1, 1>> :> Node("file", x, FALSE) @@ <<1, 1, 2>> :> Node("file", y, TRUE),
     \* two files of one content, one of them executable
     <<>> :> Dir @@ <<1>> :> Node("file", x, FALSE) @@ <<2>> :> Dir @@ <<2, 1>> :> Node("file", x, TRUE)}

MCStrategies == {<<"success_only", "failures_only">>}
MCOperations == {<<"id", 1>>}
MCKeyOf == [r \in Requests |-> "k"]
MCKnownTypes == "cpu" :> "minimum" @@ "os" :> "exact" @@ "tag" :> "priority"
MCOffers == {"cpu" :> 3 @@ "os" :> 1 @@ "tag" :> 1, "cpu" :> 2 @@ "os" :> 2, "pool" :> 1}
MCAsksFor == {"cpu" :> 1 @@ "os" :> 1, "cpu" :> 2 @@ "tag" :> 2, "cpu" :> 99,
              "pool" :> 1 @@ "cpu" :> 1, "os" :> 2}
Removes(n) == [op |-> "remove", name |-> n, value |-> 0]
Adds(n) == [op |-> "add", name |-> n, value |-> 1]
MCModLists == UNION {[1..k -> {Removes("pool"), Removes("os"), Adds("os"), Adds("tag"), Adds("pool")}]
                        : k \in 0..2}

MCIdentities == {"a" :> "alice" @@ "b" :> b : b \in {"bob", ""}}
MCMethodOf == "a" :> "Write" @@ "b" :> "WaitExecution"

(***************************************************************************)
(* Composition                                                             *)
(***************************************************************************)
\* A part's free initial values range over their set only where it is chosen.
Free(p, S, rest) == IF part = p THEN S ELSE {rest}
Idle(p, rests) == part = p \/ rests

Init ==
    /\ part \in ActiveParts
    /\ BufInit /\ Idle("buffers", ch = MakeBufChannelPair(0))
    /\ S3Init /\ Idle("s3", s3 = Call("put"))
    /\ upload \in Free("names", BOOLEAN, FALSE)
    /\ meant \in Free("names", Infos(upload), CHOOSE i \in Infos(FALSE) : TRUE)
    /\ instance \in Free("names", InstanceNames, <<>>)
    /\ NamesInit
    /\ focus \in Free("services", Foci, "cas")
    /\ ServicesInit
    /\ origin \in Free("messages", {Early(k) : k \in EarlyStages}
                         \cup {CompletedStage(r) : r \in WorkerResults}
                         \cup {CompletedFromCache([p EXCEPT !.links = p.fileLinks \o p.dirLinks])
                                 : p \in ProtoResults}, Early("Queued"))
    /\ MessagesInit
    /\ fsTree \in Free("directories", FileTrees, CHOOSE f \in FileTrees : TRUE)
    /\ DirectoriesInit
    /\ WorkerInit
    /\ SharedInit
    /\ cached \in Free("cache_lookup", SUBSET LookupKeys, {})
    /\ ClInit
    /\ GsInit /\ Idle("grpc_scheduler", gs.op = "execute" /\ props = {})
    /\ MainInit
    /\ mods \in Free("properties", ModLists, <<>>)
    /\ PropInit
    /\ OriginInit /\ Idle("origin", identity["b"] = "")

Only(p) ==
    /\ part = p
    /\ UNCHANGED part
    /\ p # "buffers" => UNCHANGED bufVars
    /\ p # "s3" => UNCHANGED s3Vars
    /\ p # "names" => UNCHANGED nameVars
    /\ p # "services" => UNCHANGED serviceVars
    /\ p # "messages" => UNCHANGED messageVars
    /\ p # "directories" => UNCHANGED dirVars
    /\ p # "worker" => UNCHANGED workerVars
    /\ p # "shared_db" => UNCHANGED storeVars
    /\ p # "cache_lookup" => UNCHANGED clVars
    /\ p # "grpc_scheduler" => UNCHANGED gsVars
    /\ p # "process" => UNCHANGED mainVars
    /\ p # "properties" => UNCHANGED propVars
    /\ p # "origin" => UNCHANGED originVars

Next ==
    \/ Only("buffers") /\ BufNext
    \/ Only("s3") /\ S3Next
    \/ Only("names") /\ NamesNext
    \/ Only("services") /\ ServicesNext
    \/ Only("messages") /\ MessagesNext
    \/ Only("directories") /\ DirectoriesNext
    \/ /\ Only("worker") /\ WorkerNext
       /\ conns = MaxConnections => \A i \in Tasks : At(i, "free") => task'[i] = task[i]
    \/ Only("shared_db") /\ SharedNext
    \/ Only("cache_lookup") /\ ClNext
    \/ Only("grpc_scheduler") /\ GsNext
    \/ Only("process") /\ MainNext
    \/ Only("properties") /\ PropNext
    \/ Only("origin") /\ OriginNext

allVars == <<part, bufVars, s3Vars, nameVars, serviceVars,
             messageVars, dirVars, workerVars, storeVars, clVars, gsVars, mainVars, propVars,
             originVars>>

Spec == Init /\ [][Next]_allVars

-----------------------------------------------------------------------------
(* Type invariant: the state of every part keeps its type.  *)
ServicesTypeOK ==
    /\ part = "buffers" => BufTypeOK
    /\ part = "s3" => S3TypeOK
    /\ part = "worker" => WorkerTypeOK
    /\ part = "shared_db" => SharedTypeOK
    /\ part = "process" => MainTypeOK

(* A transfer that broke off or was retried goes on where it stopped: the bytes *)
(* that arrive are the bytes that were sent.  The exceptions (a rewound buffer, *)
(* the end of a range) are in the two properties.                               *)
TransfersAreSeamless == part = "s3" => StoredIsStream /\ ResumedIsSeamless

(* What one server writes another reads as it was meant: resource names, also   *)
(* forwarded ones, and the stages of an operation through relaying schedulers.  *)
MessagesMeanSame ==
    /\ part = "names" => UnderstoodAsMeant /\ ForwardedMeansSame
    /\ part = "messages" => StageSurvives

(* What a service tells its client is so: blobs reported as stored, the pages   *)
(* of a tree, results from the cache, names of operations, the end of a stream, *)
(* acknowledged events and advertised properties.                               *)
AnswersAreTrue ==
    /\ part = "services" =>
           /\ ReportedIsStored /\ PagesFollowWalk /\ ServedFromWriter /\ NamedIsFound
           /\ StreamEndsWithLast /\ AckedEventsStored
    /\ part = "properties" => AdvertisedIsUsable

(* Outputs and inputs of an action: the tree that is published is the one on    *)
(* disk, in canonical form and stored with all its parts, whatever order the    *)
(* uploads end in, and a download makes the same tree again.                    *)
TreesAreExact ==
    part = "directories" =>
        TreeIsCanonical /\ TreeIsWhole /\ DownloadIsExact /\ ExecutableAsAsked

(* An action is where it belongs: on a worker that has the properties it asks   *)
(* for, under its own entry and in a directory of its own as long as it is      *)
(* alive, and on no worker that has left the connection that brought it.        *)
ActionsInPlace ==
    /\ part = "properties" => RunsWhereItFits
    /\ part = "worker" => AliveIsRegistered /\ DirectoryInUse /\ QuietBeforeReconnect

(* A client's view of its operation: a request is handed on once, its entry and *)
(* its subscription have somebody who will answer, what it sees only advances   *)
(* and ends with the last state.                                                *)
UpdatesReachClients ==
    /\ part = "cache_lookup" => ForwardedOnce /\ EntryHasLookup
    /\ part = "shared_db" => WatchedIsPublished
    /\ part = "grpc_scheduler" => SeenAdvances /\ EndedSawLast

(* What is taken and given back is counted exactly: the properties of a worker, *)
(* guards of the shutdown and connected clients.                                *)
CountsAreExact ==
    /\ part = "properties" => PropertiesConserved
    /\ part = "process" => CountsAreGuards /\ ConnectedIsOpen

(* Concurrent requests are kept apart: code never runs in the context of        *)
(* another request, and every event names the caller it is about.               *)
CallersKeptApart == part = "origin" => ContextsInPlace /\ EventsAttributed
=============================================================================
