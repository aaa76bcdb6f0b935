------------------------------- MODULE MCStores -------------------------------
(***************************************************************************)
(* The stores, and what moves their blobs between processes (ByteStream    *)
(* uploads and reads, the gRPC store and its connections), each on a small *)
(* instance of its own.  `part` says which one a behaviour is about; the   *)
(* others stay in one initial state.                                       *)
(***************************************************************************)
EXTENDS FilesystemStore, FastSlowStore, ExistenceCacheStore, RedisStore,
        CheckingStores, BlockStores,
        StoreRouting, StoreDriver, ByteStreamServer, GrpcStore, ConnectionManager,
        FileSlots

VARIABLE part

MCParts == {"memory", "filesystem", "fast_slow", "existence", "redis", "completeness",
            "verify", "dedup", "compression", "routing", "ref", "driver",
            "bytestream", "grpc_store", "connections", "files"}

ownFastSlow == <<slow, layout, call, fssReported, mirrored>>
ownExistence == <<cache, ask, evicted, acked>>

(***************************************************************************)
(* Instances                                                               *)
(***************************************************************************)
\* "s" is rewritten with another size, as an action cache entry may be; "z" is
\* the empty object.
MCSizesOf == [k \in Keys |-> CASE k = "a" -> {2} [] k = "b" -> {1} [] k = "s" -> {1, 2}
                               [] OTHER -> {0}]
\* No low watermark; a low watermark and an age; a count.
MCPolicies == {EvictionPolicy(3, 0, 0, 0), EvictionPolicy(4, 2, 1, 0), EvictionPolicy(0, 0, 1, 1)}
MCLayouts == {Layout("plain", "plain"), Layout("files", "plain"), Layout("plain", "files"),
              Layout("plain", "noop"), Layout("noop", "plain"), Layout("files", "noop")}
MCCachePolicy == EvictionPolicy(0, 0, 1, 0)
MCEntrySize == [e \in Entries |-> IF e = 1 THEN 1 ELSE 2]
MCFsPolicy == EvictionPolicy(3, 1, 0, 0)
MCBlob == <<1, 2, 3, 4>>
MCAsked == {<<0, {}>>, <<1, {}>>, <<0, {1}>>, <<1, {2}>>, <<0, {3}>>, <<0, {0}>>, <<2, {0}>>, <<4, {}>>}
MCTreeFiles == [t \in {"t"} |-> {"g"}]
MCActionResults == {[files |-> {"f"}, trees |-> {}], [files |-> {}, trees |-> {"t"}]}
MCContent == <<1, 2>>
MCUploadChunks == {<<1>>, <<2>>, <<1, 2>>}
MCUploads == UNION {[1..n -> {0, 1}] : n \in {0, 5, 8}}
MCTable == 0 :> 3 @@ 1 :> 6
MCReadRanges == {<<0, NoLength>>, <<2, 3>>, <<3, NoLength>>, <<9, 1>>, <<1, 0>>}
MCCompParts == {<<0>>, <<2>>, <<0, 3>>, <<1, 2>>, <<2, 2>>, <<2, 9>>, <<3, 0>>, <<4, 1>>, <<7, 2>>}
MCSizeOfKey == "a" :> 1 @@ "b" :> 2 @@ "c" :> 3
MCHashOfKey == "a" :> 0 @@ "b" :> 7 @@ "c" :> 15
MCStoreKinds == <<"filesystem", "memory">>
MCProbeBytes == <<7, 8>>
MCFileBytes == <<1, 2, 3>>
MCDriverRanges == {<<0, {}>>, <<1, {}>>, <<0, {2}>>, <<1, {1}>>, <<2, {3}>>}
MCRetry == [max_retries |-> 2, delay |-> 1, retry_on_errors |-> {}]
MCRanges == {<<0, 9>>, <<1, 2>>}
MCWeights == UNION {[1..n -> {1, 3}] : n \in 1..3}

(***************************************************************************)
(* Composition                                                             *)
(***************************************************************************)
\* A part's free initial values range over their set only where it is chosen.
Free(p, S, rest) == IF part = p THEN S ELSE {rest}

Init ==
    /\ part \in MCParts
    /\ policy \in Free("memory", Policies, EvictionPolicy(3, 0, 0, 0))
    /\ layout \in Free("fast_slow", Layouts, Layout("plain", "noop"))
    /\ FastSlowInit /\ ExistenceInit /\ FsInit /\ RedisInit
    /\ ac \in Free("completeness", [AcKeys -> {{}} \cup {{r} : r \in ActionResults}], [k \in AcKeys |-> {}])
    /\ cas \in Free("completeness", {AllDigests, {}}, {})
    /\ CcInit
    /\ checks \in Free("verify", [size : BOOLEAN, hash : BOOLEAN], [size |-> TRUE, hash |-> TRUE])
    /\ claimed \in Free("verify", UploadSizes, NoSize)
    /\ VerifyInit
    /\ data \in Free("dedup", Uploads, <<>>)
    /\ DedupInit
    /\ input \in Free("compression", {[i \in 1..n |-> i] : n \in Inputs}, <<>>)
    /\ stated \in Free("compression", StatedSizes, 0)
    /\ blockSize \in Free("compression", BlockSizes, 1)
    /\ CompInit
    /\ kind \in Free("routing", {"shard", "size"}, "size")
    /\ weights \in Free("routing", Weights, <<1>>)
    /\ RouteInit
    /\ RefInit
    /\ DriverInit
    /\ BsInit /\ (part = "bytestream" \/ read = NoRead)
    /\ GrpcInit /\ (part = "grpc_store" \/ (gcall = NewCall("write", "cas") /\ rd.limit = 0))
    /\ CmInit
    /\ range \in Free("files", [Copies -> Ranges], [c \in Copies |-> <<0, 9>>])
    /\ SlotsInit

\* The fast/slow store and the existence cache work on two keys of one size.
TwoKeys == {"a", "b"}

Only(p) ==
    /\ part = p
    /\ UNCHANGED part
    /\ p \notin {"memory", "fast_slow", "existence"} => UNCHANGED memVars
    /\ p # "fast_slow" => UNCHANGED ownFastSlow
    /\ p # "existence" => UNCHANGED ownExistence
    /\ p # "filesystem" => UNCHANGED fsVars
    /\ p # "redis" => UNCHANGED redisVars
    /\ p # "completeness" => UNCHANGED ccVars
    /\ p # "verify" => UNCHANGED verifyVars
    /\ p # "dedup" => UNCHANGED dedupVars
    /\ p # "compression" => UNCHANGED compVars
    /\ p # "routing" => UNCHANGED routeVars
    /\ p # "ref" => UNCHANGED refVars
    /\ p # "driver" => UNCHANGED driverVars
    /\ p # "bytestream" => UNCHANGED bsVars
    /\ p # "grpc_store" => UNCHANGED grpcVars
    /\ p # "connections" => UNCHANGED cmVars
    /\ p # "files" => UNCHANGED slotVars

Next ==
    \/ Only("memory") /\ MemoryNext
    \/ /\ Only("fast_slow") /\ FastSlowNext
       /\ \A c \in Clients : call'[c] = Done \/ call'[c].key \in TwoKeys
    \/ /\ Only("existence") /\ ExistenceNext
       /\ \A c \in Askers : ask'[c] = Unasked \/ ask'[c].key \in TwoKeys
    \/ Only("filesystem") /\ FsNext
    \/ Only("redis") /\ RedisNext
    \/ Only("completeness") /\ CcNext
    \/ Only("verify") /\ VerifyNext
    \/ Only("dedup") /\ DedupNext
    \/ Only("compression") /\ CompNext
    \/ Only("routing") /\ RouteNext
    \/ Only("ref") /\ RefNext
    \/ Only("driver") /\ DriverNext
    \/ /\ Only("bytestream") /\ BsNext
       /\ \A c \in Conns : bsConn'[c].offset <= bsConn[c].offset + 1
    \/ Only("grpc_store") /\ GrpcNext
    \/ Only("connections") /\ CmNext
    \/ Only("files") /\ SlotsNext

allVars == <<part, memVars, ownFastSlow, ownExistence, fsVars, redisVars, ccVars, verifyVars,
             dedupVars, compVars, routeVars, refVars, driverVars, bsVars, grpcVars,
             cmVars, slotVars>>

Spec == Init /\ [][Next]_allVars

-----------------------------------------------------------------------------
(* Type invariant: every store's state keeps its type.  *)
StoresTypeOK ==
    /\ part \in {"memory", "fast_slow", "existence"} => MemoryTypeOK
    /\ part = "fast_slow" => FastSlowTypeOK
    /\ part = "existence" => ExistenceTypeOK
    /\ part = "filesystem" => FsTypeOK
    /\ part = "redis" => RedisTypeOK
    /\ part = "completeness" => CcTypeOK
    /\ part = "bytestream" => BsTypeOK
    /\ part = "grpc_store" => GrpcTypeOK
    /\ part = "connections" => CmTypeOK

(* The contract of update(): what a store keeps is what the caller sent, whole, *)
(* whichever chunk, future, replica or connection failed on the way and        *)
(* however often it was resumed.  A part never passes for an object.           *)
StoredIsWhole ==
    /\ part = "fast_slow" => FastHoldsWhole
    /\ part = "redis" => KeyIsWhole
    /\ part = "compression" => AcceptedIsWhole /\ WholeIsReadable
    /\ part = "verify" => CommittedIsVerified /\ NeverOverfed
    /\ part = "driver" => NeverTruncated
    /\ part = "bytestream" => AckedIsWhole
    /\ part = "grpc_store" => NoGapAfterResume

(* The contract of get_part(): a read that ends without an error gave exactly   *)
(* the bytes that were asked for, although the object is replaced or evicted    *)
(* meanwhile, is put together from blocks, frames or chunks, is copied by way   *)
(* of a file that is closed while idle, or is resumed after a break.  The       *)
(* exceptions (a read of no bytes from Redis, the limit of a resumed gRPC read) *)
(* are in the properties of these stores.                                       *)
ReadIsExact ==
    /\ part = "filesystem" => ReadsItsEntry
    /\ part = "fast_slow" => EofMeansWhole
    /\ part = "redis" => ReadIsRange
    /\ part = "dedup" => ReadIsSlice
    /\ part = "compression" => PartIsExact
    /\ part = "driver" => UnchunkedIsRange
    /\ part = "bytestream" => ReadIsTruthful
    /\ part = "grpc_store" => ReadOnce
    /\ part = "files" => CopyIsRange

(* The contract of has(), of the answer to an upload and of the health check:   *)
(* what is called present was there and whole, what is called missing or failed *)
(* was, and each answer is that of its key.                                     *)
AnswersAreTruthful ==
    /\ part = "fast_slow" => MirroredOrReported
    /\ part = "existence" => AckedIsStored /\ CachedWasPresent
    /\ part = "completeness" => CompleteWasHeld /\ HiddenWasMissing
    /\ part = "dedup" => HasIsWhole
    /\ part = "routing" => AnswersInPlace
    /\ part = "driver" => FailureHadCause

(* The accounts an eviction relies on agree with what is there: sums, counts,   *)
(* ages and index of the evicting map, and the files of the filesystem store,   *)
(* also after a failed rename and a restart.                                    *)
AccountsAgree ==
    /\ part \in {"memory", "fast_slow", "existence"} =>
           MemSumExact /\ MemIndexLive /\ MemBounded /\ MemFresh
    /\ part = "filesystem" => MappedHasFile /\ ContentIsTracked

(* Where data goes is decided by its content: the frames of the dedup store do  *)
(* not depend on how the data arrived and keep their sizes, and a shard gets    *)
(* its share of the hashes.                                                     *)
PlacedByContent ==
    /\ part = "dedup" => FramesAreContentDefined /\ FrameSizes
    /\ part = "routing" => SharesAreFair

(* The connection manager loses no channel and no permit, makes none too many,  *)
(* and lets none idle while a request waits; neither do the open files of the   *)
(* process lose or make a permit.                                               *)
ConnectionsConserved ==
    /\ part = "connections" => ChannelsConserved /\ PermitsConserved /\ NoIdleChannel
    /\ part = "files" => SlotsConserved
=============================================================================
