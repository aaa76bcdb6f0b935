SPECIFICATION Spec
CONSTANTS
    Keys = {"a", "b", "s", "z"}
    ZeroKeys = {"z"}
    SizesOf <- MCSizesOf
    Policies <- MCPolicies
    MaxNow = 2
    Clients = {c1, c2}
    Layouts <- MCLayouts
    Askers = {c1, c2}
    CachePolicy <- MCCachePolicy
    FsKeys = {"a", "z"}
    FsZero = {"z"}
    Entries = {1, 2}
    EntrySize <- MCEntrySize
    FsProcs = {p1, p2}
    FsPolicy <- MCFsPolicy
    FsFaults = {"rename", "unref", "touch", "crash"}
    NoOne = NoOne
    NoFile = NoFile
    Writers = {w1, w2}
    Readers = {r1}
    Blob <- MCBlob
    RedisChunks = {1, 2}
    InFlight = 2
    ReadChunk = 2
    Asked <- MCAsked
    AcKeys = {k1, k2}
    TreeFiles <- MCTreeFiles
    ActionResults <- MCActionResults
    Content <- MCContent
    UploadChunks <- MCUploadChunks
    MaxUpload = 4
    UploadSizes = {2, 3, 9}
    NoSize = 9
    Uploads <- MCUploads
    PieceSizes = {1, 3}
    MinSize = 2
    AvgSize = 4
    MaxSize = 5
    Table <- MCTable
    Window = 2
    ReadRanges <- MCReadRanges
    NoLength = 99
    MaxEvictions = 1
    Inputs = {0, 1, 2, 3, 4, 5, 6}
    StatedSizes = {0, 1, 2, 3, 4, 5, 6, 7}
    BlockSizes = {1, 2, 3, 4}
    MaxDecode = 3
    Parts <- MCCompParts
    MaxU64 = 255
    RoutedKeys = {"a", "b", "c"}
    SizeOfKey <- MCSizeOfKey
    HashOfKey <- MCHashOfKey
    StrKeys = {"s"}
    Weights <- MCWeights
    PartitionSize = 2
    MaxKeys = 2
    NoopStores = {3}
    MaxU32 = 15
    Threads = {t1, t2, t3}
    NoThread = none
    StoreUsers = {u1, u2}
    StoreKinds <- MCStoreKinds
    ProbeBytes <- MCProbeBytes
    FileBytes <- MCFileBytes
    DriverPieces = {1, 2}
    DriverRanges <- MCDriverRanges
    DriverFaults = 1
    Conns = {c1, c2}
    ObjectBytes = 2
    MaxStreams = 2
    WriteMessages = 5
    RemoteBytes = 4
    GrpcRetry <- MCRetry
    ReadLimits = {0, 2, 5}
    Endpoints = {"e"}
    PerEndpoint = 2
    MaxRequests = 2
    MaxIndex = 3
    Requesters = {r1, r2, r3}
    Copies = {c1, c2}
    FilePermits = 1
    MorePermits = 1
    SourceBytes = 4
    Ranges <- MCRanges
    ReadBuffer = 2
    ChannelSlots = 1
    IdleTimeout = TRUE
INVARIANTS
    StoresTypeOK
    
    ReadIsExact
    AnswersAreTruthful
    AccountsAgree
    PlacedByContent
    ConnectionsConserved
PROPERTIES
    SafeAfterFirst
CHECK_DEADLOCK FALSE
