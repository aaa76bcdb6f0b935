SPECIFICATION Spec
CONSTANTS
    Jobs = {j1}
    Tasks = {1}
    NoTask = NoTask
    TooLong = {}
    WorkerFaults = {"store", "rpc"}
    Strategies <- MCStrategies
    MaxConnections = 2
    FsKeys = {"a"}
    FsZero = {}
    Entries = {1, 2}
    EntrySize <- MCEntrySize
    FsProcs = {1, 2}
    FsPolicy <- MCFsPolicy
    FsFaults = {"rename"}
    NoOne = NoOne
    NoFile = NoFile
    S3Bytes = 2
    S3Retry <- MCRetry
    S3Buffers = {0, 5}
    S3Concurrent = 2
    S3Offsets = {0, 1}
    S3Lengths <- MCLengths
    Conns = {c1}
    ObjectBytes = 1
    MaxStreams = 2
    Endpoints = {"e"}
    PerEndpoint = 1
    MaxRequests = 1
    MaxIndex = 3
    Requesters = {1, 2}
    WriteMessages = 3
    RemoteBytes = 3
    GrpcRetry <- MCRetry
    ReadLimits = {0, 2}
    SharedClients = {1}
    Operations <- MCOperations
    Matcher = m
    Finisher = f
    MaxRetries = 0
    RedisFaults = 1
    KeyPrefix = FALSE
    Locals = {1, 2}
    Publisher = pub
    Main = main
    Channel = chan
    MaxEvents = 2
    BatchSize = 1
    Addresses = {a1}
    AcKeys = {k1}
    TreeFiles <- MCTreeFiles
    ActionResults <- MCActionResults
    Requests = {1, 2, 3}
    KeyOf <- MCKeyOf
    Uncachable = {3}
    MaxDeaths = 1
    UpstreamRetry <- MCRetry
    LastStage = 2
    Copies = {1, 2}
    FilePermits = 1
    MorePermits = 0
    SourceBytes = 2
    Ranges <- MCRanges
    ReadBuffer = 2
    ChannelSlots = 1
    IdleTimeout = TRUE
    Content <- MCContent
    UploadChunks <- MCUploadChunks
    MaxUpload = 2
    UploadSizes = {1, 9}
    NoSize = 9
    StoreUsers = {1}
    StoreKinds <- MCStoreKinds
    ProbeBytes <- MCDriverBytes
    FileBytes <- MCDriverBytes
    DriverPieces = {1}
    DriverRanges <- MCDriverRanges
    DriverFaults = 1
PROPERTIES
    CallsReturn
    ChangesAreLearned
    BackgroundEnds
CHECK_DEADLOCK FALSE
