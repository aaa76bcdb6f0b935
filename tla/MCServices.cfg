SPECIFICATION Spec
CONSTANTS
    ActiveParts <- MCParts
    StreamBytes = 4
    ChunkSizes = {1, 2}
    MaxRecents = {0, 2, 4}
    ResetsFreely = FALSE
    S3Bytes = 3
    S3Retry <- MCRetry
    S3Buffers = {0, 5}
    S3Concurrent = 2
    S3Offsets = {0, 1}
    S3Lengths <- MCLengths
    InstanceNames <- MCInstanceNames
    Compressors = {"zstd", "identity"}
    DigestFunctions = {"sha256", "blake3"}
    Metadata = {"meta"}
    Foci = {"cas", "tree", "ac", "exec", "bep"}
    Batches <- MCBatches
    Trees <- MCTrees
    Root = "r"
    PageSizes = {0, 1, 2, 3}
    MaxPaged = 8
    AcEndpoints <- MCEndpoints
    Results = {"x", "y"}
    Instances <- MCInstances
    LastState = 3
    MaxOperations = 3
    MaxBuildEvents = 3
    StoreFaults = 2
    Outputs <- MCOutputs
    ErrorCodes = {4, 13}
    MaxHops = 2
    FileTrees <- MCFileTrees
    DirFaults = 2
    x = x  y = y  t = t  none = none
    Jobs = {j1, j2}
    Tasks = {1, 2}
    NoTask = NoTask
    TooLong = {j2}
    WorkerFaults = {"store", "io", "spawn", "rpc"}
    Strategies <- MCStrategies
    MaxConnections = 2
    SharedClients = {c1, c2}
    Operations <- MCOperations
    Matcher = m
    Finisher = f
    MaxRetries = 0
    RedisFaults = 0
    KeyPrefix = FALSE
    Requests = {r1, r2, r3}
    KeyOf <- MCKeyOf
    Uncachable = {}
    MaxDeaths = 1
    UpstreamRetry <- MCUpstreamRetry
    LastStage = 3
    Locals = {w1, w2}
    Publisher = pub
    Main = main
    Channel = chan
    MaxEvents = 2
    BatchSize = 1
    Addresses = {a1}
    PropNames = {"cpu", "os", "tag", "pool"}
    KnownTypes <- MCKnownTypes
    Offers <- MCOffers
    AsksFor <- MCAsksFor
    ModLists <- MCModLists
    PropOps = {p1, p2}
    NotANumber = 99
    OriginThreads = {t1, t2}
    OriginCalls = {"a", "b"}
    Identities <- MCIdentities
    MethodOf <- MCMethodOf
    HeaderRequired = TRUE
    EventRoom = 1
    PanicsIn = {"hash"}
    MaxPanics = 1
INVARIANTS
    ServicesTypeOK
    TransfersAreSeamless
    
    AnswersAreTrue
    TreesAreExact
    
    UpdatesReachClients
    
    CallersKeptApart
PROPERTIES
    ImplementsByteQueue
    
CHECK_DEADLOCK FALSE
