CONSTANTS
    c1 = c1  c2 = c2  k1 = k1  w1 = w1  w2 = w2
    NoOperation = NoOperation
    NoWorker = NoWorker
    NoKey = NoKey
    Match = Match  Api = Api  KeepAliveTask = KeepAliveTask
    Operations = {1}
    Clients = {c1}
    Keys = {}
    Workers = {w1}
    Callers = {Match, Api, KeepAliveTask, c1}
    Faults = {"crash", "stall", "leave", "keepalive", "error"}
    MaxJobRetries = 1
    MaxUpdateRetries = 2
    MaxUpdates = 3
    MaxVersion = 100
    Capacity = 1
SPECIFICATION SchedulerSpec
SYMMETRY Symmetry
CHECK_DEADLOCK FALSE
INVARIANTS
    SchedulerTypeOK
    ExecutingIsTracked
    SlotsNeverNegative
