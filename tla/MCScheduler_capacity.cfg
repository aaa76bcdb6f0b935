CONSTANTS
    c1 = c1  c2 = c2  k1 = k1  w1 = w1  w2 = w2
    NoOperation = NoOperation
    NoWorker = NoWorker
    NoKey = NoKey
    Match = Match  Api = Api  KeepAliveTask = KeepAliveTask
    Operations = {1, 2}
    Clients = {c1, c2}
    Keys = {}
    Workers = {w1}
    Callers = {Match, Api, KeepAliveTask, c1, c2}
    Faults = {"backpressure", "drain"}
    MaxJobRetries = 0
    MaxUpdateRetries = 2
    MaxUpdates = 3
    MaxVersion = 100
    Capacity = 2
SPECIFICATION SchedulerSpec
SYMMETRY Symmetry
CHECK_DEADLOCK FALSE
INVARIANTS
    PausedHasActions
    NoLostWakeup
