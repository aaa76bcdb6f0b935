CONSTANTS
    c1 = c1  c2 = c2  k1 = k1  w1 = w1  w2 = w2
    NoOperation = NoOperation
    NoWorker = NoWorker
    NoKey = NoKey
    Match = Match  Api = Api  KeepAliveTask = KeepAliveTask
    Operations = {1}
    Clients = {c1, c2}
    Keys = {k1}
    Workers = {w1}
    Callers = {Match, Api, KeepAliveTask, c1, c2}
    Faults = {"lapse", "hangup", "expire", "slow"}
    MaxJobRetries = 0
    MaxUpdateRetries = 2
    MaxUpdates = 2
    MaxVersion = 100
    Capacity = 1
SPECIFICATION SchedulerSpec
SYMMETRY Symmetry
CHECK_DEADLOCK FALSE
PROPERTY UsesStateManager
